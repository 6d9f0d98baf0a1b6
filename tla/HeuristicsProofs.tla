-------------------------- MODULE HeuristicsProofs --------------------------
(***************************************************************************)
(* Proofs about what the search loop does next, for all options: which     *)
(* variable it decides (ScoreHeap) and which technique it calls            *)
(* (Schedule).                                                             *)
(*                                                                         *)
(* The score heap, for every set of variables and auxiliary variables:     *)
(* first what heap::up, heap::down, heap::push_back, heap::pop_front and   *)
(* the rescaling of scores do to a heap, then that every action preserves  *)
(* the inductive invariant HeapInv.  The schedule, for all limits and      *)
(* scaling factors: ScheduleInv is inductive, so that                      *)
(* cdcl_loop_with_inprocessing calls no technique twice between two        *)
(* conflicts or decisions.                                                 *)
(***************************************************************************)
EXTENDS ScoreHeap, Schedule, Recursion, FiniteSetTheorems, FunctionTheorems, SequenceTheorems

-----------------------------------------------------------------------------
(* Sequences without repetition.                                           *)

(* Exchanging two elements leaves the same elements, each of them once.    *)
LEMMA ExchangeElements ==
    ASSUME NEW S, NEW a \in Seq(S), Distinct(a), NEW i \in 1 .. Len(a), NEW j \in 1 .. Len(a)
    PROVE  LET b == [a EXCEPT ![i] = a[j], ![j] = a[i]]
           IN  /\ b \in Seq(S) /\ Len(b) = Len(a)
               /\ b[j] = a[i] /\ (i # j => b[i] = a[j])
               /\ \A k \in 1 .. Len(a) : k # i /\ k # j => b[k] = a[k]
               /\ Distinct(b)
               /\ ElementsOf(b) = ElementsOf(a)
<1> DEFINE c == [a EXCEPT ![i] = a[j]]
           b == [c EXCEPT ![j] = a[i]]
<1>1. [a EXCEPT ![i] = a[j], ![j] = a[i]] = b
  OBVIOUS
<1>2. a[i] \in S /\ a[j] \in S /\ Len(a) \in Nat
  BY ElementOfSeq, LenProperties
<1>3. /\ c \in Seq(S) /\ Len(c) = Len(a)
      /\ \A k \in 1 .. Len(a) : c[k] = IF k = i THEN a[j] ELSE a[k]
  BY <1>2, ExceptSeq
<1> HIDE DEF c
<1>4. /\ b \in Seq(S) /\ Len(b) = Len(a)
      /\ \A k \in 1 .. Len(a) : b[k] = IF k = j THEN a[i] ELSE c[k]
  <2>1. j \in 1 .. Len(c)
    BY <1>3
  <2> QED BY <1>2, <1>3, <2>1, ExceptSeq
<1> HIDE DEF b
<1>5. \A k \in 1 .. Len(a) : b[k] = IF k = j THEN a[i] ELSE IF k = i THEN a[j] ELSE a[k]
  BY <1>3, <1>4
<1>6. Distinct(b)
  BY <1>4, <1>5 DEF Distinct
<1>7. ElementsOf(b) = ElementsOf(a)
  <2>1. ElementsOf(b) \subseteq ElementsOf(a)
    BY <1>4, <1>5 DEF ElementsOf
  <2>2. ASSUME NEW k \in 1 .. Len(a) PROVE a[k] \in ElementsOf(b)
    <3>1. \E l \in 1 .. Len(a) : b[l] = a[k]
      BY <1>5
    <3> QED BY <1>4, <3>1 DEF ElementsOf
  <2>3. ElementsOf(a) \subseteq ElementsOf(b)
    BY <2>2 DEF ElementsOf
  <2> QED BY <2>1, <2>3
<1> QED BY <1>1, <1>4, <1>5, <1>6, <1>7

(* The element appended is the last one, the others stay.                  *)
LEMMA AppendElements ==
    ASSUME NEW S, NEW a \in Seq(S), NEW v \in S
    PROVE  /\ Append(a, v) \in Seq(S)
           /\ ElementsOf(Append(a, v)) = ElementsOf(a) \cup {v}
           /\ Distinct(a) /\ v \notin ElementsOf(a) => Distinct(Append(a, v))
<1>1. Len(a) \in Nat
  BY LenProperties
<1>2. /\ Append(a, v) \in Seq(S)
      /\ Len(Append(a, v)) = Len(a) + 1
      /\ \A i \in 1 .. Len(a) : Append(a, v)[i] = a[i]
      /\ Append(a, v)[Len(a) + 1] = v
  BY AppendProperties
<1>3. \A i \in 1 .. Len(a) + 1 : i \in 1 .. Len(a) \/ i = Len(a) + 1
  BY <1>1
<1>4. ElementsOf(Append(a, v)) \subseteq ElementsOf(a) \cup {v}
  BY <1>2, <1>3 DEF ElementsOf
<1>5. ElementsOf(a) \cup {v} \subseteq ElementsOf(Append(a, v))
  <2>1. Len(a) + 1 \in 1 .. Len(a) + 1 /\ \A i \in 1 .. Len(a) : i \in 1 .. Len(a) + 1
    BY <1>1
  <2> QED BY <1>2, <2>1 DEF ElementsOf
<1>6. ASSUME Distinct(a), v \notin ElementsOf(a) PROVE Distinct(Append(a, v))
  BY <1>2, <1>3, <1>6 DEF Distinct, ElementsOf
<1> QED BY <1>2, <1>4, <1>5, <1>6

(* Taking the first element off.                                           *)
LEMMA TailElements ==
    ASSUME NEW S, NEW a \in Seq(S), a # << >>, Distinct(a)
    PROVE  /\ a[1] \in S /\ a[1] \in ElementsOf(a) /\ Tail(a) \in Seq(S)
           /\ ElementsOf(Tail(a)) = ElementsOf(a) \ {a[1]}
           /\ Distinct(Tail(a))
<1>1. Len(a) \in Nat /\ Len(a) # 0
  BY LenProperties, EmptySeq
<1>2. /\ Tail(a) \in Seq(S) /\ Len(Tail(a)) = Len(a) - 1
      /\ \A i \in 1 .. Len(Tail(a)) : Tail(a)[i] = a[i + 1]
  BY HeadTailProperties
<1>3. a[1] \in S /\ 1 \in 1 .. Len(a)
  BY <1>1, ElementOfSeq
<1>4. Distinct(Tail(a))
  <2>1. \A i \in 1 .. Len(Tail(a)) : i + 1 \in 1 .. Len(a)
    BY <1>1, <1>2
  <2> QED BY <1>1, <1>2, <2>1 DEF Distinct
<1>5. ElementsOf(Tail(a)) \subseteq ElementsOf(a) \ {a[1]}
  <2> SUFFICES ASSUME NEW i \in 1 .. Len(Tail(a))
               PROVE  Tail(a)[i] \in ElementsOf(a) \ {a[1]}
    BY DEF ElementsOf
  <2>1. i + 1 \in 1 .. Len(a) /\ i + 1 # 1
    BY <1>1, <1>2
  <2> QED BY <1>2, <1>3, <2>1 DEF Distinct, ElementsOf
<1>6. ElementsOf(a) \ {a[1]} \subseteq ElementsOf(Tail(a))
  <2> SUFFICES ASSUME NEW i \in 1 .. Len(a), a[i] # a[1]
               PROVE  a[i] \in ElementsOf(Tail(a))
    BY DEF ElementsOf
  <2>1. i - 1 \in 1 .. Len(Tail(a)) /\ (i - 1) + 1 = i
    BY <1>1, <1>2
  <2> QED BY <1>2, <2>1 DEF ElementsOf
<1> QED BY <1>2, <1>3, <1>4, <1>5, <1>6 DEF ElementsOf

-----------------------------------------------------------------------------
(* The order of the heap.                                                  *)

(* Half a position is a position further up.                               *)
LEMMA Half ==
    ASSUME NEW n \in Nat, NEW i \in 2 .. n
    PROVE  i \div 2 \in 1 .. n /\ i \div 2 < i /\ i \div 2 \in Nat /\ i \in 1 .. n /\ i # 1
OBVIOUS

(* The first element of a heap has the largest score.                      *)
LEMMA RootLargest ==
    ASSUME NEW S, NEW a \in Seq(S), NEW s \in [S -> Int], NEW d, NEW m, m \notin S,
           HeapOrdered(a, s, m, d)
    PROVE  \A i \in 1 .. Len(a) : s[a[i]] <= s[a[1]]
<1> DEFINE T == {i \in 1 .. Len(a) : ~(s[a[i]] <= s[a[1]])}
<1> SUFFICES ASSUME T # {} PROVE FALSE
  OBVIOUS
<1>1. Len(a) \in Nat /\ \A i \in 1 .. Len(a) : a[i] \in S /\ s[a[i]] \in Int
  BY LenProperties, ElementOfSeq
<1>2. T \subseteq Nat
  OBVIOUS
<1>3. PICK i \in T : \A j \in T : i <= j
  <2> HIDE DEF T
  <2> QED BY <1>2, LeastElement
<1>4. i \in 1 .. Len(a) /\ ~(s[a[i]] <= s[a[1]])
  OBVIOUS
<1>5. i \in 2 .. Len(a)
  <2>1. i # 1
    BY <1>1, <1>4
  <2> QED BY <1>1, <1>4, <2>1
<1>6. i \div 2 \in 1 .. Len(a) /\ i \div 2 < i
  BY <1>1, <1>5, Half
<1>7. s[a[i]] <= s[a[i \div 2]]
  <2>1. a[i] # m /\ a[i \div 2] # m
    BY <1>1, <1>4, <1>6
  <2> QED BY <1>5, <2>1 DEF HeapOrdered
<1>8. i \div 2 \notin T
  BY <1>3, <1>6
<1>9. s[a[i \div 2]] <= s[a[1]]
  BY <1>6, <1>8
<1> QED BY <1>1, <1>4, <1>6, <1>7, <1>9

(* heap::up: exchanging the element that is moved with its parent.         *)
LEMMA UpOrdered ==
    ASSUME NEW S, NEW a \in Seq(S), NEW s \in [S -> Int], Distinct(a),
           NEW i \in 2 .. Len(a), HeapOrdered(a, s, a[i], "up")
    PROVE  HeapOrdered([a EXCEPT ![i] = a[i \div 2], ![i \div 2] = a[i]], s, a[i], "up")
<1> DEFINE p == i \div 2
           m == a[i]
           b == [a EXCEPT ![i] = a[p], ![p] = m]
<1>1. Len(a) \in Nat /\ \A k \in 1 .. Len(a) : a[k] \in S /\ s[a[k]] \in Int
  BY LenProperties, ElementOfSeq
<1>2. p \in 1 .. Len(a) /\ p < i /\ p \in Nat /\ i \in 1 .. Len(a) /\ i # p
  BY <1>1, Half
<1>3. /\ Len(b) = Len(a) /\ b[p] = m /\ b[i] = a[p]
      /\ \A k \in 1 .. Len(a) : k # i /\ k # p => b[k] = a[k]
  BY <1>2, ExchangeElements
<1> HIDE DEF b
<1>4. \A k \in 1 .. Len(a) : k # i => a[k] # m
  BY <1>2 DEF Distinct
<1>5. \A k \in 1 .. Len(a) : b[k] = m <=> k = p
  BY <1>2, <1>3, <1>4
<1>6. /\ \A k \in 2 .. Len(a) : k # i /\ k \div 2 # i => s[a[k]] <= s[a[k \div 2]]
      /\ \A j \in 2 .. Len(a) : j \div 2 = i => s[a[j]] <= s[a[p]]
  <2>1. ASSUME NEW k \in 2 .. Len(a), k # i, k \div 2 # i PROVE s[a[k]] <= s[a[k \div 2]]
    <3>1. k \in 1 .. Len(a) /\ k \div 2 \in 1 .. Len(a)
      BY <1>1, Half
    <3>2. a[k] # m /\ a[k \div 2] # m
      BY <1>4, <2>1, <3>1
    <3> QED BY <3>2 DEF HeapOrdered
  <2> QED BY <2>1 DEF HeapOrdered
<1> SUFFICES ASSUME NEW k \in 2 .. Len(a)
             PROVE  /\ b[k] # m /\ b[k \div 2] # m => s[b[k]] <= s[b[k \div 2]]
                    /\ b[k] = m => \A j \in 2 .. Len(a) : j \div 2 = k => s[b[j]] <= s[b[k \div 2]]
  BY <1>3 DEF HeapOrdered, b
<1>7. k \in 1 .. Len(a) /\ k \div 2 \in 1 .. Len(a) /\ k \div 2 < k
  BY <1>1, Half
<1>8. ASSUME b[k] # m, b[k \div 2] # m PROVE s[b[k]] <= s[b[k \div 2]]
  <2>1. k # p /\ k \div 2 # p
    BY <1>5, <1>7, <1>8
  <2>2. k # i
    BY <2>1
  <2>3. b[k] = a[k]
    BY <1>3, <1>7, <2>1, <2>2
  <2>4. CASE k \div 2 = i
    BY <1>3, <1>6, <2>3, <2>4
  <2>5. CASE k \div 2 # i
    <3>1. b[k \div 2] = a[k \div 2]
      BY <1>3, <1>7, <2>1, <2>5
    <3> QED BY <1>6, <2>2, <2>3, <2>5, <3>1
  <2> QED BY <2>4, <2>5
<1>9. ASSUME b[k] = m, NEW j \in 2 .. Len(a), j \div 2 = k PROVE s[b[j]] <= s[b[k \div 2]]
  <2>1. k = p /\ p \in 2 .. Len(a)
    BY <1>5, <1>7, <1>9
  <2>2. j \in 1 .. Len(a) /\ j # p /\ j \div 2 # i /\ p # i
    BY <1>1, <1>2, <1>9, <2>1, Half
  <2>3. b[p \div 2] = a[p \div 2] /\ p \div 2 \in 1 .. Len(a)
    <3>1. p \div 2 \in 1 .. Len(a) /\ p \div 2 < p
      BY <1>7, <2>1
    <3>2. p \div 2 # i /\ p \div 2 # p
      BY <1>2, <3>1
    <3> QED BY <1>3, <3>1, <3>2
  <2>4. s[a[p]] <= s[a[p \div 2]]
    <3>1. p \div 2 # i
      BY <1>2, <2>1, <1>7
    <3> QED BY <1>6, <2>1, <2>2, <3>1
  <2>5. CASE j = i
    BY <1>3, <2>1, <2>3, <2>4, <2>5
  <2>6. CASE j # i
    <3>1. s[a[j]] <= s[a[p]]
      BY <1>6, <1>9, <2>1, <2>2, <2>6
    <3>2. b[j] = a[j]
      BY <1>3, <2>2, <2>6
    <3> QED BY <1>1, <1>2, <2>1, <2>2, <2>3, <2>4, <3>1, <3>2
  <2> QED BY <2>5, <2>6
<1> QED BY <1>8, <1>9

(* heap::up ends at the root or below a parent that is not smaller.        *)
LEMMA UpEnds ==
    ASSUME NEW S, NEW a \in Seq(S), NEW s, Distinct(a), NEW i \in 1 .. Len(a),
           HeapOrdered(a, s, a[i], "up"), i # 1 => s[a[i]] <= s[a[i \div 2]]
    PROVE  HeapOrdered(a, s, a[i], "down")
<1>1. Len(a) \in Nat
  BY LenProperties
<1>2. \A k \in 2 .. Len(a) : a[k] = a[i] => k = i
  BY <1>1 DEF Distinct
<1> QED BY <1>1, <1>2 DEF HeapOrdered

(* heap::down: exchanging the element that is moved with its larger child. *)
LEMMA DownOrdered ==
    ASSUME NEW S, NEW a \in Seq(S), NEW s \in [S -> Int], Distinct(a),
           NEW i \in 1 .. Len(a), NEW c \in 2 .. Len(a), c \div 2 = i,
           HeapOrdered(a, s, a[i], "down"), s[a[i]] <= s[a[c]],
           \A j \in 2 .. Len(a) : j \div 2 = i => s[a[j]] <= s[a[c]]
    PROVE  HeapOrdered([a EXCEPT ![i] = a[c], ![c] = a[i]], s, a[i], "down")
<1> DEFINE m == a[i]
           b == [a EXCEPT ![i] = a[c], ![c] = m]
<1>1. Len(a) \in Nat /\ \A k \in 1 .. Len(a) : a[k] \in S /\ s[a[k]] \in Int
  BY LenProperties, ElementOfSeq
<1>2. c \in 1 .. Len(a) /\ i < c
  BY <1>1, Half
<1>3. /\ Len(b) = Len(a) /\ b[c] = m /\ b[i] = a[c]
      /\ \A k \in 1 .. Len(a) : k # i /\ k # c => b[k] = a[k]
  BY <1>2, ExchangeElements
<1> HIDE DEF b
<1>4. \A k \in 1 .. Len(a) : k # i => a[k] # m
  BY DEF Distinct
<1>5. \A k \in 1 .. Len(a) : b[k] = m <=> k = c
  BY <1>2, <1>3, <1>4
<1>6. ASSUME NEW k \in 2 .. Len(a), k # i, k \div 2 # i PROVE s[a[k]] <= s[a[k \div 2]]
  <2>1. k \in 1 .. Len(a) /\ k \div 2 \in 1 .. Len(a)
    BY <1>1, Half
  <2>2. a[k] # m /\ a[k \div 2] # m
    BY <1>4, <1>6, <2>1
  <2> QED BY <2>2 DEF HeapOrdered
<1> SUFFICES ASSUME NEW k \in 2 .. Len(a)
             PROVE  /\ b[k] # m /\ b[k \div 2] # m => s[b[k]] <= s[b[k \div 2]]
                    /\ b[k] = m => /\ \A j \in 2 .. Len(a) :
                                          j \div 2 = k => s[b[j]] <= s[b[k \div 2]]
                                   /\ s[m] <= s[b[k \div 2]]
  BY <1>3 DEF HeapOrdered, b
<1>7. k \in 1 .. Len(a) /\ k \div 2 \in 1 .. Len(a) /\ k \div 2 < k
  BY <1>1, Half
<1>8. ASSUME b[k] # m, b[k \div 2] # m PROVE s[b[k]] <= s[b[k \div 2]]
  <2>1. k # c /\ k \div 2 # c
    BY <1>5, <1>7, <1>8
  <2>2. CASE k = i
    <3>1. b[k \div 2] = a[k \div 2]
      BY <1>3, <1>7, <2>1, <2>2
    <3>2. s[a[c]] <= s[a[k \div 2]]
      BY <2>2 DEF HeapOrdered
    <3> QED BY <1>3, <2>2, <3>1, <3>2
  <2>3. CASE k # i /\ k \div 2 = i
    BY <1>3, <1>7, <2>1, <2>3
  <2>4. CASE k # i /\ k \div 2 # i
    BY <1>3, <1>6, <1>7, <2>1, <2>4
  <2> QED BY <2>2, <2>3, <2>4
<1>9. ASSUME b[k] = m
      PROVE  /\ \A j \in 2 .. Len(a) : j \div 2 = k => s[b[j]] <= s[b[k \div 2]]
             /\ s[m] <= s[b[k \div 2]]
  <2>1. k = c
    BY <1>5, <1>7, <1>9
  <2>2. b[k \div 2] = a[c]
    BY <1>3, <2>1
  <2>3. ASSUME NEW j \in 2 .. Len(a), j \div 2 = k PROVE s[b[j]] <= s[a[c]]
    <3>1. j \in 1 .. Len(a) /\ k < j
      BY <1>1, <2>3, Half
    <3>2. j # i /\ j # c /\ j \div 2 # i
      BY <1>1, <1>2, <2>1, <2>3, <3>1
    <3>3. b[j] = a[j]
      BY <1>3, <3>1, <3>2
    <3> QED BY <1>6, <2>1, <2>3, <3>2, <3>3
  <2> QED BY <2>2, <2>3
<1> QED BY <1>8, <1>9

(* heap::down ends at the bottom or above children that are not larger.    *)
LEMMA DownEnds ==
    ASSUME NEW S, NEW a \in Seq(S), NEW s, Distinct(a), NEW i \in 1 .. Len(a),
           NEW m, NEW d, HeapOrdered(a, s, a[i], "down"),
           \A j \in 2 .. Len(a) : j \div 2 = i => s[a[j]] <= s[a[i]],
           m \notin S
    PROVE  HeapOrdered(a, s, m, d)
<1>1. Len(a) \in Nat /\ \A k \in 1 .. Len(a) : a[k] # m
  BY LenProperties, ElementOfSeq
<1>2. ASSUME NEW k \in 2 .. Len(a) PROVE s[a[k]] <= s[a[k \div 2]] /\ a[k] # m
  <2>1. k \in 1 .. Len(a) /\ k \div 2 \in 1 .. Len(a)
    BY <1>1, Half
  <2>2. CASE a[k] = a[i]
    BY <1>1, <2>1, <2>2 DEF HeapOrdered
  <2>3. CASE a[k \div 2] = a[i]
    <3>1. k \div 2 = i
      BY <2>1, <2>3 DEF Distinct
    <3> QED BY <1>1, <2>1, <3>1
  <2>4. CASE a[k] # a[i] /\ a[k \div 2] # a[i]
    BY <1>1, <2>1, <2>4 DEF HeapOrdered
  <2> QED BY <2>2, <2>3, <2>4
<1> QED BY <1>2 DEF HeapOrdered

(* heap::update after other scores for v, and the rescaling of the others: *)
(* what matters is that the order of the other elements is kept.           *)
LEMMA RescoredOrdered ==
    ASSUME NEW S, NEW a \in Seq(S), NEW s \in [S -> Int], NEW t \in [S -> Int], Distinct(a),
           NEW m, m \notin S, NEW d, HeapOrdered(a, s, m, d), NEW v,
           \A x, y \in ElementsOf(a) \ {v} : s[x] <= s[y] => t[x] <= t[y]
    PROVE  /\ HeapOrdered(a, t, v, "up")
           /\ v \notin S => HeapOrdered(a, t, v, "down")
<1>1. Len(a) \in Nat /\ \A k \in 1 .. Len(a) : a[k] \in S /\ s[a[k]] \in Int /\ a[k] \in ElementsOf(a)
  BY LenProperties, ElementOfSeq DEF ElementsOf
<1>2. ASSUME NEW k \in 2 .. Len(a)
      PROVE  k \in 1 .. Len(a) /\ k \div 2 \in 1 .. Len(a) /\ k # k \div 2 /\ s[a[k]] <= s[a[k \div 2]]
  <2>1. k \in 1 .. Len(a) /\ k \div 2 \in 1 .. Len(a) /\ k # k \div 2
    BY <1>1, Half
  <2>2. a[k] # m /\ a[k \div 2] # m
    BY <1>1, <2>1
  <2> QED BY <2>1, <2>2 DEF HeapOrdered
<1>3. ASSUME NEW k \in 2 .. Len(a), a[k] # v, a[k \div 2] # v PROVE t[a[k]] <= t[a[k \div 2]]
  BY <1>1, <1>2, <1>3
<1>4. ASSUME NEW k \in 2 .. Len(a), a[k] = v, NEW j \in 2 .. Len(a), j \div 2 = k
      PROVE  t[a[j]] <= t[a[k \div 2]]
  <2>1. s[a[j]] <= s[a[k]] /\ s[a[k]] <= s[a[k \div 2]]
    BY <1>2, <1>4
  <2>2. j \in 1 .. Len(a) /\ k \in 1 .. Len(a) /\ k \div 2 \in 1 .. Len(a) /\ j # k /\ k \div 2 # k
    BY <1>2, <1>4
  <2>3. a[j] # v /\ a[k \div 2] # v
    BY <1>4, <2>2 DEF Distinct
  <2>4. s[a[j]] <= s[a[k \div 2]]
    BY <1>1, <2>1, <2>2
  <2> QED BY <1>1, <2>2, <2>3, <2>4
<1>5. v \notin S => \A k \in 2 .. Len(a) : a[k] # v
  BY <1>1, <1>2
<1> QED BY <1>3, <1>4, <1>5 DEF HeapOrdered

(* heap::push_back puts a new element at the end, and it may go up.        *)
LEMMA PushOrdered ==
    ASSUME NEW S, NEW a \in Seq(S), NEW s \in [S -> Int], NEW t \in [S -> Int],
           NEW m, m \notin S, NEW d, HeapOrdered(a, s, m, d),
           NEW v \in S, v \notin ElementsOf(a), \A x \in ElementsOf(a) : t[x] = s[x]
    PROVE  HeapOrdered(Append(a, v), t, v, "up")
<1> DEFINE b == Append(a, v)
<1>1. Len(a) \in Nat /\ \A k \in 1 .. Len(a) : a[k] \in S /\ s[a[k]] \in Int /\ a[k] \in ElementsOf(a)
  BY LenProperties, ElementOfSeq DEF ElementsOf
<1>2. /\ Len(b) = Len(a) + 1 /\ b[Len(a) + 1] = v
      /\ \A k \in 1 .. Len(a) : b[k] = a[k]
  BY AppendProperties
<1> HIDE DEF b
<1>3. ASSUME NEW k \in 2 .. Len(b), b[k] # v, b[k \div 2] # v PROVE t[b[k]] <= t[b[k \div 2]]
  <2>1. k \in 2 .. Len(a)
    BY <1>1, <1>2, <1>3
  <2>2. k \in 1 .. Len(a) /\ k \div 2 \in 1 .. Len(a)
    BY <1>1, <2>1, Half
  <2>3. a[k] # m /\ a[k \div 2] # m
    BY <1>1, <2>2
  <2> QED BY <1>1, <1>2, <2>1, <2>2, <2>3 DEF HeapOrdered
<1>4. ASSUME NEW k \in 2 .. Len(b), b[k] = v PROVE ~ \E j \in 2 .. Len(b) : j \div 2 = k
  <2>1. k \in 1 .. Len(a) \/ k = Len(a) + 1
    BY <1>1, <1>2
  <2>2. k \in 1 .. Len(a) => b[k] = a[k] /\ a[k] \in ElementsOf(a)
    BY <1>1, <1>2
  <2>3. k = Len(a) + 1
    BY <1>4, <2>1, <2>2
  <2> QED BY <1>1, <1>2, <2>3, Half
<1> QED BY <1>3, <1>4 DEF HeapOrdered, b

(* heap::pop_front puts the last element at the root, and it may go down.  *)
LEMMA PopOrdered ==
    ASSUME NEW S, NEW a \in Seq(S), NEW s \in [S -> Int], Distinct(a), a # << >>,
           NEW m, m \notin S, NEW d, HeapOrdered(a, s, m, d)
    PROVE  LET n == Len(a)
               b == [i \in 1 .. n - 1 |-> IF i = 1 THEN a[n] ELSE a[i]]
           IN  /\ b \in Seq(S) /\ Distinct(b)
               /\ ElementsOf(b) = ElementsOf(a) \ {a[1]}
               /\ a[1] \in S /\ a[1] \in ElementsOf(a)
               /\ n > 2 => a[n] \in ElementsOf(b) /\ HeapOrdered(b, s, a[n], "down")
               /\ n <= 2 => HeapOrdered(b, s, m, "up")
<1> DEFINE n == Len(a)
           b == [i \in 1 .. n - 1 |-> IF i = 1 THEN a[n] ELSE a[i]]
<1>1. n \in Nat /\ n # 0 /\ \A k \in 1 .. n : a[k] \in S /\ a[k] \in ElementsOf(a)
  BY LenProperties, EmptySeq, ElementOfSeq DEF ElementsOf
<1>2. b \in Seq(S) /\ Len(b) = n - 1
  <2>1. n - 1 \in Nat /\ \A i \in 1 .. n - 1 : (IF i = 1 THEN a[n] ELSE a[i]) \in S
    BY <1>1
  <2>2. b \in [1 .. n - 1 -> S]
    BY <2>1
  <2> HIDE DEF b
  <2> QED BY <2>1, <2>2
<1>3. \A i \in 1 .. n - 1 : i \in 1 .. n /\ i # n /\ b[i] = IF i = 1 THEN a[n] ELSE a[i]
  BY <1>1
<1> HIDE DEF b
<1>4. Distinct(b)
  <2> SUFFICES ASSUME NEW i \in 1 .. n - 1, NEW j \in 1 .. n - 1, b[i] = b[j] PROVE i = j
    BY <1>2 DEF Distinct
  <2>1. n \in 1 .. n /\ i \in 1 .. n /\ j \in 1 .. n /\ i # n /\ j # n
    BY <1>1, <1>3
  <2>2. \A k, l \in 1 .. n : a[k] = a[l] => k = l
    BY DEF Distinct
  <2> QED BY <1>3, <2>1, <2>2
<1>5. ElementsOf(b) \subseteq ElementsOf(a) \ {a[1]}
  <2> SUFFICES ASSUME NEW i \in 1 .. n - 1 PROVE b[i] \in ElementsOf(a) \ {a[1]}
    BY <1>2 DEF ElementsOf
  <2>1. n \in 1 .. n /\ 1 \in 1 .. n /\ n # 1
    BY <1>1
  <2> QED BY <1>1, <1>3, <2>1 DEF Distinct
<1>6. ElementsOf(a) \ {a[1]} \subseteq ElementsOf(b)
  <2> SUFFICES ASSUME NEW i \in 1 .. n, a[i] # a[1] PROVE \E j \in 1 .. n - 1 : b[j] = a[i]
    <3>1. ElementsOf(b) = {b[j] : j \in 1 .. n - 1}
      BY <1>2 DEF ElementsOf
    <3>2. ElementsOf(a) = {a[j] : j \in 1 .. n}
      BY DEF ElementsOf
    <3> QED BY <3>1, <3>2
  <2>1. CASE i = n
    <3>1. 1 \in 1 .. n - 1
      BY <1>1, <2>1
    <3> QED BY <1>3, <2>1, <3>1
  <2>2. CASE i # n
    <3>1. i \in 1 .. n - 1 /\ i # 1
      BY <1>1, <2>2
    <3> QED BY <1>3, <3>1
  <2> QED BY <2>1, <2>2
<1>7. ASSUME n > 2 PROVE a[n] \in ElementsOf(b) /\ HeapOrdered(b, s, a[n], "down")
  <2>1. 1 \in 1 .. n - 1 /\ b[1] = a[n]
    BY <1>1, <1>3, <1>7
  <2>2. \A k \in 2 .. Len(b) : b[k] # a[n]
    <3> SUFFICES ASSUME NEW k \in 2 .. n - 1 PROVE b[k] # a[n]
      BY <1>2
    <3>1. k \in 1 .. n - 1 /\ k # 1 /\ k \in 1 .. n /\ n \in 1 .. n /\ k # n
      BY <1>1
    <3> QED BY <1>3, <3>1 DEF Distinct
  <2>3. ASSUME NEW k \in 2 .. Len(b), b[k \div 2] # a[n] PROVE s[b[k]] <= s[b[k \div 2]]
    <3>1. k \in 1 .. n - 1 /\ k \div 2 \in 1 .. n - 1 /\ k # 1 /\ k \in 2 .. n
      BY <1>1, <1>2, Half
    <3>2. k \div 2 # 1
      BY <2>1, <2>3
    <3>3. b[k] = a[k] /\ b[k \div 2] = a[k \div 2]
      BY <1>3, <3>1, <3>2
    <3>4. a[k] # m /\ a[k \div 2] # m
      BY <1>1, <1>3, <3>1
    <3> QED BY <3>1, <3>3, <3>4 DEF HeapOrdered
  <2>4. a[n] \in ElementsOf(b)
    BY <1>2, <2>1 DEF ElementsOf
  <2>5. HeapOrdered(b, s, a[n], "down")
    BY <2>2, <2>3 DEF HeapOrdered
  <2> QED BY <2>4, <2>5
<1>8. ASSUME n <= 2 PROVE HeapOrdered(b, s, m, "up")
  <2>1. 2 .. Len(b) = {}
    BY <1>1, <1>2, <1>8
  <2> QED BY <2>1 DEF HeapOrdered
<1>9. 1 \in 1 .. n
  BY <1>1
<1> QED BY <1>1, <1>2, <1>4, <1>5, <1>6, <1>7, <1>8, <1>9 DEF b

(* rescale_variable_scores keeps the order of scores, but may join some.   *)
LEMMA HalvedMonotone ==
    ASSUME NEW x \in Int, NEW y \in Int, x <= y
    PROVE  Halved(x) \in Int /\ Halved(y) \in Int /\ Halved(x) <= Halved(y)
<1> DEFINE h(z) == z \div 2
<1>1. \A n \in Nat : h(n) \in Nat
  OBVIOUS
<1>2. \A n, k \in Nat : n <= k => h(n) <= h(k)
  OBVIOUS
<1>3. CASE x < 0 /\ y < 0
  <2>1. -x \in Nat /\ -y \in Nat /\ -y <= -x
    BY <1>3
  <2>2. h(-y) <= h(-x) /\ h(-x) \in Nat /\ h(-y) \in Nat
    BY <1>1, <1>2, <2>1
  <2> QED BY <1>3, <2>2 DEF Halved
<1>4. CASE x < 0 /\ ~(y < 0)
  <2>1. -x \in Nat /\ y \in Nat
    BY <1>4
  <2>2. h(-x) \in Nat /\ h(y) \in Nat
    BY <1>1, <2>1
  <2> QED BY <1>4, <2>2 DEF Halved
<1>5. CASE ~(x < 0)
  <2>1. x \in Nat /\ y \in Nat /\ ~(y < 0)
    BY <1>5
  <2>2. h(x) <= h(y) /\ h(x) \in Nat /\ h(y) \in Nat
    BY <1>1, <1>2, <2>1
  <2> QED BY <1>5, <2>1, <2>2 DEF Halved
<1> QED BY <1>3, <1>4, <1>5

-----------------------------------------------------------------------------
(* The actions.                                                            *)

(* What the assumption on the constants says of a setup.                   *)
LEMMA SetupRight ==
    ASSUME HeapTypeOK
    PROVE  /\ 0 \notin Vars /\ IsFiniteSet(Vars) /\ Aux \subseteq Vars
           /\ Sink \in Nat \ {0} /\ MaxScore \in Nat
BY HeapAssumption DEF HeapTypeOK, Vars, Aux, Sink, MaxScore

(* The table pos is the inverse of the heap.                               *)
LEMMA PosRight ==
    ASSUME HeapTypeOK, NothingTwice
    PROVE  /\ \A v : Contains(v) <=> v \in ElementsOf(array)
           /\ \A v \in ElementsOf(array) : Pos(v) \in 1 .. Len(array) /\ array[Pos(v)] = v
BY DEF Contains, ElementsOf, Pos

(* A step that only moves elements within the heap.                        *)
LEMMA HeapOnly ==
    ASSUME HeapInv, UNCHANGED <<setup, scores, values, pc, loops>>,
           array' \in Seq(Vars), ElementsOf(array') = ElementsOf(array), Distinct(array'),
           moving' \in {0} \cup ElementsOf(array), dir' \in {"up", "down"},
           HeapOrdered(array', stab, moving', dir')
    PROVE  HeapInv'
<1> USE DEF HeapInv
<1>1. /\ setup' = setup /\ stab' = stab /\ inc' = inc /\ allocated' = allocated
      /\ assigned' = assigned /\ fixed' = fixed /\ inactive' = inactive /\ pc' = pc
      /\ analyzed' = analyzed /\ saved' = saved /\ shuffling' = shuffling /\ res' = res
      /\ Vars' = Vars /\ Inputs' = Inputs /\ Flushed' = Flushed
  BY DEF scores, values, loops, Vars, Inputs, Aux, Flushed
<1>2. HeapTypeOK'
  BY <1>1 DEF HeapTypeOK
<1>3. NothingTwice'
  BY <1>1 DEF NothingTwice
<1>4. NothingLost'
  BY <1>1 DEF NothingLost
<1>5. BestScore'
  BY <1>1 DEF BestScore
<1>6. HeapOrdered(array', stab', moving', dir')
  BY <1>1
<1> QED BY <1>2, <1>3, <1>4, <1>5, <1>6

(* An iteration of heap::up exchanges the element with a smaller parent,   *)
(* or the element has come to rest and goes on with heap::down.            *)
LEMMA UpInv == ASSUME HeapInv, UNCHANGED setup, Up PROVE HeapInv'
<1> DEFINE i == Pos(moving)
           p == i \div 2
<1>0. HeapTypeOK /\ NothingTwice /\ HeapOrdered(array, stab, moving, "up")
  BY DEF HeapInv, Up
<1>1. /\ array \in Seq(Vars) /\ stab \in [Vars -> Int] /\ Distinct(array)
      /\ moving \in ElementsOf(array) /\ dir \in {"up", "down"}
      /\ Len(array) \in Nat /\ \A k \in 1 .. Len(array) : array[k] \in Vars
  BY <1>0, LenProperties, ElementOfSeq DEF HeapTypeOK, NothingTwice, Up
<1>2. i \in 1 .. Len(array) /\ array[i] = moving
  BY <1>0, <1>1, PosRight
<1>3. \A v \in Vars : stab[v] \in Int
  BY <1>1
<1> HIDE DEF i
<1>4. /\ UNCHANGED <<setup, scores, values, pc, loops>> /\ moving' = moving
      /\ IF i > 1 /\ Less(array[p], moving)
         THEN array' = Exchanged(i, p) /\ UNCHANGED dir
         ELSE dir' = "down" /\ UNCHANGED array
  BY DEF Up, i
<1>5. CASE i > 1 /\ Less(array[p], moving)
  <2>1. i \in 2 .. Len(array) /\ p \in 1 .. Len(array)
    BY <1>1, <1>2, <1>5, Half
  <2>2. array' = [array EXCEPT ![i] = array[p], ![p] = array[i]]
    BY <1>4, <1>5 DEF Exchanged
  <2>3. array' \in Seq(Vars) /\ ElementsOf(array') = ElementsOf(array) /\ Distinct(array')
    <3> HIDE DEF p
    <3> QED BY <1>1, <1>2, <2>1, <2>2, ExchangeElements
  <2>4. HeapOrdered(array', stab, moving, "up")
    BY <1>0, <1>1, <1>2, <2>1, <2>2, UpOrdered
  <2>5. dir' = "up"
    BY <1>4, <1>5 DEF Up
  <2> QED BY <1>1, <1>4, <2>3, <2>4, <2>5, HeapOnly
<1>6. CASE ~(i > 1 /\ Less(array[p], moving))
  <2>1. array' = array /\ dir' = "down"
    BY <1>4, <1>6
  <2>2. i # 1 => stab[array[i]] <= stab[array[p]]
    <3> SUFFICES ASSUME i # 1 PROVE stab[array[i]] <= stab[array[p]]
      OBVIOUS
    <3>1. i \in 2 .. Len(array) /\ p \in 1 .. Len(array)
      BY <1>1, <1>2, Half
    <3>2. ~(stab[array[p]] < stab[moving])
      BY <1>6, <3>1 DEF Less
    <3>3. stab[array[p]] \in Int /\ stab[moving] \in Int
      BY <1>1, <1>2, <1>3, <3>1
    <3> QED BY <1>2, <3>2, <3>3
  <2>3. HeapOrdered(array, stab, moving, "down")
    BY <1>0, <1>1, <1>2, <2>2, UpEnds
  <2> QED BY <1>1, <1>4, <2>1, <2>3, HeapOnly
<1> QED BY <1>5, <1>6

(* The larger child is a child, and no child has a larger score.           *)
LEMMA LargerChildRight ==
    ASSUME HeapTypeOK, NEW i \in 1 .. Len(array), 2 * i <= Len(array)
    PROVE  LET c == LargerChild(i)
           IN  /\ c \in 2 .. Len(array) /\ c \div 2 = i
               /\ \A j \in 2 .. Len(array) : j \div 2 = i => stab[array[j]] <= stab[array[c]]
<1>1. /\ Len(array) \in Nat
      /\ \A k \in 1 .. Len(array) : array[k] \in Vars /\ stab[array[k]] \in Int
  BY LenProperties, ElementOfSeq DEF HeapTypeOK
<1>2. 2 * i \in 2 .. Len(array) /\ (2 * i) \div 2 = i /\ (2 * i + 1) \div 2 = i
  BY <1>1
<1>3. \A j \in 2 .. Len(array) : j \div 2 = i => j = 2 * i \/ j = 2 * i + 1
  BY <1>1
<1>4. CASE 2 * i + 1 <= Len(array) /\ Less(array[2 * i], array[2 * i + 1])
  <2>1. LargerChild(i) = 2 * i + 1 /\ 2 * i + 1 \in 2 .. Len(array)
    BY <1>1, <1>4 DEF LargerChild
  <2>2. stab[array[2 * i]] <= stab[array[2 * i + 1]]
    BY <1>1, <1>2, <1>4 DEF Less
  <2>3. stab[array[2 * i + 1]] <= stab[array[2 * i + 1]]
    BY <1>1, <2>1
  <2> QED BY <1>2, <1>3, <2>1, <2>2, <2>3
<1>5. CASE ~(2 * i + 1 <= Len(array) /\ Less(array[2 * i], array[2 * i + 1]))
  <2>1. LargerChild(i) = 2 * i
    BY <1>5 DEF LargerChild
  <2>0. 2 * i \in 1 .. Len(array) /\ stab[array[2 * i]] \in Int
    <3>1. 2 * i \in 1 .. Len(array)
      BY <1>1
    <3> QED BY <1>1, <3>1
  <2>2. stab[array[2 * i]] <= stab[array[2 * i]]
    BY <2>0
  <2>3. 2 * i + 1 \in 2 .. Len(array) => stab[array[2 * i + 1]] <= stab[array[2 * i]]
    <3> SUFFICES ASSUME 2 * i + 1 \in 2 .. Len(array)
                 PROVE  stab[array[2 * i + 1]] <= stab[array[2 * i]]
      OBVIOUS
    <3>1. 2 * i + 1 \in 1 .. Len(array) /\ 2 * i + 1 <= Len(array)
      BY <1>1
    <3>2. stab[array[2 * i + 1]] \in Int
      BY <1>1, <3>1
    <3>3. ~(stab[array[2 * i]] < stab[array[2 * i + 1]])
      BY <1>5, <3>1 DEF Less
    <3> QED BY <2>0, <3>2, <3>3
  <2> QED BY <1>2, <1>3, <2>1, <2>2, <2>3
<1> QED BY <1>4, <1>5

(* An iteration of heap::down exchanges the element with its larger child, *)
(* or the element has come to rest and nothing moves.                      *)
LEMMA DownInv == ASSUME HeapInv, UNCHANGED setup, Down PROVE HeapInv'
<1> DEFINE i == Pos(moving)
           c == LargerChild(i)
<1>0. HeapTypeOK /\ NothingTwice /\ HeapOrdered(array, stab, moving, "down")
  BY DEF HeapInv, Down
<1>1. /\ array \in Seq(Vars) /\ stab \in [Vars -> Int] /\ Distinct(array)
      /\ moving \in ElementsOf(array) /\ dir \in {"up", "down"}
      /\ Len(array) \in Nat /\ \A k \in 1 .. Len(array) : array[k] \in Vars
  BY <1>0, LenProperties, ElementOfSeq DEF HeapTypeOK, NothingTwice, Down
<1>2. i \in 1 .. Len(array) /\ array[i] = moving
  BY <1>0, <1>1, PosRight
<1> HIDE DEF i
<1>4. /\ UNCHANGED <<setup, scores, values, pc, loops>>
      /\ IF 2 * i <= Len(array) /\ Less(moving, array[c])
         THEN array' = Exchanged(i, c) /\ UNCHANGED <<moving, dir>>
         ELSE moving' = 0 /\ dir' = "up" /\ UNCHANGED array
  BY DEF Down, i
<1>5. 2 * i <= Len(array) =>
          /\ c \in 2 .. Len(array) /\ c \div 2 = i
          /\ \A j \in 2 .. Len(array) : j \div 2 = i => stab[array[j]] <= stab[array[c]]
  BY <1>0, <1>2, LargerChildRight
<1> HIDE DEF c
<1>6. \A k \in 1 .. Len(array) : stab[array[k]] \in Int
  BY <1>1
<1>7. CASE 2 * i <= Len(array) /\ Less(moving, array[c])
  <2>1. c \in 2 .. Len(array) /\ c \in 1 .. Len(array)
    BY <1>1, <1>5, <1>7
  <2>2. array' = [array EXCEPT ![i] = array[c], ![c] = array[i]]
    BY <1>4, <1>7 DEF Exchanged
  <2>3. array' \in Seq(Vars) /\ ElementsOf(array') = ElementsOf(array) /\ Distinct(array')
    BY <1>1, <1>2, <2>1, <2>2, ExchangeElements
  <2>4. stab[array[i]] <= stab[array[c]]
    BY <1>2, <1>6, <1>7, <2>1 DEF Less
  <2>5. HeapOrdered(array', stab, moving, "down")
    BY <1>0, <1>1, <1>2, <1>5, <1>7, <2>1, <2>2, <2>4, DownOrdered
  <2>6. moving' = moving /\ dir' = "down"
    BY <1>4, <1>7 DEF Down
  <2> QED BY <1>1, <1>4, <2>3, <2>5, <2>6, HeapOnly
<1>8. CASE ~(2 * i <= Len(array) /\ Less(moving, array[c]))
  <2>1. array' = array /\ moving' = 0 /\ dir' = "up"
    BY <1>4, <1>8
  <2>2. ASSUME NEW j \in 2 .. Len(array), j \div 2 = i PROVE stab[array[j]] <= stab[array[i]]
    <3>1. 2 * i <= Len(array) /\ j \in 1 .. Len(array)
      BY <1>1, <2>2
    <3>2. stab[array[j]] <= stab[array[c]] /\ c \in 1 .. Len(array)
      BY <1>1, <1>5, <2>2, <3>1
    <3>3. ~(stab[array[i]] < stab[array[c]])
      BY <1>2, <1>8, <3>1 DEF Less
    <3> QED BY <1>2, <1>6, <3>1, <3>2, <3>3
  <2>3. 0 \notin Vars
    BY <1>0, SetupRight
  <2>4. HeapOrdered(array, stab, 0, "up")
    BY <1>0, <1>1, <1>2, <2>2, <2>3, DownEnds
  <2> QED BY <1>1, <1>4, <2>1, <2>4, HeapOnly
<1> QED BY <1>7, <1>8

(* push_back of a variable that is not there, whatever its score is now.   *)
LEMMA PushBackRight ==
    ASSUME HeapInv, Still, NEW v \in Vars, v \notin ElementsOf(array), PushBack(v),
           stab' \in [Vars -> Int], \A x \in ElementsOf(array) : stab'[x] = stab[x]
    PROVE  /\ array' \in Seq(Vars) /\ Distinct(array')
           /\ ElementsOf(array') = ElementsOf(array) \cup {v}
           /\ moving' \in ElementsOf(array') /\ dir' \in {"up", "down"}
           /\ HeapOrdered(array', stab', moving', dir')
<1>1. /\ array \in Seq(Vars) /\ Distinct(array) /\ stab \in [Vars -> Int] /\ 0 \notin Vars
      /\ HeapOrdered(array, stab, 0, dir)
  BY SetupRight DEF HeapInv, HeapTypeOK, NothingTwice, Still
<1>2. array' = Append(array, v) /\ moving' = v /\ dir' = "up"
  BY DEF PushBack
<1>3. /\ array' \in Seq(Vars) /\ Distinct(array')
      /\ ElementsOf(array') = ElementsOf(array) \cup {v}
  BY <1>1, <1>2, AppendElements
<1>4. HeapOrdered(Append(array, v), stab', v, "up")
  BY <1>1, PushOrdered
<1> QED BY <1>2, <1>3, <1>4

(* pop_front of a heap that is not empty.                                  *)
LEMMA PopFrontRight ==
    ASSUME HeapInv, Still, array # << >>, PopFront
    PROVE  /\ array' \in Seq(Vars) /\ Distinct(array')
           /\ array[1] \in ElementsOf(array)
           /\ ElementsOf(array') = ElementsOf(array) \ {array[1]}
           /\ moving' \in {0} \cup ElementsOf(array') /\ dir' \in {"up", "down"}
           /\ HeapOrdered(array', stab, moving', dir')
<1> DEFINE n == Len(array)
           b == [i \in 1 .. n - 1 |-> IF i = 1 THEN array[n] ELSE array[i]]
<1>1. /\ array \in Seq(Vars) /\ Distinct(array) /\ stab \in [Vars -> Int] /\ 0 \notin Vars
      /\ HeapOrdered(array, stab, 0, dir)
  BY SetupRight DEF HeapInv, HeapTypeOK, NothingTwice, Still
<1>2. /\ b \in Seq(Vars) /\ Distinct(b)
      /\ ElementsOf(b) = ElementsOf(array) \ {array[1]}
      /\ array[1] \in ElementsOf(array)
      /\ n > 2 => array[n] \in ElementsOf(b) /\ HeapOrdered(b, stab, array[n], "down")
      /\ n <= 2 => HeapOrdered(b, stab, 0, "up")
  BY <1>1, PopOrdered
<1>3. /\ array' = b
      /\ moving' = IF n > 2 THEN array[n] ELSE 0
      /\ dir' = IF n > 2 THEN "down" ELSE "up"
  BY DEF PopFront
<1> HIDE DEF b
<1>4. n \in Nat
  BY <1>1, LenProperties
<1>5. CASE n > 2
  BY <1>2, <1>3, <1>5
<1>6. CASE ~(n > 2)
  <2>1. n <= 2
    BY <1>4, <1>6
  <2> QED BY <1>2, <1>3, <1>6, <2>1
<1> QED BY <1>5, <1>6

(* What is known when nothing moves.                                       *)
LEMMA AtRest ==
    ASSUME HeapInv, Still
    PROVE  /\ HeapTypeOK /\ NothingTwice /\ NothingLost /\ BestScore
           /\ moving = 0 /\ HeapOrdered(array, stab, 0, dir) /\ 0 \notin Vars
           /\ ElementsOf(array) \subseteq allocated /\ ElementsOf(saved) \subseteq allocated
           /\ ElementsOf(<< >>) = {} /\ Distinct(<< >>) /\ << >> \in Seq(Vars)
<1>1. ElementsOf(<< >>) = {} /\ Distinct(<< >>) /\ << >> \in Seq(Vars)
  BY EmptySeq DEF ElementsOf, Distinct
<1> QED BY <1>1, SetupRight DEF HeapInv, Still, NothingTwice

(* init_scores pushes a new variable with score 0.                         *)
LEMMA InitScoresInv ==
    ASSUME HeapInv, UNCHANGED setup, NEW v \in Vars, InitScores(v) PROVE HeapInv'
<1>1. /\ HeapTypeOK /\ NothingTwice /\ NothingLost
      /\ ElementsOf(array) \subseteq allocated /\ Still
  BY AtRest DEF InitScores
<1>2. /\ pc = "idle" /\ allocated' = allocated \cup {v} /\ stab' = [stab EXCEPT ![v] = 0]
      /\ PushBack(v) /\ inc' = inc /\ assigned' = assigned /\ fixed' = fixed
      /\ inactive' = inactive /\ pc' = pc /\ analyzed' = analyzed /\ saved' = saved
      /\ shuffling' = shuffling /\ res' = res /\ setup' = setup /\ Vars' = Vars
  BY DEF InitScores, loops, Vars
<1>3. v \notin allocated
  <2> SUFFICES ASSUME v \in allocated PROVE FALSE
    OBVIOUS
  <2>1. v < v
    BY DEF InitScores
  <2>2. v \in Nat
    BY <1>1, HeapAssumption DEF HeapTypeOK, Vars
  <2> QED BY <2>1, <2>2
<1>4. stab' \in [Vars -> Int] /\ \A x \in ElementsOf(array) : stab'[x] = stab[x]
  BY <1>1, <1>2, <1>3 DEF HeapTypeOK
<1>5. /\ array' \in Seq(Vars) /\ Distinct(array')
      /\ ElementsOf(array') = ElementsOf(array) \cup {v}
      /\ moving' \in ElementsOf(array') /\ dir' \in {"up", "down"}
      /\ HeapOrdered(array', stab', moving', dir')
  BY <1>1, <1>2, <1>3, <1>4, PushBackRight
<1>6. HeapTypeOK'
  BY <1>1, <1>2, <1>4, <1>5 DEF HeapTypeOK
<1>7. saved = << >> /\ ElementsOf(saved) = {}
  BY <1>1, <1>2, AtRest DEF NothingLost
<1>8. NothingTwice'
  BY <1>1, <1>2, <1>5, <1>7 DEF NothingTwice
<1>9. NothingLost'
  BY <1>1, <1>2, <1>5, <1>7 DEF NothingLost
<1> QED BY <1>2, <1>5, <1>6, <1>8, <1>9 DEF HeapInv, BestScore

(* unassign pushes the variable back unless it is still on the heap.       *)
LEMMA UnassignInv ==
    ASSUME HeapInv, UNCHANGED setup, NEW v \in Vars, Unassign(v) PROVE HeapInv'
<1>1. /\ HeapTypeOK /\ NothingTwice /\ NothingLost
      /\ HeapOrdered(array, stab, moving, dir) /\ Still
  BY AtRest DEF Unassign, HeapInv
<1>2. /\ pc = "idle" /\ v \in assigned \ fixed /\ assigned' = assigned \ {v}
      /\ IF Contains(v) THEN UNCHANGED <<array, moving, dir>> ELSE PushBack(v)
      /\ stab' = stab /\ inc' = inc /\ allocated' = allocated /\ fixed' = fixed
      /\ inactive' = inactive /\ pc' = pc /\ analyzed' = analyzed /\ saved' = saved
      /\ shuffling' = shuffling /\ res' = res /\ setup' = setup /\ Vars' = Vars
  BY DEF Unassign, heap, scores, loops, Vars
<1>3. /\ array' \in Seq(Vars) /\ Distinct(array')
      /\ ElementsOf(array') = ElementsOf(array) \cup {v}
      /\ moving' \in {0} \cup ElementsOf(array') /\ dir' \in {"up", "down"}
      /\ HeapOrdered(array', stab', moving', dir')
  <2>1. CASE Contains(v)
    <3>1. v \in ElementsOf(array)
      BY <1>1, <2>1, PosRight
    <3> QED BY <1>1, <1>2, <2>1, <3>1 DEF HeapTypeOK, NothingTwice
  <2>2. CASE ~ Contains(v)
    <3>1. v \notin ElementsOf(array)
      BY <1>1, <2>2, PosRight
    <3>2. stab' \in [Vars -> Int] /\ \A x \in ElementsOf(array) : stab'[x] = stab[x]
      BY <1>1, <1>2 DEF HeapTypeOK
    <3> QED BY <1>1, <1>2, <2>2, <3>1, <3>2, PushBackRight
  <2> QED BY <2>1, <2>2
<1>4. HeapTypeOK'
  BY <1>1, <1>2, <1>3 DEF HeapTypeOK
<1>5. saved = << >> /\ ElementsOf(saved) = {}
  BY <1>1, <1>2, AtRest DEF NothingLost
<1>6. NothingTwice'
  BY <1>1, <1>2, <1>3, <1>5 DEF NothingTwice, HeapTypeOK
<1>7. NothingLost'
  BY <1>1, <1>2, <1>3, <1>5 DEF NothingLost
<1> QED BY <1>2, <1>3, <1>4, <1>6, <1>7 DEF HeapInv, BestScore

(* shuffle_scores and compact push the next variable of the vector.        *)
LEMMA FillInv == ASSUME HeapInv, UNCHANGED setup, Fill PROVE HeapInv'
<1> DEFINE v == saved[1]
<1>1. /\ HeapTypeOK /\ NothingTwice /\ NothingLost /\ Still
  BY AtRest DEF Fill
<1>2. /\ pc = "fill" /\ saved # << >> /\ PushBack(v) /\ saved' = Tail(saved)
      /\ IF shuffling THEN stab' = [stab EXCEPT ![v] = inc] /\ inc' = inc + 1
         ELSE stab' = stab /\ inc' = inc
      /\ allocated' = allocated /\ assigned' = assigned /\ fixed' = fixed
      /\ inactive' = inactive /\ pc' = pc /\ analyzed' = analyzed
      /\ shuffling' = shuffling /\ res' = res /\ setup' = setup /\ Vars' = Vars
  BY DEF Fill, scores, values, Vars
<1>3. /\ v \in Vars /\ v \in ElementsOf(saved) /\ saved' \in Seq(Vars)
      /\ ElementsOf(saved') = ElementsOf(saved) \ {v}
      /\ Distinct(saved')
  BY <1>1, <1>2, TailElements DEF HeapTypeOK, NothingTwice
<1> HIDE DEF v
<1>4. v \notin ElementsOf(array)
  BY <1>1, <1>3 DEF NothingTwice
<1>5. inc' \in Nat /\ stab' \in [Vars -> Int] /\ \A x \in ElementsOf(array) : stab'[x] = stab[x]
  <2>1. inc \in Nat /\ inc \in Int /\ stab \in [Vars -> Int]
    BY <1>1 DEF HeapTypeOK
  <2>2. \A x \in ElementsOf(array) : x \in Vars
    BY <1>1 DEF NothingTwice, HeapTypeOK
  <2>3. CASE shuffling
    BY <1>2, <1>3, <1>4, <2>1, <2>2, <2>3
  <2>4. CASE ~shuffling
    BY <1>2, <2>1, <2>4
  <2> QED BY <2>3, <2>4
<1>6. /\ array' \in Seq(Vars) /\ Distinct(array')
      /\ ElementsOf(array') = ElementsOf(array) \cup {v}
      /\ moving' \in ElementsOf(array') /\ dir' \in {"up", "down"}
      /\ HeapOrdered(array', stab', moving', dir')
  BY <1>1, <1>2, <1>3, <1>4, <1>5, PushBackRight
<1>7. HeapTypeOK'
  BY <1>1, <1>2, <1>3, <1>5, <1>6 DEF HeapTypeOK
<1>8. NothingTwice'
  BY <1>1, <1>2, <1>3, <1>4, <1>6 DEF NothingTwice
<1>9. NothingLost'
  BY <1>1, <1>2, <1>3, <1>6 DEF NothingLost
<1> QED BY <1>2, <1>6, <1>7, <1>8, <1>9 DEF HeapInv, BestScore

(* shuffle_scores and compact pop the root; compact drops it when the      *)
(* variable is about to be removed.                                        *)
LEMMA DrainInv == ASSUME HeapInv, UNCHANGED setup, Drain PROVE HeapInv'
<1> DEFINE v == array[1]
<1>1. /\ HeapTypeOK /\ NothingTwice /\ NothingLost /\ Still
  BY AtRest DEF Drain
<1>2. /\ pc = "drain" /\ array # << >> /\ PopFront
      /\ saved' = IF shuffling \/ v \notin Flushed THEN Append(saved, v) ELSE saved
      /\ stab' = stab /\ inc' = inc /\ allocated' = allocated /\ assigned' = assigned
      /\ fixed' = fixed /\ inactive' = inactive /\ pc' = pc /\ analyzed' = analyzed
      /\ shuffling' = shuffling /\ res' = res /\ setup' = setup /\ Vars' = Vars
      /\ Flushed' = Flushed
  BY DEF Drain, scores, values, Vars, Flushed
<1>3. /\ array' \in Seq(Vars) /\ Distinct(array') /\ v \in ElementsOf(array)
      /\ ElementsOf(array') = ElementsOf(array) \ {v}
      /\ moving' \in {0} \cup ElementsOf(array') /\ dir' \in {"up", "down"}
      /\ HeapOrdered(array', stab, moving', dir')
  BY <1>1, <1>2, PopFrontRight
<1>4. v \in allocated /\ v \in Vars /\ v \notin ElementsOf(saved)
  BY <1>1, <1>3 DEF NothingTwice, HeapTypeOK
<1> HIDE DEF v
<1>5. /\ Append(saved, v) \in Seq(Vars) /\ Distinct(Append(saved, v))
      /\ ElementsOf(Append(saved, v)) = ElementsOf(saved) \cup {v}
  BY <1>1, <1>4, AppendElements DEF HeapTypeOK, NothingTwice
<1>6. /\ saved' \in Seq(Vars) /\ Distinct(saved')
      /\ ElementsOf(saved') = IF shuffling \/ v \notin Flushed THEN ElementsOf(saved) \cup {v}
                              ELSE ElementsOf(saved)
  BY <1>1, <1>2, <1>5 DEF HeapTypeOK, NothingTwice
<1>7. HeapTypeOK'
  BY <1>1, <1>2, <1>3, <1>6 DEF HeapTypeOK
<1>8. NothingTwice'
  BY <1>1, <1>2, <1>3, <1>4, <1>6 DEF NothingTwice
<1>9. NothingLost'
  BY <1>1, <1>2, <1>3, <1>6 DEF NothingLost
<1> QED BY <1>2, <1>3, <1>7, <1>8, <1>9 DEF HeapInv, BestScore

(* The search pops an assigned root.                                       *)
LEMMA SearchPopInv == ASSUME HeapInv, UNCHANGED setup, SearchPop PROVE HeapInv'
<1> DEFINE v == array[1]
<1>1. /\ HeapTypeOK /\ NothingTwice /\ NothingLost /\ Still
  BY AtRest DEF SearchPop
<1>2. /\ pc = "search" /\ array # << >> /\ PopFront /\ v \in assigned
      /\ stab' = stab /\ inc' = inc /\ allocated' = allocated /\ assigned' = assigned
      /\ fixed' = fixed /\ inactive' = inactive /\ pc' = pc /\ analyzed' = analyzed
      /\ saved' = saved /\ shuffling' = shuffling /\ setup' = setup /\ Vars' = Vars
  BY DEF SearchPop, scores, values, loops, Vars
<1>3. /\ array' \in Seq(Vars) /\ Distinct(array') /\ v \in ElementsOf(array)
      /\ ElementsOf(array') = ElementsOf(array) \ {v}
      /\ moving' \in {0} \cup ElementsOf(array') /\ dir' \in {"up", "down"}
      /\ HeapOrdered(array', stab, moving', dir')
  BY <1>1, <1>2, PopFrontRight
<1>4. HeapTypeOK'
  BY <1>1, <1>2, <1>3 DEF HeapTypeOK
<1>5. NothingTwice'
  BY <1>1, <1>2, <1>3 DEF NothingTwice
<1>6. NothingLost'
  BY <1>1, <1>2, <1>3 DEF NothingLost
<1> QED BY <1>2, <1>3, <1>4, <1>5, <1>6 DEF HeapInv, BestScore

(* The scores change but for the order of what stays where it is.          *)
LEMMA RescoredInv ==
    ASSUME HeapInv, Still, UNCHANGED <<setup, array, values, saved, shuffling>>,
           pc # "decided", pc' # "decided", pc' = pc \/ {pc, pc'} \cap {"drain", "fill"} = {},
           pc' \in {"idle", "bump", "drain", "fill", "search", "decided"},
           stab' \in [Vars -> Int], inc' \in Nat, analyzed' \subseteq Vars,
           moving' \in {0} \cup ElementsOf(array), moving' = 0 => dir' = dir,
           moving' # 0 => dir' = "up",
           \A x, y \in ElementsOf(array) \ {moving'} : stab[x] <= stab[y] => stab'[x] <= stab'[y]
    PROVE  HeapInv'
<1>1. /\ HeapTypeOK /\ NothingTwice /\ NothingLost /\ HeapOrdered(array, stab, 0, dir)
      /\ 0 \notin Vars /\ ElementsOf(array) \subseteq Vars
  BY AtRest DEF HeapTypeOK
<1>2. /\ array' = array /\ allocated' = allocated /\ assigned' = assigned /\ fixed' = fixed
      /\ inactive' = inactive /\ saved' = saved /\ shuffling' = shuffling /\ setup' = setup
      /\ Vars' = Vars /\ Flushed' = Flushed
  BY DEF values, Vars, Flushed
<1>3. HeapTypeOK'
  <2>1. dir' \in {"up", "down"}
    BY <1>1 DEF HeapTypeOK
  <2> QED BY <1>1, <1>2, <2>1 DEF HeapTypeOK
<1>4. HeapOrdered(array, stab', moving', dir')
  <2>1. array \in Seq(Vars) /\ stab \in [Vars -> Int] /\ Distinct(array)
    BY <1>1 DEF HeapTypeOK, NothingTwice
  <2>2. /\ HeapOrdered(array, stab', moving', "up")
        /\ moving' \notin Vars => HeapOrdered(array, stab', moving', "down")
    <3> DEFINE t == stab'
               v == moving'
    <3>1. /\ t \in [Vars -> Int]
          /\ \A x, y \in ElementsOf(array) \ {v} : stab[x] <= stab[y] => t[x] <= t[y]
      OBVIOUS
    <3> HIDE DEF t, v
    <3>2. /\ HeapOrdered(array, t, v, "up")
          /\ v \notin Vars => HeapOrdered(array, t, v, "down")
      BY ONLY <1>1, <2>1, <3>1, RescoredOrdered
    <3> QED BY <3>2 DEF t, v
  <2>3. CASE moving' = 0
    <3>1. dir' \in {"up", "down"}
      BY <1>1, <2>3 DEF HeapTypeOK
    <3> QED BY <1>1, <2>2, <2>3, <3>1
  <2>4. CASE moving' # 0
    BY <2>2, <2>4
  <2> QED BY <2>3, <2>4
<1>5. NothingTwice'
  BY <1>1, <1>2 DEF NothingTwice
<1>6. NothingLost'
  <2>1. CASE pc' = pc
    BY <1>1, <1>2, <2>1 DEF NothingLost
  <2>2. CASE {pc, pc'} \cap {"drain", "fill"} = {}
    BY <1>1, <1>2, <2>2 DEF NothingLost
  <2> QED BY <2>1, <2>2
<1>7. HeapOrdered(array', stab', moving', dir')
  BY <1>2, <1>4
<1> QED BY <1>3, <1>5, <1>6, <1>7 DEF HeapInv, BestScore

(* Rescaling all scores that are in use.                                   *)
LEMMA RescaledRight ==
    ASSUME HeapTypeOK
    PROVE  /\ RescaledScores \in [Vars -> Int] /\ RescaledInc \in Nat
           /\ \A x, y \in allocated : stab[x] <= stab[y] => RescaledScores[x] <= RescaledScores[y]
<1>1. stab \in [Vars -> Int] /\ inc \in Nat /\ allocated \subseteq Vars
  BY DEF HeapTypeOK
<1>2. ASSUME NEW x \in Vars PROVE Halved(stab[x]) \in Int
  <2>1. stab[x] \in Int /\ stab[x] <= stab[x]
    BY <1>1
  <2> QED BY <2>1, HalvedMonotone
<1>3. RescaledScores \in [Vars -> Int]
  BY <1>1, <1>2 DEF RescaledScores
<1>4. RescaledInc \in Nat
  BY <1>1 DEF RescaledInc
<1>5. ASSUME NEW x \in allocated, NEW y \in allocated, stab[x] <= stab[y]
      PROVE  RescaledScores[x] <= RescaledScores[y]
  <2>1. stab[x] \in Int /\ stab[y] \in Int /\ x \in Vars /\ y \in Vars
    BY <1>1
  <2>2. Halved(stab[x]) <= Halved(stab[y])
    BY <1>5, <2>1, HalvedMonotone
  <2> QED BY <2>1, <2>2 DEF RescaledScores
<1> QED BY <1>3, <1>4, <1>5

(* bump_variable_score, with rescaling when the limit is hit: update moves *)
(* the variable, and the others keep their order.                          *)
LEMMA BumpVariableInv ==
    ASSUME HeapInv, UNCHANGED setup, NEW v \in Vars, BumpVariable(v) PROVE HeapInv'
<1> DEFINE limit == stab[v] + inc > MaxScore
           old == IF limit THEN RescaledScores ELSE stab
<1>1. /\ HeapTypeOK /\ NothingTwice /\ Still /\ 0 \notin Vars
      /\ ElementsOf(array) \subseteq allocated
  BY AtRest DEF BumpVariable
<1>2. /\ pc = "bump" /\ inc' = (IF limit THEN RescaledInc ELSE inc)
      /\ stab' = [old EXCEPT ![v] = @ + inc']
      /\ IF Contains(v) THEN Update(v) ELSE UNCHANGED <<array, moving, dir>>
      /\ v \in analyzed /\ analyzed' = analyzed \ {v} /\ pc' = pc
      /\ UNCHANGED <<setup, values, saved, shuffling>>
  BY DEF BumpVariable, heap
<1>3. /\ old \in [Vars -> Int]
      /\ \A x, y \in ElementsOf(array) : stab[x] <= stab[y] => old[x] <= old[y]
  <2>1. CASE limit
    BY <1>1, <2>1, RescaledRight
  <2>2. CASE ~limit
    BY <1>1, <2>2 DEF HeapTypeOK
  <2> QED BY <2>1, <2>2
<1>4. inc' \in Nat
  BY <1>1, <1>2, RescaledRight DEF HeapTypeOK
<1> HIDE DEF old, limit
<1>5. stab' \in [Vars -> Int] /\ \A x \in Vars : x # v => stab'[x] = old[x]
  BY <1>2, <1>3, <1>4
<1>6. /\ array' = array /\ moving' \in {0} \cup ElementsOf(array)
      /\ (moving' = 0 => dir' = dir) /\ (moving' # 0 => dir' = "up")
      /\ v \in ElementsOf(array) => moving' = v
  <2>1. CASE Contains(v)
    <3>1. v \in ElementsOf(array) /\ v # 0
      BY <1>1, <2>1, PosRight
    <3> QED BY <1>2, <2>1, <3>1 DEF Update
  <2>2. CASE ~Contains(v)
    <3>1. v \notin ElementsOf(array)
      BY <1>1, <2>2, PosRight
    <3> QED BY <1>1, <1>2, <2>2, <3>1 DEF Still
  <2> QED BY <2>1, <2>2
<1>7. ASSUME NEW x \in ElementsOf(array) \ {moving'}, NEW y \in ElementsOf(array) \ {moving'},
             stab[x] <= stab[y]
      PROVE  stab'[x] <= stab'[y]
  <2>1. x # v /\ y # v /\ x \in Vars /\ y \in Vars
    BY <1>1, <1>6 DEF HeapTypeOK
  <2>2. stab'[x] = old[x] /\ stab'[y] = old[y]
    BY <1>5, <2>1
  <2> QED BY <1>3, <1>7, <2>2
<1>8. analyzed' \subseteq Vars
  BY <1>1, <1>2 DEF HeapTypeOK
<1>9. UNCHANGED <<setup, array, values, saved, shuffling>>
  BY <1>2, <1>6
<1> QED BY <1>1, <1>2, <1>4, <1>5, <1>6, <1>7, <1>8, <1>9, RescoredInv

(* The BRANCHAUX search gives an auxiliary root the score -Sink and lets   *)
(* it sink: no other element has another score.                            *)
LEMMA SearchAuxInv == ASSUME HeapInv, UNCHANGED setup, SearchAux PROVE HeapInv'
<1> DEFINE v == array[1]
<1>1. /\ HeapTypeOK /\ NothingTwice /\ Still /\ 0 \notin Vars
      /\ ElementsOf(array) \subseteq allocated
  BY AtRest DEF SearchAux
<1>2. /\ pc = "search" /\ array # << >> /\ stab' = [stab EXCEPT ![v] = -Sink] /\ inc' = inc
      /\ moving' = v /\ dir' = "up" /\ pc' = pc /\ analyzed' = analyzed
      /\ UNCHANGED <<setup, array, values, saved, shuffling>>
  BY DEF SearchAux, Update, loops
<1>3. v \in ElementsOf(array)
  <2>1. Len(array) \in Nat /\ Len(array) # 0
    BY <1>1, <1>2, LenProperties, EmptySeq DEF HeapTypeOK
  <2> QED BY <2>1 DEF ElementsOf
<1> HIDE DEF v
<1>4. v \in Vars /\ v # 0
  BY <1>1, <1>3 DEF HeapTypeOK
<1>5. stab' \in [Vars -> Int] /\ \A x \in Vars : x # v => stab'[x] = stab[x]
  BY <1>1, <1>2, <1>4, SetupRight DEF HeapTypeOK
<1>6. ASSUME NEW x \in ElementsOf(array) \ {moving'}, NEW y \in ElementsOf(array) \ {moving'},
             stab[x] <= stab[y]
      PROVE  stab'[x] <= stab'[y]
  <2>1. x # v /\ y # v /\ x \in Vars /\ y \in Vars
    BY <1>1, <1>2 DEF HeapTypeOK
  <2> QED BY <1>5, <1>6, <2>1
<1>7. inc' \in Nat /\ analyzed' \subseteq Vars
  BY <1>1, <1>2 DEF HeapTypeOK
<1> QED BY <1>1, <1>2, <1>3, <1>4, <1>5, <1>6, <1>7, RescoredInv

(* bump_variable_score_inc changes no score, or rescales all of them.      *)
LEMMA BumpScoreIncInv == ASSUME HeapInv, UNCHANGED setup, BumpScoreInc PROVE HeapInv'
<1>1. /\ HeapTypeOK /\ NothingTwice /\ Still /\ 0 \notin Vars
      /\ ElementsOf(array) \subseteq allocated
  BY AtRest DEF BumpScoreInc
<1>2. /\ pc = "bump" /\ pc' = "idle" /\ moving' = 0 /\ dir' = dir /\ analyzed' = analyzed
      /\ IF inc + 1 > MaxScore
         THEN stab' = RescaledScores /\ inc' = RescaledInc + 1
         ELSE inc' = inc + 1 /\ stab' = stab
      /\ UNCHANGED <<setup, array, values, saved, shuffling>>
  BY <1>1 DEF BumpScoreInc, heap, loops, Still
<1>3. /\ stab' \in [Vars -> Int] /\ inc' \in Nat
      /\ \A x, y \in ElementsOf(array) : stab[x] <= stab[y] => stab'[x] <= stab'[y]
  <2>1. CASE inc + 1 > MaxScore
    <3>1. /\ RescaledScores \in [Vars -> Int] /\ RescaledInc \in Nat
          /\ \A x, y \in allocated : stab[x] <= stab[y] => RescaledScores[x] <= RescaledScores[y]
      BY <1>1, RescaledRight
    <3>2. RescaledInc + 1 \in Nat
      BY <3>1
    <3> QED BY <1>1, <1>2, <2>1, <3>1, <3>2
  <2>2. CASE ~(inc + 1 > MaxScore)
    <3>1. inc + 1 \in Nat /\ stab \in [Vars -> Int]
      BY <1>1 DEF HeapTypeOK
    <3> QED BY <1>2, <2>2, <3>1
  <2> QED BY <2>1, <2>2
<1>4. analyzed' \subseteq Vars
  BY <1>1, <1>2 DEF HeapTypeOK
<1> QED BY <1>1, <1>2, <1>3, <1>4, RescoredInv

(* Steps that leave the heap and the scores alone.                         *)
LEMMA QuietInv ==
    ASSUME HeapInv, UNCHANGED <<setup, array, stab, moving, dir, saved, allocated>>,
           HeapTypeOK', NothingLost', BestScore'
    PROVE  HeapInv'
<1>1. NothingTwice'
  BY DEF HeapInv, NothingTwice
<1>2. HeapOrdered(array', stab', moving', dir')
  BY DEF HeapInv
<1> QED BY <1>1, <1>2 DEF HeapInv

(* Assigning, marking variables inactive and active again, and the start   *)
(* of bump_variables do not touch the heap.                                *)
LEMMA ValuesInv ==
    ASSUME HeapInv, UNCHANGED setup,
           \/ \E v \in Vars : Assign(v) \/ MarkInactive(v) \/ Reactivate(v)
           \/ \E S \in SUBSET Vars : BumpVariables(S)
    PROVE  HeapInv'
<1>1. HeapTypeOK /\ NothingLost /\ saved = << >> /\ pc = "idle"
  BY AtRest DEF Assign, MarkInactive, Reactivate, BumpVariables, NothingLost
<1>2. /\ UNCHANGED <<setup, array, stab, moving, dir, saved, allocated>>
      /\ inc' = inc /\ shuffling' = shuffling /\ Vars' = Vars
      /\ pc' \in {"idle", "bump"} /\ assigned \subseteq assigned'
      /\ assigned' \subseteq allocated /\ fixed' \subseteq assigned'
      /\ inactive' \subseteq allocated /\ analyzed' \subseteq Vars
  BY <1>1 DEF Assign, MarkInactive, Reactivate, BumpVariables, heap, scores, values, loops,
              HeapTypeOK, Vars
<1>3. HeapTypeOK'
  BY <1>1, <1>2 DEF HeapTypeOK
<1>4. NothingLost'
  BY <1>1, <1>2 DEF NothingLost
<1>5. BestScore'
  BY <1>2 DEF BestScore
<1> QED BY <1>2, <1>3, <1>4, <1>5, QuietInv

(* An order of all allocated variables, as shuffle_scores puts them back,  *)
(* has each of them once.                                                  *)
LEMMA OrderRight ==
    ASSUME HeapTypeOK, NEW o \in Orders(allocated)
    PROVE  o \in Seq(Vars) /\ Distinct(o) /\ ElementsOf(o) = allocated
<1> DEFINE n == Cardinality(allocated)
<1>1. IsFiniteSet(allocated) /\ allocated \subseteq Vars
  BY SetupRight, FS_Subset DEF HeapTypeOK
<1>2. n \in Nat
  BY <1>1, FS_CardinalityType
<1>3. o \in [1 .. n -> allocated] /\ \A v \in allocated : \E i \in 1 .. n : o[i] = v
  BY DEF Orders
<1>4. IsFiniteSet(1 .. n) /\ Cardinality(1 .. n) = n
  BY <1>2, FS_Interval
<1> HIDE DEF n
<1>5. o \in Surjection(1 .. n, allocated)
  BY <1>3, Fun_IsSurj
<1>6. o \in Injection(1 .. n, allocated)
  BY <1>4, <1>5, FS_SurjSameCardinalityImpliesInj DEF n
<1>7. \A i, j \in 1 .. n : o[i] = o[j] => i = j
  BY <1>6 DEF Injection, IsInjective
<1>8. o \in Seq(allocated) /\ o \in Seq(Vars) /\ Len(o) = n
  BY <1>1, <1>2, <1>3
<1>9. ElementsOf(o) = allocated
  BY <1>3, <1>8 DEF ElementsOf
<1> QED BY <1>7, <1>8, <1>9 DEF Distinct

(* shuffle_scores and compact begin: with shufflerandom all variables are  *)
(* on the vector, otherwise they are still on the heap.                    *)
LEMMA ShuffleStartInv ==
    ASSUME HeapInv, UNCHANGED setup, NEW o \in Orders(allocated), ShuffleStart(o)
    PROVE  HeapInv'
<1>1. /\ HeapTypeOK /\ NothingTwice /\ NothingLost /\ BestScore /\ moving = 0
      /\ HeapOrdered(array, stab, 0, dir) /\ saved = << >>
      /\ ElementsOf(<< >>) = {} /\ Distinct(<< >>) /\ << >> \in Seq(Vars)
  BY AtRest DEF ShuffleStart, NothingLost
<1>2. /\ pc = "idle" /\ shuffling' = TRUE /\ stab' = stab /\ moving' = moving /\ dir' = dir
      /\ allocated' = allocated /\ assigned' = assigned /\ fixed' = fixed
      /\ inactive' = inactive /\ analyzed' = analyzed /\ setup' = setup /\ Vars' = Vars
      /\ \/ array' = << >> /\ saved' = o /\ inc' = 0 /\ pc' = "fill"
         \/ array' = array /\ saved' = saved /\ inc' = inc /\ pc' = "drain"
  BY DEF ShuffleStart, values, Vars
<1>3. CASE array' = << >> /\ saved' = o /\ inc' = 0 /\ pc' = "fill"
  <2>1. o \in Seq(Vars) /\ Distinct(o) /\ ElementsOf(o) = allocated
    BY <1>1, OrderRight
  <2>2. HeapTypeOK'
    BY <1>1, <1>2, <1>3, <2>1 DEF HeapTypeOK
  <2>3. NothingTwice'
    BY <1>1, <1>2, <1>3, <2>1 DEF NothingTwice
  <2>4. NothingLost'
    BY <1>2, <1>3, <2>1 DEF NothingLost
  <2>5. HeapOrdered(array', stab', moving', dir')
    <3>1. 2 .. Len(<< >>) = {}
      BY EmptySeq
    <3> QED BY <1>3, <3>1 DEF HeapOrdered
  <2> QED BY <1>3, <2>2, <2>3, <2>4, <2>5 DEF HeapInv, BestScore
<1>4. CASE array' = array /\ saved' = saved /\ inc' = inc /\ pc' = "drain"
  <2>1. HeapTypeOK'
    BY <1>1, <1>2, <1>4 DEF HeapTypeOK
  <2>2. NothingLost'
    BY <1>1, <1>2, <1>4 DEF NothingLost
  <2>3. BestScore'
    BY <1>4 DEF BestScore
  <2> QED BY <1>2, <1>4, <2>1, <2>2, <2>3, QuietInv
<1> QED BY <1>2, <1>3, <1>4

(* When compact has emptied the heap, what it keeps is on the vector, and  *)
(* the variables it removes are not.                                       *)
LEMMA DrainEndInv == ASSUME HeapInv, UNCHANGED setup, DrainEnd PROVE HeapInv'
<1>1. /\ HeapTypeOK /\ NothingTwice /\ NothingLost /\ moving = 0
      /\ HeapOrdered(array, stab, 0, dir) /\ ElementsOf(array) = {}
  BY AtRest DEF DrainEnd
<1>2. /\ pc = "drain" /\ pc' = "fill" /\ array' = array /\ moving' = moving /\ dir' = dir
      /\ saved' = saved /\ shuffling' = shuffling /\ analyzed' = analyzed
      /\ setup' = setup /\ Vars' = Vars
  BY DEF DrainEnd, heap, loops, Vars
<1>3. CASE shuffling
  <2>1. /\ inc' = 0 /\ stab' = stab /\ allocated' = allocated /\ assigned' = assigned
        /\ fixed' = fixed /\ inactive' = inactive
    BY <1>3 DEF DrainEnd, values
  <2>2. HeapTypeOK'
    BY <1>1, <1>2, <2>1 DEF HeapTypeOK
  <2>3. NothingLost'
    BY <1>1, <1>2, <1>3, <2>1 DEF NothingLost
  <2>4. BestScore'
    BY <1>2 DEF BestScore
  <2> QED BY <1>2, <2>1, <2>2, <2>3, <2>4, QuietInv
<1>4. CASE ~shuffling
  <2>1. /\ allocated' = (allocated \ Flushed) \cup FirstFixed
        /\ assigned' = FirstFixed /\ fixed' = FirstFixed /\ inactive' = {} /\ inc' = inc
        /\ stab' = [v \in Vars |-> IF v \in Flushed \ FirstFixed THEN 0 ELSE stab[v]]
    BY <1>4 DEF DrainEnd
  <2>2. FirstFixed \subseteq fixed
    BY DEF FirstFixed
  <2>3. stab' \in [Vars -> Int]
    BY <1>1, <2>1 DEF HeapTypeOK
  <2>4. HeapTypeOK'
    BY <1>1, <1>2, <2>1, <2>2, <2>3 DEF HeapTypeOK
  <2>5. ElementsOf(saved) \cap Flushed = {} /\ allocated \ Flushed \subseteq ElementsOf(saved)
    BY <1>1, <1>2, <1>4 DEF NothingLost
  <2>6. NothingTwice'
    BY <1>1, <1>2, <2>1, <2>5 DEF NothingTwice
  <2>7. NothingLost'
    BY <1>1, <1>2, <2>1, <2>5 DEF NothingLost
  <2>8. HeapOrdered(array', stab', moving', dir')
    <3>1. 2 .. Len(array) = {}
      <4>1. array = << >>
        BY DEF DrainEnd
      <4> QED BY <4>1, EmptySeq
    <3> QED BY <1>2, <3>1 DEF HeapOrdered
  <2> QED BY <1>2, <2>4, <2>6, <2>7, <2>8 DEF HeapInv, BestScore
<1> QED BY <1>3, <1>4

(* compact begins, the vector is empty again, or the search begins.        *)
LEMMA LoopsInv ==
    ASSUME HeapInv, UNCHANGED setup, CompactStart \/ FillEnd \/ SearchStart PROVE HeapInv'
<1>1. /\ HeapTypeOK /\ NothingLost /\ saved = << >> /\ ElementsOf(saved) = {}
      /\ pc # "drain"
  BY AtRest DEF CompactStart, FillEnd, SearchStart, NothingLost
<1>2. /\ UNCHANGED <<setup, array, stab, moving, dir, saved, allocated>>
      /\ inc' = inc /\ assigned' = assigned /\ fixed' = fixed /\ inactive' = inactive
      /\ analyzed' = analyzed /\ shuffling' \in BOOLEAN /\ Vars' = Vars /\ Flushed' = Flushed
      /\ pc' \in {"drain", "idle", "search"} /\ (pc' = "drain" => AtRoot)
  BY <1>1 DEF CompactStart, FillEnd, SearchStart, heap, scores, values, loops, HeapTypeOK,
              Vars, Flushed
<1>3. HeapTypeOK'
  BY <1>1, <1>2 DEF HeapTypeOK
<1>4. allocated \ assigned \subseteq ElementsOf(array)
  BY <1>1 DEF NothingLost
<1>5. NothingLost'
  <2>1. CASE pc' # "drain"
    BY <1>1, <1>2, <1>4, <2>1 DEF NothingLost
  <2>2. CASE pc' = "drain"
    <3>1. allocated \ Flushed \subseteq allocated \ assigned
      BY <1>1, <1>2, <2>2 DEF AtRoot, Flushed, HeapTypeOK
    <3> QED BY <1>1, <1>2, <1>4, <2>2, <3>1 DEF NothingLost
  <2> QED BY <2>1, <2>2
<1>6. BestScore'
  BY <1>2 DEF BestScore
<1> QED BY <1>2, <1>3, <1>5, <1>6, QuietInv

(* The search returns the root: it is unassigned, no variable has a larger *)
(* score than it, and every unassigned variable is on the heap.            *)
LEMMA SearchReturnInv == ASSUME HeapInv, UNCHANGED setup, SearchReturn PROVE HeapInv'
<1>1. /\ HeapTypeOK /\ NothingTwice /\ NothingLost /\ HeapOrdered(array, stab, 0, dir)
      /\ 0 \notin Vars /\ saved = << >> /\ ElementsOf(saved) = {}
      /\ ElementsOf(array) \subseteq allocated
  BY AtRest DEF SearchReturn, NothingLost
<1>2. /\ pc = "search" /\ pc' = "decided" /\ array # << >> /\ ~IsAux(array[1])
      /\ array[1] \notin assigned /\ res' = array[1]
      /\ UNCHANGED <<setup, array, stab, moving, dir, saved, allocated>>
      /\ inc' = inc /\ assigned' = assigned /\ fixed' = fixed /\ inactive' = inactive
      /\ analyzed' = analyzed /\ shuffling' = shuffling /\ Vars' = Vars /\ Inputs' = Inputs
  BY DEF SearchReturn, heap, scores, values, Vars, Inputs, Aux
<1>3. HeapTypeOK'
  BY <1>1, <1>2 DEF HeapTypeOK
<1>4. NothingLost'
  BY <1>1, <1>2 DEF NothingLost
<1>5. array[1] \in ElementsOf(array)
  <2>1. Len(array) \in Nat /\ Len(array) # 0
    BY <1>1, <1>2, LenProperties, EmptySeq DEF HeapTypeOK
  <2> QED BY <2>1 DEF ElementsOf
<1>6. array[1] \in Inputs \ assigned
  BY <1>1, <1>2, <1>5 DEF Inputs, IsAux
<1>7. ASSUME NEW v \in Inputs \ assigned PROVE stab[v] <= stab[array[1]]
  <2>1. v \in ElementsOf(array)
    BY <1>1, <1>2 DEF NothingLost, Inputs
  <2>2. \A i \in 1 .. Len(array) : stab[array[i]] <= stab[array[1]]
    <3>1. array \in Seq(Vars) /\ stab \in [Vars -> Int]
      BY <1>1 DEF HeapTypeOK
    <3> QED BY <1>1, <3>1, RootLargest
  <2> QED BY <2>1, <2>2 DEF ElementsOf
<1>8. BestScore'
  BY <1>2, <1>6, <1>7 DEF BestScore
<1> QED BY <1>2, <1>3, <1>4, <1>8, QuietInv

(* decide assigns the variable that was found, reuse_trail does not.       *)
LEMMA UseDecisionInv == ASSUME HeapInv, UNCHANGED setup, UseDecision PROVE HeapInv'
<1>1. HeapTypeOK /\ NothingLost /\ res \in allocated /\ pc = "decided"
  BY DEF HeapInv, UseDecision, BestScore, Inputs
<1>2. /\ UNCHANGED <<setup, array, stab, moving, dir, saved, allocated>>
      /\ inc' = inc /\ fixed' = fixed /\ inactive' = inactive
      /\ analyzed' = analyzed /\ shuffling' = shuffling /\ Vars' = Vars /\ pc' = "idle"
      /\ assigned \subseteq assigned' /\ assigned' \subseteq assigned \cup {res}
  BY DEF UseDecision, heap, scores, Vars
<1>3. HeapTypeOK'
  BY <1>1, <1>2 DEF HeapTypeOK
<1>4. NothingLost'
  BY <1>1, <1>2 DEF NothingLost
<1>5. BestScore'
  BY <1>2 DEF BestScore
<1> QED BY <1>2, <1>3, <1>4, <1>5, QuietInv

-----------------------------------------------------------------------------
(* The empty heap of a new solver.                                         *)
LEMMA HeapInit == Init => HeapInv
<1> SUFFICES ASSUME Init PROVE HeapInv
  OBVIOUS
<1>1. << >> \in Seq(Vars) /\ ElementsOf(<< >>) = {} /\ Distinct(<< >>) /\ 2 .. Len(<< >>) = {}
  BY EmptySeq DEF ElementsOf, Distinct
<1>2. HeapTypeOK
  <2>1. setup \in Setups /\ array \in Seq(Vars) /\ saved \in Seq(Vars)
    BY <1>1 DEF Init
  <2>2. stab \in [Vars -> Int] /\ inc \in Nat /\ moving = 0 /\ dir = "up"
    BY DEF Init
  <2>3. /\ allocated = {} /\ assigned = {} /\ fixed = {} /\ inactive = {} /\ analyzed = {}
        /\ pc = "idle" /\ shuffling = FALSE
    BY DEF Init
  <2> QED BY <2>1, <2>2, <2>3 DEF HeapTypeOK
<1>3. NothingTwice
  BY <1>1 DEF Init, NothingTwice
<1>4. HeapOrdered(array, stab, moving, dir)
  BY <1>1 DEF Init, HeapOrdered
<1>5. NothingLost
  BY <1>1 DEF Init, NothingLost
<1> QED BY <1>2, <1>3, <1>4, <1>5 DEF HeapInv, BestScore, Init

(* Every action preserves the invariant.                                   *)
LEMMA HeapStep == HeapInv /\ [Next]_vars => HeapInv'
<1> SUFFICES ASSUME HeapInv, [Next]_vars PROVE HeapInv'
  OBVIOUS
<1>1. CASE Next
  <2> USE <1>1
  <2>0. UNCHANGED setup
    BY DEF Next
  <2>1. CASE Sift
    BY <2>0, <2>1, UpInv, DownInv DEF Sift
  <2>2. CASE \E v \in Vars : InitScores(v)
    BY <2>0, <2>2, InitScoresInv
  <2>3. CASE \E v \in Vars : Assign(v) \/ MarkInactive(v) \/ Reactivate(v)
    BY <2>0, <2>3, ValuesInv
  <2>4. CASE \E S \in SUBSET Vars : BumpVariables(S)
    BY <2>0, <2>4, ValuesInv
  <2>5. CASE \E v \in Vars : Unassign(v)
    BY <2>0, <2>5, UnassignInv
  <2>6. CASE \E v \in Vars : BumpVariable(v)
    BY <2>0, <2>6, BumpVariableInv
  <2>7. CASE BumpScoreInc
    BY <2>0, <2>7, BumpScoreIncInv
  <2>8. CASE \E o \in Orders(allocated) : ShuffleStart(o)
    BY <2>0, <2>8, ShuffleStartInv
  <2>9. CASE CompactStart \/ FillEnd \/ SearchStart
    BY <2>0, <2>9, LoopsInv
  <2>10. CASE Drain
    BY <2>0, <2>10, DrainInv
  <2>11. CASE DrainEnd
    BY <2>0, <2>11, DrainEndInv
  <2>12. CASE Fill
    BY <2>0, <2>12, FillInv
  <2>13. CASE SearchAux
    BY <2>0, <2>13, SearchAuxInv
  <2>14. CASE SearchPop
    BY <2>0, <2>14, SearchPopInv
  <2>15. CASE SearchReturn
    BY <2>0, <2>15, SearchReturnInv
  <2>16. CASE UseDecision
    BY <2>0, <2>16, UseDecisionInv
  <2> QED
    BY <2>1, <2>2, <2>3, <2>4, <2>5, <2>6, <2>7, <2>8, <2>9, <2>10, <2>11, <2>12, <2>13,
       <2>14, <2>15, <2>16 DEF Next, Environment, Search
<1>2. CASE UNCHANGED vars
  <2>1. /\ UNCHANGED <<setup, array, stab, moving, dir, saved, allocated>>
        /\ UNCHANGED <<inc, assigned, fixed, inactive, pc, analyzed, shuffling, res>>
    BY <1>2 DEF vars
  <2>2. Vars' = Vars /\ Flushed' = Flushed /\ Inputs' = Inputs
    BY <2>1 DEF Vars, Flushed, Inputs, Aux
  <2>3. HeapTypeOK' /\ NothingLost' /\ BestScore'
    BY <2>1, <2>2 DEF HeapInv, HeapTypeOK, NothingLost, BestScore
  <2> QED BY <2>1, <2>3, QuietInv
<1> QED BY <1>1, <1>2

(* The heap is ordered, holds every unassigned variable and none twice,    *)
(* whatever variables, scores, shuffles and compactions there are.         *)
THEOREM HeapRight == Spec => []HeapInv
BY HeapInit, HeapStep, PTL DEF Spec

(* decide.cpp:76: next_decision_variable_with_best_score returns an        *)
(* unassigned input, and no unassigned input has a larger score.           *)
THEOREM BestScoreRight == Spec => []BestScore
<1>1. HeapInv => BestScore
  BY DEF HeapInv
<1> QED BY <1>1, HeapRight, PTL

-----------------------------------------------------------------------------
(* Schedule.                                                               *)

(* What is assumed of the options.                                         *)
LEMMA PlanIs ==
    ASSUME plan \in Plans
    PROVE  /\ plan.reluctant \in Nat /\ plan.restartint \in Nat \ {0} /\ plan.interval \in Nat \ {0}
           /\ plan.stabilizeint \in Nat \ {0} /\ plan.stabilizefactor \in Nat \ {0}
           /\ plan.stabilizemaxint \in Nat \ {0} /\ plan.bounds \subseteq Nat
           /\ plan.factors \subseteq Nat \ {0} /\ plan.stabilize \in BOOLEAN /\ plan.stabilizeonly \in BOOLEAN
BY ScheduleAssumption

(* The names of the techniques.                                            *)
LEMMA NamesAre ==
    TechniqueNames = {"restart", "rephase", "reduce", "probe", "subsume", "elim", "compact", "condition"}
<1>1. TechniqueNames = {Techniques[i] : i \in 1 .. Len(Techniques)}
  BY DEF TechniqueNames, NoCalls
<1>2. Len(Techniques) = 8
  BY DEF Techniques
<1>3. /\ Techniques[1] = "restart" /\ Techniques[2] = "rephase" /\ Techniques[3] = "reduce"
      /\ Techniques[4] = "probe" /\ Techniques[5] = "subsume" /\ Techniques[6] = "elim"
      /\ Techniques[7] = "compact" /\ Techniques[8] = "condition"
  BY DEF Techniques
<1>4. \A i : i \in 1 .. 8 <=> i = 1 \/ i = 2 \/ i = 3 \/ i = 4 \/ i = 5 \/ i = 6 \/ i = 7 \/ i = 8
  OBVIOUS
<1> QED BY <1>1, <1>2, <1>3, <1>4

(* Least and greatest of two numbers.                                      *)
LEMMA MinMaxIs ==
    ASSUME NEW a \in Nat, NEW b \in Nat
    PROVE  /\ Min({a, b}) \in {a, b} /\ Max({a, b}) \in {a, b}
           /\ Max({a, b}) >= a /\ Max({a, b}) >= b
<1>1. \E x \in {a, b} : \A y \in {a, b} : x <= y
  OBVIOUS
<1>2. \E x \in {a, b} : \A y \in {a, b} : x >= y
  OBVIOUS
<1>3. Min({a, b}) \in {a, b}
  BY <1>1 DEF Min
<1>4. Max({a, b}) \in {a, b} /\ \A y \in {a, b} : Max({a, b}) >= y
  BY <1>2 DEF Max
<1> QED BY <1>3, <1>4

(* A technique sets its limit to a later conflict.                         *)
LEMMA ScaledIs ==
    ASSUME plan \in Plans, NEW n \in Nat \ {0}, NEW d \in Scaled(n)
    PROVE  d \in Nat \ {0}
<1>1. PICK f \in plan.factors : d = f * n
  BY DEF Scaled
<1>2. f \in Nat \ {0}
  BY PlanIs
<1> QED BY <1>1, <1>2

(* A change of mode sets the limit of the next one to a later conflict.    *)
LEMMA LimNowIs ==
    ASSUME ScheduleTypeOK
    PROVE  /\ LimNow \in [initialized : BOOLEAN, conflicts : Int, stabilize : Nat, flush : Nat,
                          elimbound : Nat, at : [TechniqueNames -> Nat]]
           /\ LimNow.at = lim.at /\ Stretched \in Nat /\ ModeNow \in BOOLEAN
           /\ Switch => LimNow.stabilize > stats.conflicts
           /\ ~Switch => LimNow = lim /\ ModeNow = stable
<1>1. Stretched \in Nat
  <2> DEFINE a == (incr.stabilize * plan.stabilizefactor) \div 100
             b == plan.stabilizemaxint
  <2>1. incr.stabilize \in Nat /\ plan.stabilizefactor \in Nat /\ b \in Nat
    BY PlanIs DEF ScheduleTypeOK
  <2>2. incr.stabilize * plan.stabilizefactor \in Nat
    BY <2>1
  <2>3. a \in Nat
    BY <2>2
  <2> HIDE DEF a, b
  <2>4. Min({a, b}) \in {a, b}
    BY <2>1, <2>3, MinMaxIs
  <2> QED BY <2>1, <2>3, <2>4 DEF Stretched, a, b
<1> DEFINE m == Max({From(Stretched), From(1)})
<1>2. m \in Nat /\ m > stats.conflicts
  <2>1. stats.conflicts \in Nat
    BY DEF ScheduleTypeOK
  <2>2. From(Stretched) \in Nat /\ From(1) \in Nat /\ From(1) > stats.conflicts
    BY <1>1, <2>1 DEF From
  <2>3. m \in {From(Stretched), From(1)} /\ m >= From(1)
    BY <2>2, MinMaxIs
  <2> HIDE DEF m
  <2> QED BY <2>1, <2>2, <2>3
<1>3. LimNow = IF Switch THEN [lim EXCEPT !.stabilize = m] ELSE lim
  BY DEF LimNow
<1>4. ModeNow \in BOOLEAN /\ (~Switch => ModeNow = stable)
  BY DEF ModeNow, ScheduleTypeOK
<1> HIDE DEF m
<1> QED BY <1>1, <1>2, <1>3, <1>4 DEF ScheduleTypeOK

(* What was called is not due again.                                       *)
LEMMA ExhaustedNotDue ==
    ASSUME ScheduleTypeOK, NEW t \in TechniqueNames, Exhausted(t), NEW facts
    PROVE  ~Due(t, facts)
<1>1. lim.at[t] \in Nat /\ stats.conflicts \in Nat /\ lim.at[t] > stats.conflicts
  BY DEF Exhausted, ScheduleTypeOK
<1>2. ~(stats.conflicts > lim.at[t]) /\ ~(stats.conflicts >= lim.at[t])
  BY <1>1
<1>3. CASE t = "restart"
  <2>1. ModeSettled /\ ~(plan.stabilize /\ stable /\ reluctant.trigger)
    BY <1>3 DEF Exhausted
  <2>2. ~Switch
    <3>1. stats.conflicts < lim.stabilize => ~(stats.conflicts >= lim.stabilize)
      BY DEF ScheduleTypeOK
    <3> QED BY <2>1, <3>1 DEF ModeSettled, Switch
  <2>3. ModeNow = stable
    BY <2>2, LimNowIs
  <2>4. ~Restarting
    BY <1>2, <1>3, <2>1, <2>3 DEF Restarting, Reluctantly
  <2> QED BY <1>3, <2>4 DEF Due
<1>4. CASE t = "rephase"
  BY <1>2, <1>4 DEF Due
<1>5. CASE t = "reduce"
  BY <1>2, <1>5 DEF Due, Reached
<1>6. CASE t = "probe"
  BY <1>2, <1>6 DEF Due, Reached
<1>7. CASE t = "subsume"
  BY <1>2, <1>7 DEF Due, Reached
<1>8. CASE t = "elim"
  BY <1>2, <1>8 DEF Due
<1>9. CASE t = "compact"
  BY <1>2, <1>9 DEF Due, Reached
<1>10. CASE t = "condition"
  BY <1>2, <1>10 DEF Due, Reached
<1> QED BY <1>3, <1>4, <1>5, <1>6, <1>7, <1>8, <1>9, <1>10, NamesAre

(* A technique is appended to those that were called.                      *)
LEMMA TakesOnce ==
    ASSUME ScheduleInv, NEW t \in TechniqueNames, Takes(t), ScheduleTypeOK',
           \A x \in TechniqueNames : Exhausted(x) => Exhausted(x)', Exhausted(t)'
    PROVE  ScheduleInv'
<1>1. ran' = Append(ran, t) /\ ran \in Seq(TechniqueNames)
  BY DEF Takes, ScheduleInv, ScheduleTypeOK
<1>2. /\ Len(ran) \in Nat /\ Len(ran') = Len(ran) + 1 /\ ran'[Len(ran) + 1] = t
      /\ \A i \in 1 .. Len(ran) : ran'[i] = ran[i] /\ ran[i] \in TechniqueNames
  BY <1>1
<1>3. \A i \in 1 .. Len(ran') : i \in 1 .. Len(ran) \/ i = Len(ran) + 1
  BY <1>2
<1>4. \A i \in 1 .. Len(ran) : ran[i] # t
  <2>1. PICK facts \in SUBSET Facts : Chosen(t, facts)
    BY DEF Takes
  <2>2. Due(t, facts)
    BY <2>1 DEF Chosen
  <2> QED BY <1>2, <2>2, ExhaustedNotDue DEF ScheduleInv
<1>5. \A i \in 1 .. Len(ran) : Exhausted(ran[i])
  BY DEF ScheduleInv
<1>6. ASSUME NEW i \in 1 .. Len(ran'), NEW x, x = ran'[i] PROVE Exhausted(x)'
  BY <1>2, <1>3, <1>5, <1>6
<1>7. \A i \in 1 .. Len(ran') : Exhausted(ran[i])'
  BY <1>6
<1>8. NoTechniqueTwice'
  <2>1. \A i, j \in 1 .. Len(ran) : ran[i] = ran[j] => i = j
    BY DEF ScheduleInv, NoTechniqueTwice
  <2> QED BY <1>2, <1>3, <1>4, <2>1 DEF NoTechniqueTwice
<1> QED BY <1>7, <1>8 DEF ScheduleInv

(* A technique that is not a restart, and that leaves limits behind that   *)
(* are later than the number of conflicts or what they were.               *)
LEMMA LaterKept ==
    ASSUME ScheduleInv, NEW t \in TechniqueNames, plan' = plan, stats'.conflicts = stats.conflicts,
           stable' = ModeNow, lim'.stabilize = LimNow.stabilize, reluctant' = reluctant,
           NEW S \in SUBSET TechniqueNames, t \in S, t # "restart",
           \A x \in S : lim'.at[x] > stats.conflicts,
           \A x \in TechniqueNames \ S : lim'.at[x] = lim.at[x]
    PROVE  (\A x \in TechniqueNames : Exhausted(x) => Exhausted(x)') /\ Exhausted(t)'
<1>1. ASSUME NEW x \in TechniqueNames, Exhausted(x) PROVE Exhausted(x)'
  <2>1. lim'.at[x] > stats'.conflicts
    BY <1>1 DEF Exhausted
  <2>2. ASSUME x = "restart" PROVE ModeSettled' /\ ~(plan.stabilize /\ stable /\ reluctant.trigger)'
    <3>1. ModeSettled /\ ~(plan.stabilize /\ stable /\ reluctant.trigger)
      BY <1>1, <2>2 DEF Exhausted
    <3>2. ~Switch
      <4>1. stats.conflicts < lim.stabilize => ~(stats.conflicts >= lim.stabilize)
        BY DEF ScheduleInv, ScheduleTypeOK
      <4> QED BY <3>1, <4>1 DEF ModeSettled, Switch
    <3>3. stable' = stable /\ lim'.stabilize = lim.stabilize
      BY <3>2, LimNowIs DEF ScheduleInv
    <3> QED BY <3>1, <3>3 DEF ModeSettled
  <2> QED BY <2>1, <2>2 DEF Exhausted
<1>2. Exhausted(t)'
  BY DEF Exhausted
<1> QED BY <1>1, <1>2

(* The modes and intervals after an iteration.                             *)
LEMMA IterationType ==
    ASSUME ScheduleTypeOK, NEW t, Iteration(t)
    PROVE  /\ plan' = plan /\ plan' \in Plans /\ stable' = ModeNow /\ stable' \in BOOLEAN
           /\ incr' \in [stabilize : Nat, flush : Nat]
<1>1. plan' = plan /\ plan \in Plans /\ stable' = ModeNow /\ ModeNow \in BOOLEAN
  BY LimNowIs DEF Iteration, ScheduleTypeOK
<1>2. incr.flush \in Nat /\ incr.stabilize \in Nat /\ 3 * incr.flush \in Nat /\ Stretched \in Nat
  <2>1. incr.flush \in Nat /\ incr.stabilize \in Nat
    BY DEF ScheduleTypeOK
  <2>2. Stretched \in Nat
    BY LimNowIs
  <2>3. 3 * incr.flush \in Nat
    BY <2>1
  <2> QED BY <2>1, <2>2, <2>3
<1>3. incr' \in [stabilize : Nat, flush : Nat]
  BY <1>2 DEF Iteration
<1> QED BY <1>1, <1>3

(* A technique is counted.                                                 *)
LEMMA CountedType ==
    ASSUME ScheduleTypeOK, NEW t \in TechniqueNames
    PROVE  /\ Counted(t) \in [conflicts : Nat, calls : Nat, done : [TechniqueNames -> Nat]]
           /\ Counted(t).conflicts = stats.conflicts
<1>1. stats.done[t] \in Nat /\ stats.done[t] + 1 \in Nat
  BY DEF ScheduleTypeOK
<1>2. Counted(t) = [stats EXCEPT !.done = [stats.done EXCEPT ![t] = stats.done[t] + 1]]
  BY DEF Counted, ScheduleTypeOK
<1>3. [stats.done EXCEPT ![t] = stats.done[t] + 1] \in [TechniqueNames -> Nat]
  BY <1>1 DEF ScheduleTypeOK
<1> QED BY <1>2, <1>3 DEF ScheduleTypeOK

(* Intervals are positive.                                                 *)
LEMMA IntervalIs ==
    ASSUME ScheduleTypeOK, NEW t \in TechniqueNames
    PROVE  Interval(t) \in Nat \ {0}
<1>1. stats.done[t] \in Nat /\ plan.interval \in Nat \ {0}
  BY PlanIs DEF ScheduleTypeOK
<1>2. stats.done[t] + 2 \in Nat \ {0}
  BY <1>1
<1>3. \A a, b \in Nat \ {0} : a * b \in Nat \ {0}
  OBVIOUS
<1> QED BY <1>1, <1>2, <1>3 DEF Interval

(* What a technique leaves of the limits.                                  *)
LEMMA NextAtIs ==
    ASSUME ScheduleTypeOK, NEW t \in TechniqueNames, NEW d \in Nat \ {0}
    PROVE  /\ NextAt(t, d) \in [initialized : BOOLEAN, conflicts : Int, stabilize : Nat, flush : Nat,
                                elimbound : Nat, at : [TechniqueNames -> Nat]]
           /\ NextAt(t, d).stabilize = LimNow.stabilize
           /\ NextAt(t, d).at[t] > stats.conflicts
           /\ \A x \in TechniqueNames \ {t} : NextAt(t, d).at[x] = lim.at[x]
           /\ NextAt(t, d).elimbound = LimNow.elimbound
<1>1. stats.conflicts \in Nat
  BY DEF ScheduleTypeOK
<1>2. From(d) \in Nat /\ From(d) > stats.conflicts
  BY <1>1 DEF From
<1>3. NextAt(t, d) = [LimNow EXCEPT !.at[t] = From(d)]
  BY DEF NextAt
<1>4. LimNow \in [initialized : BOOLEAN, conflicts : Int, stabilize : Nat, flush : Nat,
                  elimbound : Nat, at : [TechniqueNames -> Nat]] /\ LimNow.at = lim.at
  BY LimNowIs
<1> QED BY <1>2, <1>3, <1>4

(* Techniques that set one limit, and count a call.                        *)
LEMMA PlainTechnique ==
    ASSUME ScheduleInv, NEW t \in TechniqueNames \ {"restart"}, NEW x, NEW d \in Nat \ {0},
           Takes(t), Iteration(x), reluctant' = reluctant, stats' = Counted(t),
           lim' = NextAt(t, d)
    PROVE  ScheduleInv'
<1>1. ScheduleTypeOK /\ t \in TechniqueNames /\ t # "restart"
  BY DEF ScheduleInv
<1>2. /\ plan' = plan /\ plan' \in Plans /\ stable' = ModeNow /\ stable' \in BOOLEAN
      /\ incr' \in [stabilize : Nat, flush : Nat]
  BY <1>1, IterationType
<1>3. /\ stats' \in [conflicts : Nat, calls : Nat, done : [TechniqueNames -> Nat]]
      /\ stats'.conflicts = stats.conflicts
  BY <1>1, CountedType
<1>4. /\ lim' \in [initialized : BOOLEAN, conflicts : Int, stabilize : Nat, flush : Nat,
                   elimbound : Nat, at : [TechniqueNames -> Nat]]
      /\ lim'.stabilize = LimNow.stabilize /\ lim'.at[t] > stats.conflicts
      /\ \A y \in TechniqueNames \ {t} : lim'.at[y] = lim.at[y]
  BY <1>1, NextAtIs
<1>5. ran' \in Seq(TechniqueNames) /\ reluctant' \in
          [period : Nat, u : Nat, v : Nat, countdown : Nat, trigger : BOOLEAN]
  BY <1>1 DEF Takes, ScheduleTypeOK
<1>6. ScheduleTypeOK'
  <2>1. TechniqueNames' = TechniqueNames
    BY DEF TechniqueNames, NoCalls, Techniques
  <2> QED BY <1>2, <1>3, <1>4, <1>5, <2>1 DEF ScheduleTypeOK
<1>7. (\A y \in TechniqueNames : Exhausted(y) => Exhausted(y)') /\ Exhausted(t)'
  <2> DEFINE S == {t}
  <2>1. S \in SUBSET TechniqueNames /\ t \in S /\ \A y \in S : lim'.at[y] > stats.conflicts
    BY <1>1, <1>4
  <2>2. \A y \in TechniqueNames \ S : lim'.at[y] = lim.at[y]
    BY <1>4
  <2> HIDE DEF S
  <2> QED BY <1>1, <1>2, <1>3, <1>4, <2>1, <2>2, LaterKept
<1> QED BY <1>1, <1>6, <1>7, TakesOnce

(* Rephasing, probing, subsumption, compacting and conditioning.           *)
LEMMA PlainSteps ==
    ASSUME ScheduleInv
    PROVE  /\ Rephase => ScheduleInv'
           /\ \A found \in BOOLEAN : Probe(found) \/ Subsume(found) => ScheduleInv'
           /\ Compact \/ Condition => ScheduleInv'
<1>0. ScheduleTypeOK
  BY DEF ScheduleInv
<1>1. \A t \in TechniqueNames : Interval(t) \in Nat \ {0}
  BY <1>0, IntervalIs
<1>2. {"rephase", "probe", "subsume", "compact", "condition"} \subseteq TechniqueNames \ {"restart"}
  BY NamesAre
<1>3. ASSUME Rephase PROVE ScheduleInv'
  BY <1>1, <1>2, <1>3, PlainTechnique DEF Rephase
<1>4. ASSUME NEW found \in BOOLEAN, Probe(found) PROVE ScheduleInv'
  BY <1>1, <1>2, <1>4, PlainTechnique DEF Probe
<1>5. ASSUME NEW found \in BOOLEAN, Subsume(found) PROVE ScheduleInv'
  <2>1. PICK d \in Scaled(Interval("subsume")) : lim' = NextAt("subsume", d)
    BY <1>5 DEF Subsume
  <2>2. d \in Nat \ {0}
    BY <1>0, <1>1, <1>2, ScaledIs DEF ScheduleTypeOK
  <2> QED BY <1>2, <1>5, <2>1, <2>2, PlainTechnique DEF Subsume
<1>6. ASSUME Compact PROVE ScheduleInv'
  BY <1>1, <1>2, <1>6, PlainTechnique DEF Compact
<1>7. ASSUME Condition PROVE ScheduleInv'
  BY <1>1, <1>2, <1>7, PlainTechnique DEF Condition
<1> QED BY <1>3, <1>4, <1>5, <1>6, <1>7

(* Reduction, which may flush and then sets the limit of the next flush.   *)
LEMMA ReduceStep ==
    ASSUME ScheduleInv, Reduce
    PROVE  ScheduleInv'
<1>0. ScheduleTypeOK
  BY DEF ScheduleInv
<1>1. "reduce" \in TechniqueNames /\ "reduce" # "restart"
  BY NamesAre
<1>2. Interval("reduce") \in Nat \ {0}
  BY <1>0, <1>1, IntervalIs
<1> DEFINE next == NextAt("reduce", Interval("reduce"))
<1>3. /\ next \in [initialized : BOOLEAN, conflicts : Int, stabilize : Nat, flush : Nat,
                   elimbound : Nat, at : [TechniqueNames -> Nat]]
      /\ next.stabilize = LimNow.stabilize /\ next.at["reduce"] > stats.conflicts
      /\ \A y \in TechniqueNames \ {"reduce"} : next.at[y] = lim.at[y]
  BY <1>0, <1>1, <1>2, NextAtIs
<1>4. lim' = IF Flushing THEN [next EXCEPT !.flush = From(3 * incr.flush)] ELSE next
  BY DEF Reduce
<1> HIDE DEF next
<1>5. From(3 * incr.flush) \in Nat
  BY <1>0 DEF From, ScheduleTypeOK
<1>6. /\ lim' \in [initialized : BOOLEAN, conflicts : Int, stabilize : Nat, flush : Nat,
                   elimbound : Nat, at : [TechniqueNames -> Nat]]
      /\ lim'.stabilize = LimNow.stabilize /\ lim'.at = next.at
  BY <1>3, <1>4, <1>5
<1>7. /\ plan' = plan /\ plan' \in Plans /\ stable' = ModeNow /\ stable' \in BOOLEAN
      /\ incr' \in [stabilize : Nat, flush : Nat]
  BY <1>0, IterationType DEF Reduce
<1>8. /\ stats' \in [conflicts : Nat, calls : Nat, done : [TechniqueNames -> Nat]]
      /\ stats'.conflicts = stats.conflicts
  BY <1>0, <1>1, CountedType DEF Reduce
<1>9. Takes("reduce") /\ reluctant' = reluctant
  BY DEF Reduce
<1>10. ran' \in Seq(TechniqueNames) /\ reluctant' \in
          [period : Nat, u : Nat, v : Nat, countdown : Nat, trigger : BOOLEAN]
  BY <1>0, <1>1, <1>9 DEF Takes, ScheduleTypeOK
<1>11. ScheduleTypeOK'
  <2>1. TechniqueNames' = TechniqueNames
    BY DEF TechniqueNames, NoCalls, Techniques
  <2> QED BY <1>6, <1>7, <1>8, <1>10, <2>1 DEF ScheduleTypeOK
<1>12. (\A y \in TechniqueNames : Exhausted(y) => Exhausted(y)') /\ Exhausted("reduce")'
  <2> DEFINE S == {"reduce"}
  <2>1. S \in SUBSET TechniqueNames /\ "reduce" \in S /\ \A y \in S : lim'.at[y] > stats.conflicts
    BY <1>1, <1>3, <1>6
  <2>2. \A y \in TechniqueNames \ S : lim'.at[y] = lim.at[y]
    BY <1>3, <1>6
  <2> HIDE DEF S
  <2> QED BY <1>1, <1>6, <1>7, <1>8, <1>9, <2>1, <2>2, LaterKept
<1> QED BY <1>1, <1>9, <1>11, <1>12, TakesOnce

(* A complete elimination raises the bound on the clauses it may add.      *)
LEMMA RaisedIs ==
    ASSUME NEW b \in Nat
    PROVE  Raised(b) \in Nat
<1>1. 2 * b \in Nat /\ BoundMax \in Nat
  BY DEF BoundMax
<1>2. Min({2 * b, BoundMax}) \in Nat
  BY <1>1, MinMaxIs
<1> QED BY <1>2 DEF Raised

(* What elimination, and the subsumption it may begin with, count.         *)
LEMMA AfterElimIs ==
    ASSUME ScheduleTypeOK
    PROVE  AfterElim(stats.done) \in [TechniqueNames -> Nat]
<1>1. {"elim", "subsume"} \subseteq TechniqueNames /\ stats.done \in [TechniqueNames -> Nat]
  BY NamesAre DEF ScheduleTypeOK
<1> DEFINE n == stats.done["subsume"] + (IF ElimSubsumes THEN 1 ELSE 0)
           m == stats.done["elim"] + 1
<1>2. n \in Nat /\ m \in Nat
  BY <1>1
<1>3. AfterElim(stats.done) = [[stats.done EXCEPT !["elim"] = m] EXCEPT !["subsume"] = n]
  BY <1>1 DEF AfterElim
<1> HIDE DEF n, m
<1> QED BY <1>1, <1>2, <1>3

(* Elimination, which also sets the limit of the subsumption before it.    *)
LEMMA ElimStep ==
    ASSUME ScheduleInv, NEW complete \in BOOLEAN, Elim(complete)
    PROVE  ScheduleInv'
<1>0. ScheduleTypeOK
  BY DEF ScheduleInv
<1>1. "elim" \in TechniqueNames /\ "subsume" \in TechniqueNames /\ "elim" # "restart" /\ "subsume" # "elim"
  BY NamesAre
<1>2. Interval("elim") \in Nat \ {0} /\ Interval("subsume") \in Nat \ {0}
  BY <1>0, <1>1, IntervalIs
<1>3. PICK d \in Scaled(Interval("elim")) : \E e \in Scaled(Interval("subsume")) :
        lim' = [NextAt("elim", d) EXCEPT !.at["subsume"] = IF ElimSubsumes THEN From(e) ELSE @,
                                         !.elimbound = IF complete THEN Raised(@) ELSE @]
  BY DEF Elim
<1>4. PICK e \in Scaled(Interval("subsume")) :
        lim' = [NextAt("elim", d) EXCEPT !.at["subsume"] = IF ElimSubsumes THEN From(e) ELSE @,
                                         !.elimbound = IF complete THEN Raised(@) ELSE @]
  BY <1>3
<1>5. d \in Nat \ {0} /\ e \in Nat \ {0}
  BY <1>0, <1>2, ScaledIs DEF ScheduleTypeOK
<1> DEFINE next == NextAt("elim", d)
<1>6. /\ next \in [initialized : BOOLEAN, conflicts : Int, stabilize : Nat, flush : Nat,
                   elimbound : Nat, at : [TechniqueNames -> Nat]]
      /\ next.stabilize = LimNow.stabilize /\ next.at["elim"] > stats.conflicts
      /\ \A y \in TechniqueNames \ {"elim"} : next.at[y] = lim.at[y]
  BY <1>0, <1>1, <1>5, NextAtIs
<1>7. stats.conflicts \in Nat /\ From(e) \in Nat /\ From(e) > stats.conflicts
  BY <1>0, <1>5 DEF From, ScheduleTypeOK
<1> DEFINE sub == IF ElimSubsumes THEN From(e) ELSE next.at["subsume"]
           bound == IF complete THEN Raised(next.elimbound) ELSE next.elimbound
<1>8. lim' = [next EXCEPT !.at = [next.at EXCEPT !["subsume"] = sub], !.elimbound = bound]
  BY <1>1, <1>4, <1>6
<1> HIDE DEF next
<1>9. sub \in Nat /\ bound \in Nat /\ (ElimSubsumes => sub = From(e))
      /\ (~ElimSubsumes => sub = next.at["subsume"])
  BY <1>1, <1>6, <1>7, RaisedIs
<1> HIDE DEF sub, bound
<1>10. /\ lim' \in [initialized : BOOLEAN, conflicts : Int, stabilize : Nat, flush : Nat,
                    elimbound : Nat, at : [TechniqueNames -> Nat]]
       /\ lim'.stabilize = LimNow.stabilize
       /\ lim'.at = [next.at EXCEPT !["subsume"] = sub]
  BY <1>6, <1>8, <1>9
<1>11. /\ plan' = plan /\ plan' \in Plans /\ stable' = ModeNow /\ stable' \in BOOLEAN
       /\ incr' \in [stabilize : Nat, flush : Nat]
  BY <1>0, IterationType DEF Elim
<1>12. stats' = [stats EXCEPT !.done = AfterElim(stats.done)]
  BY DEF Elim
<1>13. /\ stats' \in [conflicts : Nat, calls : Nat, done : [TechniqueNames -> Nat]]
       /\ stats'.conflicts = stats.conflicts
  BY <1>0, <1>12, AfterElimIs DEF ScheduleTypeOK
<1>14. Takes("elim") /\ reluctant' = reluctant
  BY DEF Elim
<1>15. ran' \in Seq(TechniqueNames) /\ reluctant' \in
          [period : Nat, u : Nat, v : Nat, countdown : Nat, trigger : BOOLEAN]
  BY <1>0, <1>1, <1>14 DEF Takes, ScheduleTypeOK
<1>16. ScheduleTypeOK'
  <2>1. TechniqueNames' = TechniqueNames
    BY DEF TechniqueNames, NoCalls, Techniques
  <2> QED BY <1>10, <1>11, <1>13, <1>15, <2>1 DEF ScheduleTypeOK
<1>17. (\A y \in TechniqueNames : Exhausted(y) => Exhausted(y)') /\ Exhausted("elim")'
  <2> DEFINE S == IF ElimSubsumes THEN {"elim", "subsume"} ELSE {"elim"}
  <2>1. lim'.at["elim"] > stats.conflicts /\ (ElimSubsumes => lim'.at["subsume"] > stats.conflicts)
    BY <1>1, <1>6, <1>7, <1>9, <1>10
  <2>2. S \in SUBSET TechniqueNames /\ "elim" \in S /\ \A y \in S : lim'.at[y] > stats.conflicts
    BY <1>1, <2>1
  <2>3. \A y \in TechniqueNames \ S : lim'.at[y] = lim.at[y]
    BY <1>1, <1>6, <1>9, <1>10
  <2> HIDE DEF S
  <2> QED BY <1>1, <1>10, <1>11, <1>13, <1>14, <2>2, <2>3, LaterKept
<1> QED BY <1>1, <1>14, <1>16, <1>17, TakesOnce

(* A restart, after which neither the limit nor reluctant doubling asks    *)
(* for another one, and the mode remains what it is.                       *)
LEMMA RestartStep ==
    ASSUME ScheduleInv, NEW n, Restart(n)
    PROVE  ScheduleInv'
<1>0. ScheduleTypeOK
  BY DEF ScheduleInv
<1>1. "restart" \in TechniqueNames
  BY NamesAre
<1>2. plan.restartint \in Nat \ {0}
  BY <1>0, PlanIs DEF ScheduleTypeOK
<1>3. /\ lim' \in [initialized : BOOLEAN, conflicts : Int, stabilize : Nat, flush : Nat,
                   elimbound : Nat, at : [TechniqueNames -> Nat]]
      /\ lim'.stabilize = LimNow.stabilize /\ lim'.at["restart"] > stats.conflicts
      /\ \A y \in TechniqueNames \ {"restart"} : lim'.at[y] = lim.at[y]
  BY <1>0, <1>1, <1>2, NextAtIs DEF Restart
<1>4. /\ plan' = plan /\ plan' \in Plans /\ stable' = ModeNow /\ stable' \in BOOLEAN
      /\ incr' \in [stabilize : Nat, flush : Nat]
  BY <1>0, IterationType DEF Restart
<1>5. stats' = stats /\ Takes("restart")
      /\ reluctant' = IF Reluctantly THEN [reluctant EXCEPT !.trigger = FALSE] ELSE reluctant
  BY DEF Restart
<1>6. reluctant' \in [period : Nat, u : Nat, v : Nat, countdown : Nat, trigger : BOOLEAN]
      /\ (Reluctantly => ~reluctant'.trigger)
  BY <1>0, <1>5 DEF ScheduleTypeOK
<1>7. ran' \in Seq(TechniqueNames)
  BY <1>0, <1>1, <1>5 DEF Takes, ScheduleTypeOK
<1>8. ScheduleTypeOK'
  <2>1. TechniqueNames' = TechniqueNames
    BY DEF TechniqueNames, NoCalls, Techniques
  <2> QED BY <1>0, <1>3, <1>4, <1>5, <1>6, <1>7, <2>1 DEF ScheduleTypeOK
<1>9. Asked
  BY <1>5 DEF Takes, Chosen, Due, Restarting
<1>10. ModeSettled'
  <2>1. CASE Switch
    <3>1. lim'.stabilize > stats.conflicts
      BY <1>0, <1>3, <2>1, LimNowIs
    <3>2. stats'.conflicts < lim'.stabilize
      BY <1>0, <1>3, <1>5, <3>1 DEF ScheduleTypeOK
    <3> QED BY <3>2 DEF ModeSettled
  <2>2. CASE ~Switch
    <3>1. stable' = stable /\ lim'.stabilize = lim.stabilize
      BY <1>0, <1>3, <1>4, <2>2, LimNowIs
    <3>2. ~(stats.conflicts >= lim.stabilize) => stats.conflicts < lim.stabilize
      BY <1>0 DEF ScheduleTypeOK
    <3> QED BY <1>4, <1>5, <1>9, <2>2, <3>1, <3>2 DEF Switch, ModeSettled
  <2> QED BY <2>1, <2>2
<1>11. ~(plan.stabilize /\ stable /\ reluctant.trigger)'
  BY <1>4, <1>6 DEF Reluctantly
<1>12. Exhausted("restart")'
  BY <1>3, <1>5, <1>10, <1>11 DEF Exhausted
<1>13. ASSUME NEW y \in TechniqueNames, Exhausted(y) PROVE Exhausted(y)'
  <2>1. CASE y = "restart"
    BY <1>12, <2>1
  <2>2. CASE y # "restart"
    BY <1>3, <1>5, <1>13, <2>2 DEF Exhausted
  <2> QED BY <2>1, <2>2
<1> QED BY <1>1, <1>5, <1>8, <1>12, <1>13, TakesOnce

(* Nothing was called yet.                                                 *)
LEMMA NothingRan ==
    ASSUME ScheduleTypeOK', ran' = << >>
    PROVE  ScheduleInv'
<1>1. Len(ran') = 0
  OBVIOUS
<1>2. ~\E i \in 1 .. Len(ran') : TRUE
  BY <1>1
<1>3. NoTechniqueTwice'
  BY <1>2 DEF NoTechniqueTwice
<1> QED BY <1>2, <1>3 DEF ScheduleInv

(* A new sequence of reluctant restarts.                                   *)
LEMMA EnabledType ==
    ASSUME plan \in Plans
    PROVE  Enabled \in [period : Nat, u : Nat, v : Nat, countdown : Nat, trigger : BOOLEAN]
BY PlanIs DEF Enabled

(* A conflict in stable mode.                                              *)
LEMMA TickType ==
    ASSUME NEW r \in [period : Nat, u : Nat, v : Nat, countdown : Nat, trigger : BOOLEAN]
    PROVE  Tick(r) \in [period : Nat, u : Nat, v : Nat, countdown : Nat, trigger : BOOLEAN]
<1> DEFINE d == Doubled(r)
<1>1. d \in [period : Nat, u : Nat, v : Nat, countdown : Nat, trigger : BOOLEAN]
  <2> DEFINE u == IF LowBit(r.u) = r.v THEN r.u + 1 ELSE r.u
             v == IF LowBit(r.u) = r.v THEN 1 ELSE 2 * r.v
  <2>1. u \in Nat /\ v \in Nat
    OBVIOUS
  <2>2. \/ d = [r EXCEPT !.u = 1, !.v = 1]
        \/ d = [r EXCEPT !.u = u, !.v = v]
    BY DEF Doubled
  <2> HIDE DEF u, v, d
  <2>3. \A x, y \in Nat : [r EXCEPT !.u = x, !.v = y] \in
            [period : Nat, u : Nat, v : Nat, countdown : Nat, trigger : BOOLEAN]
    OBVIOUS
  <2>4. 1 \in Nat
    OBVIOUS
  <2> QED BY <2>1, <2>2, <2>3, <2>4
<1>2. \/ Tick(r) = r
      \/ r.countdown > 1 /\ Tick(r) = [r EXCEPT !.countdown = r.countdown - 1]
      \/ Tick(r) = [d EXCEPT !.countdown = d.v * d.period, !.trigger = TRUE]
  BY DEF Tick
<1> HIDE DEF d
<1>3. d.v * d.period \in Nat
  BY <1>1
<1>4. r.countdown > 1 => r.countdown - 1 \in Nat
  OBVIOUS
<1> QED BY <1>1, <1>2, <1>3, <1>4

(* The limits when a call starts.                                          *)
LEMMA PreprocessingLimitsType ==
    ASSUME ScheduleTypeOK, NEW s \in Nat, NEW e \in Nat
    PROVE  PreprocessingLimits(s, e) \in [TechniqueNames -> Nat]
<1>1. \A n \in Nat : From(n) \in Nat
  BY DEF From, ScheduleTypeOK
<1>2. plan.interval \in Nat
  BY PlanIs DEF ScheduleTypeOK
<1>3. From(s) \in Nat /\ From(e) \in Nat /\ From(plan.interval) \in Nat
  BY <1>1, <1>2
<1>4. lim.at \in [TechniqueNames -> Nat]
  BY DEF ScheduleTypeOK
<1> DEFINE q == plan.interval
           f1 == [lim.at EXCEPT !["subsume"] = IF ~lim.initialized THEN From(s) ELSE lim.at["subsume"]]
           f2 == [f1 EXCEPT !["elim"] = IF ~lim.initialized THEN From(e) ELSE f1["elim"]]
           f3 == [f2 EXCEPT !["compact"] = IF ~lim.initialized THEN From(q) ELSE f2["compact"]]
           f4 == [f3 EXCEPT !["probe"] = IF ~lim.initialized THEN From(q) ELSE f3["probe"]]
           f5 == [f4 EXCEPT !["condition"] = IF ~lim.initialized THEN From(q) ELSE f4["condition"]]
<1>5. PreprocessingLimits(s, e) = f5
  BY DEF PreprocessingLimits
<1>6. {"subsume", "elim", "compact", "probe", "condition"} \subseteq TechniqueNames
  BY NamesAre
<1>7. \A f \in [TechniqueNames -> Nat], t \in TechniqueNames, n \in Nat :
          [f EXCEPT ![t] = IF ~lim.initialized THEN n ELSE f[t]] \in [TechniqueNames -> Nat]
  OBVIOUS
<1>8. f1 \in [TechniqueNames -> Nat]
  BY <1>3, <1>4, <1>6, <1>7
<1> HIDE DEF f1
<1>9. f2 \in [TechniqueNames -> Nat]
  BY <1>3, <1>6, <1>7, <1>8
<1> HIDE DEF f2
<1>10. f3 \in [TechniqueNames -> Nat]
  BY <1>3, <1>6, <1>7, <1>9
<1> HIDE DEF f3
<1>11. f4 \in [TechniqueNames -> Nat]
  BY <1>3, <1>6, <1>7, <1>10
<1> HIDE DEF f4
<1>12. f5 \in [TechniqueNames -> Nat]
  BY <1>3, <1>6, <1>7, <1>11
<1> HIDE DEF f5
<1> QED BY <1>5, <1>12

(* The limits when the search starts.                                      *)
LEMMA SearchLimitsType ==
    ASSUME ScheduleTypeOK, NEW at \in [TechniqueNames -> Nat]
    PROVE  SearchLimits(at) \in [TechniqueNames -> Nat]
<1>1. \A n \in Nat : From(n) \in Nat
  BY DEF From, ScheduleTypeOK
<1>2. From(plan.interval) \in Nat /\ From(plan.restartint) \in Nat
  BY <1>1, PlanIs DEF ScheduleTypeOK
<1> DEFINE r == IF lim.initialized THEN at["reduce"] ELSE From(plan.interval)
<1>3. r \in Nat
  BY <1>2, NamesAre
<1>4. SearchLimits(at) = [[[at EXCEPT !["rephase"] = From(plan.interval)]
                              EXCEPT !["restart"] = From(plan.restartint)] EXCEPT !["reduce"] = r]
  BY NamesAre DEF SearchLimits
<1> HIDE DEF r
<1> QED BY <1>2, <1>3, <1>4

(* A call of solve, or of simplify, sets all limits.                       *)
LEMMA StartCallStep ==
    ASSUME ScheduleInv, NEW pre \in BOOLEAN, NEW n, NEW bound \in {-1} \cup plan.bounds,
           StartCall(pre, n, bound)
    PROVE  ScheduleInv'
<1>0. ScheduleTypeOK /\ plan \in Plans
  BY DEF ScheduleInv, ScheduleTypeOK
<1>1. stats' \in [conflicts : Nat, calls : Nat, done : [TechniqueNames -> Nat]]
  <2>1. stats.calls + 1 \in Nat
    BY <1>0 DEF ScheduleTypeOK
  <2>2. stats' = [stats EXCEPT !.calls = stats.calls + 1]
    BY DEF StartCall
  <2> QED BY <1>0, <2>1, <2>2 DEF ScheduleTypeOK
<1>2. PICK s \in Scaled(plan.interval), e \in Scaled(plan.interval) :
        \E at \in {PreprocessingLimits(s, e)} :
            lim' = IF pre THEN [lim EXCEPT !.at = at, !.elimbound = 0]
                   ELSE [initialized |-> TRUE,
                         conflicts |-> IF bound < 0 THEN -1 ELSE From(bound),
                         stabilize |-> From(plan.stabilizeint),
                         flush |-> IF lim.initialized THEN lim.flush ELSE plan.interval,
                         elimbound |-> 0,
                         at |-> SearchLimits(at)]
  BY DEF StartCall
<1>3. s \in Nat /\ e \in Nat
  BY <1>0, ScaledIs, PlanIs
<1>4. PICK at : at = PreprocessingLimits(s, e)
  OBVIOUS
<1>5. at \in [TechniqueNames -> Nat] /\ SearchLimits(at) \in [TechniqueNames -> Nat]
  BY <1>0, <1>3, <1>4, PreprocessingLimitsType, SearchLimitsType
<1>6. \A k \in Nat : From(k) \in Nat
  <2>1. stats.conflicts \in Nat
    BY <1>0 DEF ScheduleTypeOK
  <2> QED BY <2>1 DEF From
<1> DEFINE limit == IF bound < 0 THEN -1 ELSE From(bound)
           flush == IF lim.initialized THEN lim.flush ELSE plan.interval
<1>7. limit \in Int /\ flush \in Nat /\ From(plan.stabilizeint) \in Nat
  <2>1. bound < 0 \/ bound \in Nat
    BY <1>0, PlanIs
  <2>2. bound < 0 => limit = -1
    OBVIOUS
  <2>3. ~(bound < 0) => limit = From(bound)
    OBVIOUS
  <2>4. limit \in Int
    BY <1>6, <2>1, <2>2, <2>3
  <2>5. lim.flush \in Nat /\ plan.interval \in Nat /\ plan.stabilizeint \in Nat
    BY <1>0, PlanIs DEF ScheduleTypeOK
  <2> QED BY <1>6, <2>4, <2>5
<1>8. \/ lim' = [lim EXCEPT !.at = at, !.elimbound = 0]
      \/ lim' = [initialized |-> TRUE, conflicts |-> limit, stabilize |-> From(plan.stabilizeint),
                 flush |-> flush, elimbound |-> 0, at |-> SearchLimits(at)]
  BY <1>2, <1>4
<1> HIDE DEF limit, flush
<1>9. lim' \in [initialized : BOOLEAN, conflicts : Int, stabilize : Nat, flush : Nat,
                elimbound : Nat, at : [TechniqueNames -> Nat]]
  <2>1. CASE lim' = [lim EXCEPT !.at = at, !.elimbound = 0]
    BY <1>0, <1>5, <2>1 DEF ScheduleTypeOK
  <2>2. CASE lim' = [initialized |-> TRUE, conflicts |-> limit, stabilize |-> From(plan.stabilizeint),
                     flush |-> flush, elimbound |-> 0, at |-> SearchLimits(at)]
    <3> DEFINE sl == SearchLimits(at)
               fs == From(plan.stabilizeint)
    <3>1. sl \in [TechniqueNames -> Nat] /\ fs \in Nat
      BY <1>5, <1>7
    <3>2. lim' = [initialized |-> TRUE, conflicts |-> limit, stabilize |-> fs,
                  flush |-> flush, elimbound |-> 0, at |-> sl]
      BY <2>2
    <3> HIDE DEF sl, fs
    <3> QED BY <1>7, <3>1, <3>2
  <2> QED BY <1>8, <2>1, <2>2
<1>10. plan' = plan /\ ran' = << >>
  BY DEF StartCall
<1>11. /\ stable' \in BOOLEAN /\ incr' \in [stabilize : Nat, flush : Nat]
       /\ reluctant' \in [period : Nat, u : Nat, v : Nat, countdown : Nat, trigger : BOOLEAN]
  <2>1. CASE pre
    BY <1>0, <2>1 DEF StartCall, ScheduleTypeOK
  <2>2. CASE ~pre
    <3>1. stable' = StartMode /\ reluctant' = Enabled
          /\ incr' = [stabilize |-> plan.stabilizeint,
                      flush |-> (IF lim.initialized THEN incr.flush ELSE plan.interval)]
      BY <2>2 DEF StartCall
    <3>2. StartMode \in BOOLEAN
      BY <1>0, PlanIs DEF StartMode, Always
    <3>3. plan.stabilizeint \in Nat /\ plan.interval \in Nat /\ incr.flush \in Nat
      BY <1>0, PlanIs DEF ScheduleTypeOK
    <3> QED BY <1>0, <3>1, <3>2, <3>3, EnabledType
  <2> QED BY <2>1, <2>2
<1>12. ScheduleTypeOK'
  <2>1. TechniqueNames' = TechniqueNames
    BY DEF TechniqueNames, NoCalls, Techniques
  <2>2. plan' \in Plans /\ ran' \in Seq(TechniqueNames)
    BY <1>0, <1>10
  <2> QED BY <1>1, <1>9, <1>11, <2>1, <2>2 DEF ScheduleTypeOK
<1> QED BY <1>10, <1>12, NothingRan

(* A round of preprocessing changes no limit a technique waits for.        *)
LEMMA PreprocessStep ==
    ASSUME ScheduleInv, NEW complete \in BOOLEAN, NEW removed, PreprocessRound(complete, removed)
    PROVE  ScheduleInv'
<1>0. ScheduleTypeOK
  BY DEF ScheduleInv
<1>1. stats' = [stats EXCEPT !.done = [AfterElim(stats.done) EXCEPT !["probe"] = @ + 1,
                                                                   !["condition"] = @ + 1]]
  BY DEF PreprocessRound
<1>2. PICK done : done = AfterElim(stats.done)
  OBVIOUS
<1>3. done \in [TechniqueNames -> Nat]
  BY <1>0, <1>2, AfterElimIs
<1>4. done["probe"] \in Nat /\ done["condition"] \in Nat /\ "probe" \in TechniqueNames
      /\ "condition" \in TechniqueNames
  BY <1>3, NamesAre
<1>5. PICK k \in Nat, l \in Nat : k = done["probe"] + 1 /\ l = done["condition"] + 1
  BY <1>4
<1>6. stats' = [stats EXCEPT !.done = [[done EXCEPT !["probe"] = k] EXCEPT !["condition"] = l]]
  BY <1>1, <1>2, <1>3, <1>4, <1>5
<1>7. /\ stats' \in [conflicts : Nat, calls : Nat, done : [TechniqueNames -> Nat]]
      /\ stats'.conflicts = stats.conflicts
  <2>1. [[done EXCEPT !["probe"] = k] EXCEPT !["condition"] = l] \in [TechniqueNames -> Nat]
    BY <1>3
  <2> QED BY <1>0, <1>6, <2>1 DEF ScheduleTypeOK
<1>8. PICK b \in Nat : lim' = [lim EXCEPT !.elimbound = b]
  <2>1. lim.elimbound \in Nat /\ Raised(lim.elimbound) \in Nat
    BY <1>0, RaisedIs DEF ScheduleTypeOK
  <2>2. lim' = [lim EXCEPT !.elimbound = IF complete THEN Raised(lim.elimbound) ELSE lim.elimbound]
    BY <1>0 DEF PreprocessRound, ScheduleTypeOK
  <2> QED BY <2>1, <2>2
<1>9. /\ lim' \in [initialized : BOOLEAN, conflicts : Int, stabilize : Nat, flush : Nat,
                   elimbound : Nat, at : [TechniqueNames -> Nat]]
      /\ lim'.stabilize = lim.stabilize /\ lim'.at = lim.at
  BY <1>0, <1>8 DEF ScheduleTypeOK
<1>10. plan' = plan /\ incr' = incr /\ stable' = stable /\ reluctant' = reluctant /\ ran' = ran
  BY DEF PreprocessRound
<1>11. ScheduleTypeOK'
  <2>1. TechniqueNames' = TechniqueNames
    BY DEF TechniqueNames, NoCalls, Techniques
  <2> QED BY <1>0, <1>7, <1>9, <1>10, <2>1 DEF ScheduleTypeOK
<1>12. ASSUME NEW t, Exhausted(t) PROVE Exhausted(t)'
  BY <1>7, <1>9, <1>10, <1>12 DEF Exhausted, ModeSettled
<1>13. \A i \in 1 .. Len(ran) : Exhausted(ran[i])
  BY DEF ScheduleInv
<1>14. ASSUME NEW i \in 1 .. Len(ran), NEW x, x = ran[i] PROVE Exhausted(x)'
  BY <1>12, <1>13, <1>14
<1>15. \A i \in (1 .. Len(ran))' : Exhausted(ran[i])'
  BY <1>10, <1>14
<1> QED BY <1>10, <1>11, <1>15 DEF ScheduleInv, NoTechniqueTwice

(* A conflict begins anew, whether a clause is learned or not.             *)
LEMMA ConflictStep ==
    ASSUME ScheduleInv, NEW glue, NEW back, NEW unit,
           Conflict(glue, back, unit) \/ ForcedConflict(back, unit)
    PROVE  ScheduleInv'
<1>0. ScheduleTypeOK
  BY DEF ScheduleInv
<1>1. stats' \in [conflicts : Nat, calls : Nat, done : [TechniqueNames -> Nat]]
  <2>1. stats.conflicts + 1 \in Nat
    BY <1>0 DEF ScheduleTypeOK
  <2>2. stats' = [stats EXCEPT !.conflicts = stats.conflicts + 1]
    BY DEF Conflict, ForcedConflict
  <2> QED BY <1>0, <2>1, <2>2 DEF ScheduleTypeOK
<1>2. reluctant' \in [period : Nat, u : Nat, v : Nat, countdown : Nat, trigger : BOOLEAN]
  <2>1. CASE Conflict(glue, back, unit)
    BY <1>0, <2>1, TickType DEF Conflict, ScheduleTypeOK
  <2>2. CASE ForcedConflict(back, unit)
    BY <1>0, <2>2 DEF ForcedConflict, ScheduleTypeOK
  <2> QED BY <2>1, <2>2
<1>3. plan' = plan /\ lim' = lim /\ incr' = incr /\ stable' = stable /\ ran' = << >>
  BY DEF Conflict, ForcedConflict
<1>4. ScheduleTypeOK'
  <2>1. TechniqueNames' = TechniqueNames
    BY DEF TechniqueNames, NoCalls, Techniques
  <2>2. plan' \in Plans /\ stable' \in BOOLEAN /\ ran' \in Seq(TechniqueNames)
        /\ incr' \in [stabilize : Nat, flush : Nat]
    BY <1>0, <1>3 DEF ScheduleTypeOK
  <2>3. lim' \in [initialized : BOOLEAN, conflicts : Int, stabilize : Nat, flush : Nat,
                  elimbound : Nat, at : [TechniqueNames -> Nat]]
    BY <1>0, <1>3 DEF ScheduleTypeOK
  <2> QED BY <1>1, <1>2, <2>1, <2>2, <2>3 DEF ScheduleTypeOK
<1> QED BY <1>3, <1>4, NothingRan

(* A decision.                                                             *)
LEMMA DecideStep ==
    ASSUME ScheduleInv, Decide
    PROVE  ScheduleInv'
<1>0. ScheduleTypeOK
  BY DEF ScheduleInv
<1>1. lim' = LimNow /\ stats' = stats /\ reluctant' = reluctant /\ ran' = << >>
  BY DEF Decide
<1>2. lim' \in [initialized : BOOLEAN, conflicts : Int, stabilize : Nat, flush : Nat,
                elimbound : Nat, at : [TechniqueNames -> Nat]]
  BY <1>0, <1>1, LimNowIs
<1>3. plan' = plan /\ stable' \in BOOLEAN /\ incr' \in [stabilize : Nat, flush : Nat]
  BY <1>0, IterationType DEF Decide
<1>4. ScheduleTypeOK'
  <2>1. TechniqueNames' = TechniqueNames
    BY DEF TechniqueNames, NoCalls, Techniques
  <2>2. plan' \in Plans /\ ran' \in Seq(TechniqueNames)
    BY <1>0, <1>1, <1>3 DEF ScheduleTypeOK
  <2>3. stats' \in [conflicts : Nat, calls : Nat, done : [TechniqueNames -> Nat]]
    BY <1>0, <1>1 DEF ScheduleTypeOK
  <2>4. reluctant' \in [period : Nat, u : Nat, v : Nat, countdown : Nat, trigger : BOOLEAN]
    BY <1>0, <1>1 DEF ScheduleTypeOK
  <2> QED BY <1>2, <1>3, <2>1, <2>2, <2>3, <2>4 DEF ScheduleTypeOK
<1> QED BY <1>1, <1>4, NothingRan

(* Steps that leave limits, modes and counters alone.                      *)
LEMMA KeptStep ==
    ASSUME ScheduleInv, UNCHANGED <<plan, stats, lim, incr, stable, reluctant, ran>>
    PROVE  ScheduleInv'
<1>1. TechniqueNames' = TechniqueNames
  BY DEF TechniqueNames, NoCalls, Techniques
<1>2. ScheduleTypeOK'
  BY <1>1 DEF ScheduleInv, ScheduleTypeOK
<1>3. \A t : Exhausted(t)' <=> Exhausted(t)
  BY DEF Exhausted, ModeSettled
<1>4. ASSUME NEW i \in 1 .. Len(ran), NEW x, x = ran[i] PROVE Exhausted(x)'
  BY <1>3, <1>4 DEF ScheduleInv
<1>5. \A i \in (1 .. Len(ran))' : Exhausted(ran[i])'
  BY <1>4
<1> QED BY <1>2, <1>5 DEF ScheduleInv, NoTechniqueTwice

(* Before the first call.                                                  *)
LEMMA ScheduleInit ==
    ASSUME InitSchedule
    PROVE  ScheduleInv
<1>1. NoCalls \in [TechniqueNames -> Nat]
  BY DEF NoCalls, TechniqueNames
<1>2. plan \in Plans /\ ran = << >> /\ stable \in BOOLEAN
  BY DEF InitSchedule
<1>3. reluctant \in [period : Nat, u : Nat, v : Nat, countdown : Nat, trigger : BOOLEAN]
  <2>1. Enabled \in [period : Nat, u : Nat, v : Nat, countdown : Nat, trigger : BOOLEAN]
    BY <1>2, EnabledType
  <2>2. reluctant = [Enabled EXCEPT !.period = 0]
    BY DEF InitSchedule
  <2> HIDE DEF Enabled
  <2> QED BY <2>1, <2>2
<1>4. stats \in [conflicts : Nat, calls : Nat, done : [TechniqueNames -> Nat]]
  BY <1>1 DEF InitSchedule
<1>5. lim \in [initialized : BOOLEAN, conflicts : Int, stabilize : Nat, flush : Nat, elimbound : Nat,
               at : [TechniqueNames -> Nat]]
  BY <1>1 DEF InitSchedule
<1>6. incr \in [stabilize : Nat, flush : Nat]
  BY DEF InitSchedule
<1>7. ScheduleTypeOK
  BY <1>2, <1>3, <1>4, <1>5, <1>6 DEF ScheduleTypeOK
<1>8. ~\E i \in 1 .. Len(ran) : TRUE
  BY <1>2
<1> QED BY <1>7, <1>8 DEF ScheduleInv, NoTechniqueTwice

(* Every step keeps the invariant.                                         *)
LEMMA ScheduleStep ==
    ASSUME ScheduleInv, [NextSchedule]_scheduling
    PROVE  ScheduleInv'
<1>1. CASE \E pre \in BOOLEAN, n \in 0 .. plan.rounds, bound \in {-1} \cup plan.bounds :
              StartCall(pre, n, bound)
  BY <1>1, StartCallStep
<1>2. CASE \E complete, removed \in BOOLEAN : PreprocessRound(complete, removed)
  BY <1>2, PreprocessStep
<1>3. CASE StartSearch
  BY <1>3, KeptStep DEF StartSearch
<1>4. CASE \E back \in 0 .. depth - 1, unit \in BOOLEAN :
              (\E glue \in plan.glues : Conflict(glue, back, unit)) \/ ForcedConflict(back, unit)
  BY <1>4, ConflictStep
<1>5. CASE Contradiction
  BY <1>5, KeptStep DEF Contradiction
<1>6. CASE EndCall
  BY <1>6, KeptStep DEF EndCall
<1>7. CASE \E n \in 0 .. depth : Restart(n)
  BY <1>7, RestartStep
<1>8. CASE Rephase
  BY <1>8, PlainSteps
<1>9. CASE Reduce
  BY <1>9, ReduceStep
<1>10. CASE \E found \in BOOLEAN : Probe(found) \/ Subsume(found) \/ Elim(found)
  BY <1>10, PlainSteps, ElimStep
<1>11. CASE Compact \/ Condition
  BY <1>11, PlainSteps
<1>12. CASE Decide
  BY <1>12, DecideStep
<1>13. CASE UNCHANGED scheduling
  BY <1>13, KeptStep DEF scheduling
<1> QED BY <1>1, <1>2, <1>3, <1>4, <1>5, <1>6, <1>7, <1>8, <1>9, <1>10, <1>11, <1>12, <1>13
        DEF NextSchedule

(* Limits, modes and counters are what they should be, and whatever was    *)
(* called since the last conflict or decision is not due again             *)
(* (cdcl_loop_with_inprocessing and the updates of limits that end each    *)
(* technique).                                                             *)
THEOREM ScheduleInvariant == ScheduleSpec => []ScheduleInv
<1>1. InitSchedule => ScheduleInv
  BY ScheduleInit
<1>2. ScheduleInv /\ [NextSchedule]_scheduling => ScheduleInv'
  BY ScheduleStep
<1> QED BY <1>1, <1>2, PTL DEF ScheduleSpec

(* No technique is called twice between two conflicts or decisions         *)
(* (cdcl_loop_with_inprocessing).                                          *)
THEOREM NeverTwice == ScheduleSpec => []NoTechniqueTwice
<1>1. ScheduleInv => NoTechniqueTwice
  BY DEF ScheduleInv
<1> QED BY <1>1, ScheduleInvariant, PTL
=============================================================================
