--------------------------- MODULE VmtfQueueProofs ---------------------------
(***************************************************************************)
(* Proofs about the VMTF decision queue, for every set of variables, every *)
(* set of auxiliary variables and every setting of the options.  First     *)
(* what each list operation does to a sorted list, then that every action  *)
(* preserves the inductive invariant QueueInv.                             *)
(***************************************************************************)
EXTENDS VmtfQueue, FiniteSetTheorems, TLAPS

(* Unlinking a variable leaves a sorted list of the others.                *)
LEMMA DequeueOrdered ==
    ASSUME NEW l \in Lists, NEW S \in SUBSET Vars, NEW b \in [Idx -> Int],
           NEW v \in S, Ordered(l, S, b)
    PROVE  Dequeue(l, v) \in Lists /\ Ordered(Dequeue(l, v), S \ {v}, b)
<1> DEFINE d == Dequeue(l, v)
           p == l.prev[v]
           n == l.next[v]
<1>0. 0 \notin Vars
  BY QueueAssumption
<1>1. d \in Lists
  BY <1>0 DEF Dequeue, Lists, Idx, Ordered
<1>2. d.first \in (S \ {v}) \cup {0} /\ d.last \in (S \ {v}) \cup {0}
  BY <1>0 DEF Dequeue, Lists, Idx, Ordered
<1>3. (d.first = 0 <=> S \ {v} = {}) /\ (d.last = 0 <=> S \ {v} = {})
  <2>1. \A w \in S \ {v} : b[w] < b[v] \/ b[v] < b[w]
    <3>1. \A u, w \in S : b[u] = b[w] => u = w
      BY DEF Ordered
    <3>2. \A w \in S : b[w] \in Int
      BY DEF Idx
    <3> QED
      BY <3>1, <3>2
  <2> QED
    BY <1>0, <2>1 DEF Dequeue, Lists, Idx, Ordered
<1>4. \A w \in S \ {v} :
          /\ d.next[w] = IF w = p THEN n ELSE l.next[w]
          /\ d.prev[w] = IF w = n THEN p ELSE l.prev[w]
  BY <1>0 DEF Dequeue, Lists, Idx, Ordered
<1>5. ASSUME NEW w \in S \ {v}
      PROVE  /\ d.next[w] \in (S \ {v}) \cup {0} /\ d.prev[w] \in (S \ {v}) \cup {0}
             /\ d.next[w] # 0 => d.prev[d.next[w]] = w /\ b[w] < b[d.next[w]]
             /\ d.prev[w] # 0 => d.next[d.prev[w]] = w
  BY <1>0, <1>4 DEF Lists, Idx, Ordered
<1>6. ASSUME NEW w \in S \ {v}
      PROVE  /\ d.prev[w] = 0 <=> w = d.first
             /\ d.next[w] = 0 <=> w = d.last
  BY <1>0, <1>4 DEF Dequeue, Lists, Idx, Ordered
<1>7. ASSUME NEW u \in S \ {v}, NEW w \in S \ {v}, b[u] < b[w]
      PROVE  /\ d.next[u] # 0 /\ b[d.next[u]] <= b[w]
             /\ d.prev[w] # 0 /\ b[u] <= b[d.prev[w]]
  <2>1. u \in Idx /\ w \in Idx /\ v \in Idx /\ b[u] \in Int /\ b[v] \in Int
        /\ b[w] \in Int /\ b[v] # b[w] /\ b[u] # b[v]
    BY DEF Idx, Ordered
  <2>0. \A x, y \in S : b[x] < b[y] => /\ b[l.next[x]] <= b[y]
                                       /\ b[x] <= b[l.prev[y]]
    BY DEF Ordered
  <2>2. d.next[u] # 0 /\ b[d.next[u]] <= b[w]
    <3>1. CASE u = p
      <4>1. l.next[u] = v
        BY <1>0, <3>1 DEF Ordered
      <4>2. b[v] < b[w]
        BY <1>7, <2>0, <2>1, <4>1
      <4> QED
        BY <1>4, <3>1, <4>2 DEF Ordered
    <3>2. CASE u # p
      BY <1>0, <1>4, <1>7, <2>1, <3>2 DEF Ordered
    <3> QED
      BY <3>1, <3>2
  <2>3. d.prev[w] # 0 /\ b[u] <= b[d.prev[w]]
    <3>1. CASE w = n
      <4>1. l.prev[w] = v
        BY <1>0, <3>1 DEF Ordered
      <4>2. b[u] < b[v]
        BY <1>7, <2>0, <2>1, <4>1
      <4> QED
        BY <1>4, <3>1, <4>2 DEF Ordered
    <3>2. CASE w # n
      BY <1>0, <1>4, <1>7, <2>1, <3>2 DEF Ordered
    <3> QED
      BY <3>1, <3>2
  <2> QED
    BY <2>2, <2>3
<1>8. \A u, w \in S \ {v} : b[u] = b[w] => u = w
  BY DEF Ordered
<1> QED
  BY <1>1, <1>2, <1>3, <1>5, <1>6, <1>7, <1>8 DEF Ordered

(* Appending a variable with the largest stamp gives a sorted list.        *)
LEMMA EnqueueOrdered ==
    ASSUME NEW l \in Lists, NEW S \in SUBSET Vars, NEW b \in [Idx -> Int],
           NEW v \in Vars \ S, NEW k \in Int, Ordered(l, S, b),
           \A w \in S : b[w] < k
    PROVE  /\ Enqueue(l, v) \in Lists
           /\ Ordered(Enqueue(l, v), S \cup {v}, [b EXCEPT ![v] = k])
<1> DEFINE e == Enqueue(l, v)
           c == [b EXCEPT ![v] = k]
<1>0. 0 \notin Vars
  BY QueueAssumption
<1>1. e \in Lists
  BY <1>0 DEF Enqueue, Lists, Idx
<1>2. /\ e.last = v /\ e.first = (IF S = {} THEN v ELSE l.first)
      /\ e.next[v] = 0 /\ e.prev[v] = l.last
      /\ \A w \in S : /\ e.next[w] = IF w = l.last THEN v ELSE l.next[w]
                      /\ e.prev[w] = l.prev[w]
  BY <1>0 DEF Enqueue, Lists, Idx, Ordered
<1>3. c[v] = k /\ \A w \in S : c[w] = b[w] /\ b[w] \in Int
  BY DEF Idx
<1>4. \A w \in S \cup {v} :
          /\ e.next[w] \in S \cup {v, 0} /\ e.prev[w] \in S \cup {v, 0}
          /\ e.next[w] # 0 => e.prev[e.next[w]] = w /\ c[w] < c[e.next[w]]
          /\ e.prev[w] # 0 => e.next[e.prev[w]] = w
          /\ e.prev[w] = 0 <=> w = e.first
          /\ e.next[w] = 0 <=> w = e.last
  BY <1>0, <1>2, <1>3 DEF Ordered
<1>5. ASSUME NEW u \in S \cup {v}, NEW w \in S \cup {v}, c[u] < c[w]
      PROVE  /\ e.next[u] # 0 /\ c[e.next[u]] <= c[w]
             /\ e.prev[w] # 0 /\ c[u] <= c[e.prev[w]]
  <2>1. u \in S
    BY <1>3, <1>5
  <2>2. \A x \in S : b[x] <= b[l.last] /\ l.last \in S
    BY DEF Ordered, Idx
  <2>3. CASE w = v
    BY <1>0, <1>2, <1>3, <1>5, <2>1, <2>2, <2>3 DEF Ordered
  <2>4. CASE w \in S
    BY <1>0, <1>2, <1>3, <1>5, <2>1, <2>2, <2>4 DEF Ordered
  <2> QED
    BY <2>3, <2>4
<1>6. \A u, w \in S \cup {v} : c[u] = c[w] => u = w
  BY <1>3 DEF Ordered
<1> QED
  BY <1>0, <1>1, <1>2, <1>4, <1>5, <1>6 DEF Ordered

(* Linking a variable with the smallest stamp before first gives a sorted  *)
(* list: the reverse branch of init_enqueue, and the BRANCHAUX search if   *)
(* another variable is on the list.                                        *)
LEMMA FrontOrdered ==
    ASSUME NEW l \in Lists, NEW S \in SUBSET Vars, NEW b \in [Idx -> Int],
           NEW v \in Vars \ S, NEW k \in Int, Ordered(l, S, b),
           S # {} => k < b[l.first]
    PROVE  /\ EnqueueFirst(l, v) \in Lists
           /\ MoveToFront(l, v) \in Lists
           /\ Ordered(EnqueueFirst(l, v), S \cup {v}, [b EXCEPT ![v] = k])
           /\ S # {} => Ordered(MoveToFront(l, v), S \cup {v}, [b EXCEPT ![v] = k])
<1> DEFINE c == [b EXCEPT ![v] = k]
<1>0. 0 \notin Vars
  BY QueueAssumption
<1>1. EnqueueFirst(l, v) \in Lists /\ MoveToFront(l, v) \in Lists
  BY <1>0 DEF EnqueueFirst, MoveToFront, Lists, Idx
<1>3. c[v] = k /\ \A w \in S : c[w] = b[w] /\ b[w] \in Int
  BY DEF Idx
<1>4. ASSUME NEW e \in Lists,
             e.first = v, e.last = (IF S = {} THEN v ELSE l.last),
             e.prev[v] = 0, e.next[v] = l.first,
             \A w \in S : /\ e.prev[w] = IF w = l.first THEN v ELSE l.prev[w]
                          /\ e.next[w] = l.next[w]
      PROVE  Ordered(e, S \cup {v}, c)
  <2>1. \A w \in S \cup {v} :
            /\ e.next[w] \in S \cup {v, 0} /\ e.prev[w] \in S \cup {v, 0}
            /\ e.next[w] # 0 => e.prev[e.next[w]] = w /\ c[w] < c[e.next[w]]
            /\ e.prev[w] # 0 => e.next[e.prev[w]] = w
            /\ e.prev[w] = 0 <=> w = e.first
            /\ e.next[w] = 0 <=> w = e.last
    BY <1>0, <1>3, <1>4 DEF Ordered
  <2>2. \A x \in S : b[l.first] <= b[x] /\ l.first \in S /\ k < b[x]
    BY <1>3 DEF Ordered, Idx
  <2>3. ASSUME NEW u \in S \cup {v}, NEW w \in S \cup {v}, c[u] < c[w]
        PROVE  /\ e.next[u] # 0 /\ c[e.next[u]] <= c[w]
               /\ e.prev[w] # 0 /\ c[u] <= c[e.prev[w]]
    <3>1. w \in S
      BY <1>3, <2>2, <2>3
    <3>2. CASE u = v
      BY <1>0, <1>3, <1>4, <2>2, <2>3, <3>1, <3>2 DEF Ordered
    <3>3. CASE u \in S
      BY <1>0, <1>3, <1>4, <2>2, <2>3, <3>1, <3>3 DEF Ordered
    <3> QED
      BY <3>2, <3>3
  <2>4. \A u, w \in S \cup {v} : c[u] = c[w] => u = w
    BY <1>3, <2>2 DEF Ordered
  <2> QED
    BY <1>0, <1>4, <2>1, <2>3, <2>4 DEF Ordered
<1>5. Ordered(EnqueueFirst(l, v), S \cup {v}, c)
  <2> DEFINE e == EnqueueFirst(l, v)
  <2>1. /\ e.first = v /\ e.last = (IF S = {} THEN v ELSE l.last)
        /\ e.prev[v] = 0 /\ e.next[v] = l.first
        /\ \A w \in S : /\ e.prev[w] = IF w = l.first THEN v ELSE l.prev[w]
                        /\ e.next[w] = l.next[w]
    BY <1>0 DEF EnqueueFirst, Lists, Idx, Ordered
  <2> QED
    BY <1>1, <1>4, <2>1
<1>6. ASSUME S # {} PROVE Ordered(MoveToFront(l, v), S \cup {v}, c)
  <2> DEFINE e == MoveToFront(l, v)
  <2>1. /\ e.first = v /\ e.last = (IF S = {} THEN v ELSE l.last)
        /\ e.prev[v] = 0 /\ e.next[v] = l.first
        /\ \A w \in S : /\ e.prev[w] = IF w = l.first THEN v ELSE l.prev[w]
                        /\ e.next[w] = l.next[w]
    BY <1>0, <1>6 DEF MoveToFront, Lists, Idx, Ordered
  <2> QED
    BY <1>1, <1>4, <2>1
<1> QED
  BY <1>1, <1>5, <1>6

(* Linking the variables in the order of any ranking, with stamps counted  *)
(* down from k, gives a sorted list that ends with the stamp k.            *)
LEMMA RelinkOrdered ==
    ASSUME NEW l \in Lists, NEW S \in SUBSET Vars, NEW b \in [Idx -> Int],
           NEW k \in Int, NEW r \in Ranks(S), IsFiniteSet(S)
    PROVE  /\ Relink(l, S, r) \in Lists
           /\ Ordered(Relink(l, S, r), S,
                      [i \in Idx |-> IF i \in S THEN k - r[i] ELSE b[i]])
           /\ \A v \in S : r[v] \in Nat
           /\ S # {} => r[Relink(l, S, r).last] = 0
<1> DEFINE e == Relink(l, S, r)
           c == [i \in Idx |-> IF i \in S THEN k - r[i] ELSE b[i]]
           n == Cardinality(S)
<1>0. 0 \notin Vars
  BY QueueAssumption
<1>1. n \in Nat /\ (n = 0 <=> S = {})
  BY FS_CardinalityType, FS_EmptySet
<1>2. /\ r \in [S -> 0 .. n - 1]
      /\ \A j \in 0 .. n - 1 : \E v \in S : r[v] = j
      /\ \A v, w \in S : r[v] = r[w] => v = w
  BY DEF Ranks
<1>3. \A j \in Int : j \in 0 .. n - 1 => At(S, r, j) \in S /\ r[At(S, r, j)] = j
  BY <1>2 DEF At
<1>4. \A j \in Int : j \notin 0 .. n - 1 => At(S, r, j) = 0
  BY <1>2 DEF At
<1>5. \A v \in S : r[v] \in Int /\ 0 <= r[v] /\ r[v] <= n - 1 /\ At(S, r, r[v]) = v
  BY <1>1, <1>2, <1>3
<1>6. /\ e.first = At(S, r, n - 1) /\ e.last = At(S, r, 0)
      /\ \A v \in S : e.prev[v] = At(S, r, r[v] + 1) /\ e.next[v] = At(S, r, r[v] - 1)
  BY <1>0 DEF Relink, Idx
<1>7. e \in Lists
  <2>1. \A j \in Int : At(S, r, j) \in Idx
    BY <1>3, <1>4 DEF Idx
  <2> QED
    BY <1>0, <1>1, <1>5, <2>1 DEF Relink, Lists, Idx
<1>8. \A v \in S : c[v] = k - r[v] /\ c[v] \in Int
  BY <1>5 DEF Idx
<1>9. ASSUME NEW v \in S
      PROVE  /\ e.next[v] \in S \cup {0} /\ e.prev[v] \in S \cup {0}
             /\ e.next[v] # 0 => e.prev[e.next[v]] = v /\ c[v] < c[e.next[v]]
             /\ e.prev[v] # 0 => e.next[e.prev[v]] = v
             /\ e.prev[v] = 0 <=> v = e.first
             /\ e.next[v] = 0 <=> v = e.last
  <2>1. CASE r[v] - 1 \in 0 .. n - 1
    BY <1>0, <1>1, <1>3, <1>4, <1>5, <1>6, <1>8, <2>1, SMTT(30)
  <2>2. CASE r[v] - 1 \notin 0 .. n - 1
    BY <1>0, <1>1, <1>3, <1>4, <1>5, <1>6, <1>8, <2>2
  <2> QED
    BY <2>1, <2>2
<1>10. ASSUME NEW v \in S, NEW w \in S, c[v] < c[w]
       PROVE  /\ e.next[v] # 0 /\ c[e.next[v]] <= c[w]
              /\ e.prev[w] # 0 /\ c[v] <= c[e.prev[w]]
  <2>1. r[w] < r[v]
    BY <1>5, <1>8, <1>10
  <2>2. r[v] - 1 \in 0 .. n - 1 /\ r[w] + 1 \in 0 .. n - 1
    BY <1>1, <1>5, <2>1
  <2>3. /\ e.next[v] \in S /\ r[e.next[v]] = r[v] - 1
        /\ e.prev[w] \in S /\ r[e.prev[w]] = r[w] + 1
    BY <1>3, <1>6, <2>2
  <2> QED
    BY <1>0, <1>5, <1>8, <2>1, <2>3
<1>11. \A v, w \in S : c[v] = c[w] => v = w
  BY <1>2, <1>5, <1>8
<1>12. /\ e.first \in S \cup {0} /\ e.last \in S \cup {0}
       /\ e.first = 0 <=> S = {}
       /\ e.last = 0 <=> S = {}
       /\ S # {} => r[e.last] = 0
  BY <1>0, <1>1, <1>3, <1>4, <1>6
<1>13. Ordered(e, S, c)
  <2> HIDE DEF e, c
  <2> QED
    BY <1>9, <1>10, <1>11, <1>12 DEF Ordered
<1>14. \A v \in S : r[v] \in Nat
  BY <1>5
<1> QED
  BY <1>7, <1>12, <1>13, <1>14

(* The initial state satisfies the invariant.                              *)
LEMMA InitInv == Init => QueueInv
<1> SUFFICES ASSUME Init PROVE QueueInv
  OBVIOUS
<1>1. TypeOK
  BY DEF Init, EmptyList, TypeOK, Lists, Idx
<1>2. QueueOrdered
  BY DEF Init, EmptyList, QueueOrdered, Ordered
<1> QED
  BY <1>1, <1>2 DEF Init, QueueInv, StampBound, PointerExact, NextDecision

(* Adding a variable, at either end.                                       *)
LEMMA InitEnqueueInv ==
    ASSUME QueueInv, NEW v \in Vars, InitEnqueue(v)
    PROVE  QueueInv'
<1> USE DEF QueueInv, InitEnqueue, values, search, pointer
<1>0. 0 \notin Vars /\ v \in Idx /\ 0 \in Idx
  BY QueueAssumption DEF Idx
<1>1. TypeOK /\ q \in Lists /\ enq \in SUBSET Vars /\ btab \in [Idx -> Int]
      /\ v \in Vars \ enq /\ Ordered(q, enq, btab) /\ stamp \in Nat
  BY DEF TypeOK, QueueOrdered, Known
<1>2. v \notin assigned
  BY DEF Known, AtRoot
<1>3. CASE InitEnqueueLast(v)
  <2> USE <1>3 DEF InitEnqueueLast
  <2>1. \A w \in enq : btab[w] < stamp + 1
    BY <1>1 DEF StampBound, TypeOK, Idx
  <2>2. q' \in Lists /\ Ordered(q', enq', btab')
    <3>1. stamp + 1 \in Int
      BY <1>1
    <3> QED
      BY <1>1, <2>1, <3>1, EnqueueOrdered
  <2>3. TypeOK'
    BY <1>0, <1>1, <2>2 DEF TypeOK
  <2>4. StampBound' /\ PointerExact'
    BY <1>0, <1>1, <2>1 DEF StampBound, PointerExact, TypeOK, Idx
  <2> QED
    BY <2>2, <2>3, <2>4 DEF QueueOrdered, NextDecision
<1>4. CASE InitEnqueueFirst(v)
  <2> USE <1>4 DEF InitEnqueueFirst
  <2> DEFINE k == IF q.first = 0 THEN 0 ELSE btab[q.first] - 1
  <2>1. /\ k \in Int
        /\ enq # {} => k < btab[q.first]
        /\ k <= stamp
        /\ btab' = [btab EXCEPT ![v] = k]
    BY <1>0, <1>1 DEF StampBound, TypeOK, Idx, Ordered, Lists
  <2>2. q' \in Lists /\ Ordered(q', enq', btab')
    <3>1. /\ q' = EnqueueFirst(q, v)
          /\ enq' = enq \cup {v}
      OBVIOUS
    <3> HIDE DEF k, QueueInv, InitEnqueue, InitEnqueueFirst
    <3>2. /\ EnqueueFirst(q, v) \in Lists
          /\ Ordered(EnqueueFirst(q, v), enq \cup {v}, [btab EXCEPT ![v] = k])
      BY <1>1, <2>1, FrontOrdered
    <3> QED
      BY <2>1, <3>1, <3>2
  <2>3. \A w \in enq : btab[q.first] <= btab[w] /\ q.first \in enq /\ btab'[w] = btab[w]
    BY <1>0, <1>1 DEF Ordered, Idx, Lists
  <2>4. q'.last = IF enq = {} THEN v ELSE q.last
    BY <1>1 DEF EnqueueFirst, Ordered
  <2>5. TypeOK'
    BY <1>0, <1>1, <2>1, <2>2 DEF TypeOK, Lists
  <2>6. StampBound'
    BY <1>0, <1>1, <2>1, <2>3, <2>4 DEF StampBound, PointerExact, TypeOK, Idx, Ordered
  <2>7. PointerExact'
    <3>1. CASE enq = {}
      BY <1>0, <1>1, <2>1, <2>4, <3>1 DEF PointerExact, TypeOK, Idx
    <3>2. CASE enq # {}
      <4>1. unassigned \in enq /\ unassigned' = unassigned /\ bumped' = bumped
        BY <1>0, <1>1, <3>2 DEF PointerExact
      <4>2. btab'[v] = k /\ k < btab[q.first] /\ btab[q.first] <= btab[unassigned]
        BY <1>0, <1>1, <2>1, <2>3, <3>2, <4>1
      <4>3. btab'[v] <= bumped
        <5>1. \E w \in enq : btab[w] <= bumped
          BY <3>2 DEF PointerExact, AtRoot
        <5> QED
          BY <1>1, <2>3, <4>2, <5>1 DEF TypeOK, Idx
      <4> QED
        BY <1>0, <1>1, <2>3, <4>1, <4>2, <4>3 DEF PointerExact, TypeOK, Idx
    <3> QED
      BY <3>1, <3>2
  <2> QED
    BY <2>2, <2>5, <2>6, <2>7 DEF QueueOrdered, NextDecision
<1> QED
  BY <1>3, <1>4

(* Assigning, unassigning, and changing the status of a variable leave the *)
(* list alone.                                                             *)
LEMMA ValuesInv ==
    ASSUME QueueInv, NEW v \in Vars,
           \/ Assign(v) \/ AssignUnit(v) \/ Unassign(v)
           \/ MarkInactive(v) \/ Reactivate(v)
    PROVE  QueueInv'
<1> USE DEF QueueInv, list, pointer, search
<1>0. 0 \notin Vars /\ v \in Idx /\ 0 \in Idx
  BY QueueAssumption DEF Idx
<1>1. CASE Assign(v)
  BY <1>0, <1>1 DEF Assign, TypeOK, QueueOrdered, StampBound, PointerExact, NextDecision
<1>2. CASE AssignUnit(v)
  BY <1>0, <1>2 DEF AssignUnit, TypeOK, QueueOrdered, StampBound, PointerExact, NextDecision
<1>3. CASE Unassign(v)
  <2> USE <1>3 DEF Unassign
  <2>1. v \in enq /\ btab[v] \in Int /\ bumped \in Int /\ PointerExact
    BY <1>0 DEF TypeOK
  <2>2. \A w \in enq : btab[w] \in Int
    BY DEF TypeOK, Idx
  <2>3. TypeOK' /\ QueueOrdered'
    BY <1>0 DEF TypeOK, QueueOrdered
  <2>4. StampBound'
    BY <2>1, <2>2 DEF StampBound
  <2>5. PointerExact'
    <3>1. CASE bumped < btab[v]
      BY <1>0, <2>1, <2>2, <3>1 DEF PointerExact
    <3>2. CASE ~ (bumped < btab[v])
      BY <1>0, <2>1, <2>2, <3>2 DEF PointerExact
    <3> QED
      BY <3>1, <3>2
  <2> QED
    BY <2>3, <2>4, <2>5 DEF NextDecision
<1>4. CASE MarkInactive(v)
  BY <1>0, <1>4 DEF MarkInactive, TypeOK, QueueOrdered, StampBound, PointerExact, NextDecision
<1>5. CASE Reactivate(v)
  BY <1>0, <1>5 DEF Reactivate, TypeOK, QueueOrdered, StampBound, PointerExact, NextDecision
<1> QED
  BY <1>1, <1>2, <1>3, <1>4, <1>5

(* Bumping takes a variable off the list and appends it with a new stamp.  *)
LEMMA BumpQueueInv ==
    ASSUME QueueInv, NEW v \in Vars, BumpQueue(v)
    PROVE  QueueInv'
<1> USE DEF QueueInv, BumpQueue, values, search, pointer
<1>0. 0 \notin Vars /\ v \in Idx /\ 0 \in Idx /\ v \in enq
  BY QueueAssumption DEF Idx
<1>1. q \in Lists /\ enq \in SUBSET Vars /\ btab \in [Idx -> Int]
      /\ Ordered(q, enq, btab) /\ stamp \in Nat /\ stamp + 1 \in Int /\ bumped \in Int
  BY DEF TypeOK, QueueOrdered
<1>2. \A w \in enq : btab[w] < stamp + 1 /\ btab[w] \in Int
  BY <1>1 DEF StampBound, Idx
<1>3. q' \in Lists /\ Ordered(q', enq', btab')
  <2>1. /\ q' = Enqueue(Dequeue(q, v), v)
        /\ enq' = enq
        /\ btab' = [btab EXCEPT ![v] = stamp + 1]
    OBVIOUS
  <2> HIDE DEF QueueInv, BumpQueue
  <2>2. Dequeue(q, v) \in Lists /\ Ordered(Dequeue(q, v), enq \ {v}, btab)
    BY <1>0, <1>1, DequeueOrdered
  <2> DEFINE d == Dequeue(q, v)
             S == enq \ {v}
  <2>3. S \in SUBSET Vars /\ v \in Vars \ S /\ \A w \in S : btab[w] < stamp + 1
    BY <1>1, <1>2
  <2>4. S \cup {v} = enq
    BY <1>0
  <2> HIDE DEF d, S
  <2>5. /\ Enqueue(d, v) \in Lists
        /\ Ordered(Enqueue(d, v), S \cup {v}, [btab EXCEPT ![v] = stamp + 1])
    <3>1. d \in Lists /\ Ordered(d, S, btab)
      BY <2>2 DEF d, S
    <3> QED
      BY <1>1, <2>3, <3>1, EnqueueOrdered
  <2> QED
    BY <2>1, <2>4, <2>5 DEF d
<1>4. TypeOK'
  BY <1>0, <1>1, <1>3 DEF TypeOK
<1>5. /\ btab'[v] = stamp + 1
      /\ \A w \in enq : w # v => btab'[w] = btab[w]
  BY <1>0, <1>1 DEF Idx
<1>6. StampBound'
  BY <1>0, <1>1, <1>2, <1>5 DEF StampBound
<1>7. PointerExact'
  <2>1. CASE v \in assigned
    BY <1>0, <1>1, <1>2, <1>5, <2>1 DEF PointerExact, StampBound
  <2>2. CASE v \notin assigned
    BY <1>0, <1>1, <1>2, <1>5, <2>2 DEF PointerExact, StampBound
  <2> QED
    BY <2>1, <2>2
<1> QED
  BY <1>3, <1>4, <1>6, <1>7 DEF QueueOrdered, NextDecision

(* Compaction flushes the inactive variables; when none is left, all those *)
(* on the list are unassigned and last is not behind queue.bumped.         *)
LEMMA CompactInv ==
    ASSUME QueueInv, CompactStart \/ CompactEnd \/ \E v \in Vars : CompactFlush(v)
    PROVE  QueueInv'
<1> USE DEF QueueInv, values, search, pointer, list
<1>0. 0 \notin Vars /\ 0 \in Idx /\ \A v \in enq : btab[v] \in Int
  BY QueueAssumption DEF Idx, TypeOK
<1>1. CASE CompactStart
  BY <1>0, <1>1 DEF CompactStart, TypeOK, QueueOrdered, StampBound, PointerExact,
                    CompactBehind, AtRoot, NextDecision
<1>2. CASE CompactEnd
  <2> USE <1>2 DEF CompactEnd
  <2>1. enq \cap assigned = {}
    BY DEF CompactBehind, AtRoot, Flushed
  <2>2. TypeOK' /\ QueueOrdered' /\ StampBound'
    BY <1>0 DEF TypeOK, QueueOrdered, StampBound, Lists
  <2>3. /\ enq # {} => q.last \in enq
        /\ enq = {} => q.last = 0
        /\ \A v \in enq : btab[v] <= btab[q.last]
    BY <1>0 DEF QueueOrdered, Ordered
  <2>4. PointerExact'
    BY <1>0, <2>1, <2>3 DEF PointerExact, CompactBehind
  <2> QED
    BY <2>2, <2>4 DEF NextDecision
<1>3. ASSUME NEW v \in Vars, CompactFlush(v) PROVE QueueInv'
  <2> USE <1>3 DEF CompactFlush
  <2>1. /\ q \in Lists /\ enq \in SUBSET Vars /\ btab \in [Idx -> Int]
        /\ v \in enq /\ Ordered(q, enq, btab)
    BY DEF TypeOK, QueueOrdered, Flushed
  <2>2. q' \in Lists /\ Ordered(q', enq', btab')
    BY <2>1, DequeueOrdered
  <2>3. TypeOK' /\ StampBound'
    BY <2>1, <2>2 DEF TypeOK, StampBound
  <2>4. CompactBehind' /\ (assigned \ fixed \subseteq enq)'
    BY DEF CompactBehind, AtRoot
  <2> QED
    BY <2>2, <2>3, <2>4 DEF QueueOrdered, NextDecision
<1> QED
  BY <1>1, <1>2, <1>3

(* Shuffling builds a new sorted list that ends with the stamp             *)
(* queue.bumped, and points queue.unassigned to its end.                   *)
LEMMA ShuffleInv ==
    ASSUME QueueInv, NEW S \in SUBSET Vars,
           enq \subseteq S, S \subseteq enq \cup fixed,
           NEW r \in Ranks(S), ShuffleQueue(S, r)
    PROVE  QueueInv'
<1> USE DEF QueueInv, ShuffleQueue, values, search
<1>0. 0 \notin Vars /\ 0 \in Idx /\ IsFiniteSet(S)
  BY QueueAssumption, FS_Subset DEF Idx
<1>1. q \in Lists /\ btab \in [Idx -> Int] /\ bumped \in Int /\ stamp \in Nat
  BY DEF TypeOK
<1>2. /\ q' = Relink(q, S, r) /\ enq' = S
      /\ btab' = [i \in Idx |-> IF i \in S THEN bumped - r[i] ELSE btab[i]]
      /\ unassigned' = q'.last
  OBVIOUS
<1>3. /\ q' \in Lists /\ Ordered(q', enq', btab')
      /\ \A v \in S : r[v] \in Nat
      /\ S # {} => r[q'.last] = 0
  <2> HIDE DEF QueueInv, ShuffleQueue
  <2>1. /\ Relink(q, S, r) \in Lists
        /\ Ordered(Relink(q, S, r), S,
                   [i \in Idx |-> IF i \in S THEN bumped - r[i] ELSE btab[i]])
        /\ \A v \in S : r[v] \in Nat
        /\ S # {} => r[Relink(q, S, r).last] = 0
    BY <1>0, <1>1, RelinkOrdered
  <2> QED
    BY <1>2, <2>1
<1>4. btab' \in [Idx -> Int] /\ \A v \in S : btab'[v] = bumped - r[v] /\ btab'[v] <= bumped
  BY <1>1, <1>3 DEF Idx
<1>5. TypeOK'
  BY <1>0, <1>1, <1>3, <1>4 DEF TypeOK, Lists
<1>6. StampBound'
  BY <1>1, <1>4, SMTT(30) DEF StampBound, TypeOK, Idx
<1>7. /\ S # {} => q'.last \in S /\ btab'[q'.last] = bumped
      /\ S = {} => q'.last = 0
  BY <1>1, <1>3, <1>4 DEF Ordered
<1>8. PointerExact'
  BY <1>1, <1>4, <1>7 DEF PointerExact
<1> QED
  BY <1>3, <1>5, <1>6, <1>8 DEF QueueOrdered, NextDecision

(* One iteration of the search.  The unassigned input that is left has a   *)
(* smaller stamp, so the walk does not fall off the list, and an auxiliary *)
(* variable moved to the front ends up below all the others.               *)
LEMMA SearchStepInv ==
    ASSUME QueueInv, SearchStep
    PROVE  QueueInv'
<1> USE DEF QueueInv, SearchStep, values, pointer
<1>0. 0 \notin Vars /\ 0 \in Idx
  BY QueueAssumption DEF Idx
<1>1. /\ q \in Lists /\ enq \in SUBSET Vars /\ btab \in [Idx -> Int]
      /\ Ordered(q, enq, btab) /\ stamp \in Nat /\ searched \in Nat /\ SearchBehind
      /\ res \in enq /\ res \in Idx
  BY DEF TypeOK, QueueOrdered, SearchBehind
<1>2. \A v \in enq : btab[v] \in Int
  BY <1>1 DEF Idx
<1>3. PICK x \in enq : x \notin assigned /\ x \notin Aux
  BY <1>1 DEF SearchBehind, InputLeft
<1>4. x # res /\ btab[x] < btab[res]
  <2>1. x # res
    BY <1>3 DEF IsAux
  <2>2. btab[x] <= btab[res]
    BY <1>1, <1>3 DEF SearchBehind
  <2>3. btab[x] # btab[res]
    BY <1>1, <1>3, <2>1 DEF Ordered
  <2> QED
    BY <1>1, <1>2, <2>1, <2>2, <2>3
<1>5. q.prev[res] \in enq /\ q.prev[res] # res /\ res' = q.prev[res]
  BY <1>0, <1>1, <1>2, <1>3, <1>4 DEF Ordered
<1>6. ASSUME NEW v \in enq \ assigned, v # res
      PROVE  btab[v] <= btab[q.prev[res]]
  <2>1. btab[v] <= btab[res]
    BY <1>1 DEF SearchBehind
  <2>2. btab[v] # btab[res]
    BY <1>1, <1>6 DEF Ordered
  <2>3. btab[v] < btab[res]
    BY <1>1, <1>2, <2>1, <2>2
  <2> QED
    BY <1>1, <2>3 DEF Ordered
<1>7. CASE ~IsAux(res)
  <2>1. q' = q /\ btab' = btab
    BY <1>7
  <2>2. TypeOK' /\ QueueOrdered' /\ StampBound'
    BY <1>1, <1>5, <2>1 DEF TypeOK, QueueOrdered, StampBound, Idx
  <2>3. SearchBehind'
    BY <1>1, <1>5, <1>6, <1>7, <2>1 DEF SearchBehind, InputLeft
  <2> QED
    BY <2>2, <2>3 DEF NextDecision
<1>8. CASE IsAux(res)
  <2> DEFINE d == Dequeue(q, res)
             S == enq \ {res}
             k == btab[d.first] - 1
  <2>1. /\ q' = MoveToFront(d, res)
        /\ btab' = [btab EXCEPT ![res] = k]
        /\ enq' = enq
    BY <1>8
  <2>2. d \in Lists /\ Ordered(d, S, btab)
    <3> HIDE DEF QueueInv, SearchStep
    <3> QED
      BY <1>1, DequeueOrdered
  <2>3. S \in SUBSET Vars /\ res \in Vars \ S /\ x \in S /\ S \cup {res} = enq
    BY <1>1, <1>3, <1>4
  <2> HIDE DEF d, S
  <2>4. d.first \in S /\ \A v \in S : btab[d.first] <= btab[v]
    BY <1>2, <2>2, <2>3 DEF Ordered, S
  <2>5. k \in Int /\ k < btab[d.first] /\ btab[d.first] \in Int
    BY <1>2, <2>4 DEF S
  <2> HIDE DEF k
  <2>6. q' \in Lists /\ Ordered(q', enq', btab')
    <3>1. /\ MoveToFront(d, res) \in Lists
          /\ Ordered(MoveToFront(d, res), S \cup {res}, [btab EXCEPT ![res] = k])
      <4> HIDE DEF QueueInv, SearchStep
      <4> QED
        BY <1>1, <2>2, <2>3, <2>5, FrontOrdered
    <3> QED
      BY <2>1, <2>3, <3>1
  <2>7. btab'[res] = k /\ \A v \in S : btab'[v] = btab[v] /\ k < btab[v]
    BY <1>1, <1>2, <2>1, <2>4, <2>5 DEF S, Idx
  <2>8. TypeOK'
    <3>1. btab' \in [Idx -> Int]
      BY <1>1, <2>1, <2>5
    <3>2. res' \in Idx /\ searched' \in Nat
      BY <1>1, <1>5 DEF Idx
    <3> QED
      BY <2>6, <3>1, <3>2 DEF TypeOK
  <2>9. StampBound'
    BY <1>1, <1>2, <2>1, <2>3, <2>4, <2>5, <2>7 DEF StampBound, S
  <2>10. SearchBehind'
    <3>1. q.prev[res] \in S
      BY <1>5 DEF S
    <3>2. \A v \in enq \ assigned : btab'[v] <= btab'[res']
      BY <1>2, <1>5, <1>6, <2>5, <2>7, <3>1 DEF S
    <3> QED
      BY <1>1, <1>5, <3>2 DEF SearchBehind, InputLeft
  <2> QED
    BY <2>6, <2>8, <2>9, <2>10 DEF QueueOrdered, NextDecision
<1> QED
  BY <1>7, <1>8

(* Starting the search, returning from it and using its result.            *)
LEMMA SearchEndsInv ==
    ASSUME QueueInv, (InputLeft /\ SearchStart) \/ SearchReturn \/ UseDecision
    PROVE  QueueInv'
<1> USE DEF QueueInv, values, pointer, list
<1>0. 0 \notin Vars /\ 0 \in Idx /\ \A v \in enq : btab[v] \in Int
  BY QueueAssumption DEF Idx, TypeOK
<1>1. CASE InputLeft /\ SearchStart
  <2> USE <1>1 DEF SearchStart
  <2>1. PointerExact /\ unassigned \in enq
    BY DEF PointerExact, InputLeft
  <2>2. SearchBehind'
    BY <1>0, <2>1 DEF SearchBehind, InputLeft, PointerExact
  <2> QED
    BY <2>2 DEF TypeOK, QueueOrdered, StampBound, NextDecision
<1>2. CASE SearchReturn
  <2> USE <1>2 DEF SearchReturn
  <2>1. SearchBehind /\ res \in enq /\ res \notin assigned /\ res \notin Aux
        /\ searched \in Nat
    BY DEF SearchBehind, IsAux, TypeOK
  <2>2. TypeOK' /\ QueueOrdered' /\ StampBound'
    BY <1>0, <2>1 DEF TypeOK, QueueOrdered, StampBound
  <2>3. PointerExact'
    <3>1. CASE searched > 0
      BY <1>0, <2>1, <3>1 DEF SearchBehind, PointerExact
    <3>2. CASE ~(searched > 0)
      BY <1>0, <2>1, <3>2 DEF SearchBehind, PointerExact
    <3> QED
      BY <3>1, <3>2
  <2>4. NextDecision'
    BY <1>0, <2>1 DEF NextDecision, SearchBehind
  <2> QED
    BY <2>2, <2>3, <2>4
<1>3. CASE UseDecision
  <2> USE <1>3 DEF UseDecision
  <2>1. PointerExact /\ res \in enq
    BY DEF NextDecision
  <2>2. assigned \subseteq assigned' /\ assigned' \subseteq assigned \cup {res}
    OBVIOUS
  <2>3. TypeOK' /\ QueueOrdered' /\ StampBound' /\ NextDecision'
    BY <1>0, <2>1, <2>2 DEF TypeOK, QueueOrdered, StampBound, NextDecision
  <2>4. PointerExact'
    BY <1>0, <2>1, <2>2 DEF PointerExact
  <2> QED
    BY <2>1, <2>2, <2>3, <2>4
<1> QED
  BY <1>1, <1>2, <1>3

(* Every step of the solver preserves the invariant.                       *)
LEMMA NextInv == QueueInv /\ [Next]_vars => QueueInv'
<1> SUFFICES ASSUME QueueInv, [Next]_vars PROVE QueueInv'
  OBVIOUS
<1>1. CASE Environment
  <2>1. CASE \E v \in Vars : InitEnqueue(v)
    BY <2>1, InitEnqueueInv
  <2>2. CASE \E v \in Vars : \/ Assign(v) \/ AssignUnit(v) \/ Unassign(v)
                             \/ MarkInactive(v) \/ Reactivate(v)
    BY <2>2, ValuesInv
  <2>3. CASE \E v \in Vars : BumpQueue(v)
    BY <2>3, BumpQueueInv
  <2>4. CASE CompactStart \/ CompactEnd \/ \E v \in Vars : CompactFlush(v)
    BY <2>4, CompactInv
  <2>5. CASE \E S \in SUBSET Vars :
                /\ enq \subseteq S /\ S \subseteq enq \cup fixed
                /\ \E r \in Ranks(S) : ShuffleQueue(S, r)
    BY <2>5, ShuffleInv
  <2> QED
    BY <1>1, <2>1, <2>2, <2>3, <2>4, <2>5 DEF Environment
<1>2. CASE SearchStep
  BY <1>2, SearchStepInv
<1>3. CASE (InputLeft /\ SearchStart) \/ SearchReturn \/ UseDecision
  BY <1>3, SearchEndsInv
<1>4. CASE UNCHANGED vars
  <2> USE <1>4 DEF vars
  <2>1. TypeOK' /\ QueueOrdered' /\ StampBound' /\ NextDecision'
    BY DEF QueueInv, TypeOK, QueueOrdered, StampBound, NextDecision
  <2>2. /\ (pc \in {"idle", "decided"} => PointerExact)'
        /\ (pc = "search" => SearchBehind)'
        /\ (pc = "compact" => CompactBehind)'
        /\ (assigned \ fixed \subseteq enq)'
    BY DEF QueueInv, PointerExact, SearchBehind, CompactBehind, InputLeft, AtRoot
  <2> QED
    BY <2>1, <2>2 DEF QueueInv
<1> QED
  BY <1>1, <1>2, <1>3, <1>4 DEF Next, Search

(* The invariant holds in every reachable state: whatever the variables,   *)
(* the auxiliary variables and the options are, the list is intact and     *)
(* sorted at every step of every operation of the queue.                   *)
THEOREM QueueCorrect == Spec => []QueueInv
<1>1. Init => QueueInv
  BY InitInv
<1>2. QueueInv /\ [Next]_vars => QueueInv'
  BY NextInv
<1> QED
  BY <1>1, <1>2, PTL DEF Spec

(* queue.hpp:17: the queue stays ordered by bump stamp.                    *)
THEOREM QueueStaysOrdered == Spec => []QueueOrdered
<1>1. QueueInv => QueueOrdered
  BY DEF QueueInv
<1> QED
  BY <1>1, QueueCorrect, PTL

(* queue.hpp:26: no unassigned variable is behind queue.unassigned.        *)
THEOREM UnassignedPointerCorrect == Spec => []UnassignedPointer
<1>1. QueueInv => UnassignedPointer
  <2> SUFFICES ASSUME QueueInv, pc = "idle", NEW v \in enq \ assigned
               PROVE  unassigned \in enq /\ btab[v] <= btab[unassigned]
    BY DEF UnassignedPointer
  <2> QED
    BY DEF QueueInv, PointerExact
<1> QED
  BY <1>1, QueueCorrect, PTL

(* decide.cpp:5: while an unassigned input is left, the search returns the *)
(* most recently bumped one.                                               *)
THEOREM NextDecisionCorrect == Spec => []NextDecision
<1>1. QueueInv => NextDecision
  BY DEF QueueInv
<1> QED
  BY <1>1, QueueCorrect, PTL

=============================================================================
