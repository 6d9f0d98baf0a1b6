------------------------------ MODULE VmtfQueue ------------------------------
(***************************************************************************)
(* The VMTF decision queue of CaDiCaL (queue.hpp, queue.cpp), with the     *)
(* operations that change it: adding variables, bumping, assigning and     *)
(* unassigning, marking variables inactive and compacting, shuffling, and  *)
(* the search of next_decision_variable_on_queue (decide.cpp), which in    *)
(* the BRANCHAUX build moves every auxiliary variable it meets to the      *)
(* front of the list.                                                      *)
(*                                                                         *)
(* Aux is the set of gate outputs read by parse_aux; Aux = {} is the build *)
(* without BRANCHAUX, whose search loop is the same one without the move.  *)
(* Index 0 is the null link, an entry of links, btab and vals like any     *)
(* other: the BRANCHAUX search reads and writes it.                        *)
(*                                                                         *)
(* The rest of the solver is the environment: it may assign any unassigned *)
(* variable, and backtrack over any that is not fixed at the root level.   *)
(* The solver is at the root level exactly when assigned = fixed.          *)
(***************************************************************************)
EXTENDS Integers, FiniteSets

CONSTANTS
    Vars,       \* variable indices the solver may allocate
    Aux,        \* the auxiliary variables; {} without BRANCHAUX
    Reverse,    \* the values opts.reverse may have
    Shuffle,    \* how shuffling may go, by the shuffle options: "reverse", "random"
    MinBumped,  \* lower bound on queue.bumped when shuffling
    MaxBumped   \* bound on stats.bumped (INT64_MAX in analyze.cpp:42)

ASSUME QueueAssumption ==
    /\ Vars \subseteq Nat \ {0}
    /\ IsFiniteSet(Vars)
    /\ Aux \subseteq Vars
    /\ Reverse \subseteq BOOLEAN
    /\ Shuffle \subseteq {"reverse", "random"}
    /\ MinBumped \in Int
    /\ MaxBumped \in Nat

VARIABLES
    q,          \* links and the anchors of the list: prev, next, first, last
    enq,        \* the variables that are on the list
    btab,       \* bump time stamps
    unassigned, \* queue.unassigned
    bumped,     \* queue.bumped
    stamp,      \* stats.bumped
    assigned,   \* the variables with a value
    fixed,      \* the assigned variables whose value is a root-level unit
    inactive,   \* variables marked eliminated, substituted or pure
    pc,         \* where control is: "idle", "search", "decided", "compact"
    res,        \* the local of next_decision_variable_on_queue
    searched    \* its number of iterations so far

list == <<q, enq, btab>>
pointer == <<unassigned, bumped>>
values == <<assigned, fixed, inactive>>
search == <<pc, res, searched>>
vars == <<q, enq, btab, unassigned, bumped, stamp, assigned, fixed, inactive,
          pc, res, searched>>

Idx == Vars \cup {0}

IsAux(v) == v \in Aux

AtRoot == assigned = fixed

-----------------------------------------------------------------------------
(* The doubly linked list of queue.hpp.  The operators take the links and  *)
(* anchors as a record and return the updated one.                         *)

(* Mutated form: last is not updated. *)
DequeueKeepingLast(l, v) ==
    LET p == l.prev[v]
        n == l.next[v]
    IN  [prev  |-> IF n = 0 THEN l.prev ELSE [l.prev EXCEPT ![n] = p],
         next  |-> IF p = 0 THEN l.next ELSE [l.next EXCEPT ![p] = n],
         first |-> IF p = 0 THEN n ELSE l.first,
         last  |-> l.last]

Dequeue(l, v) ==
    LET p == l.prev[v]
        n == l.next[v]
    IN  [prev  |-> IF n = 0 THEN l.prev ELSE [l.prev EXCEPT ![n] = p],
         next  |-> IF p = 0 THEN l.next ELSE [l.next EXCEPT ![p] = n],
         first |-> IF p = 0 THEN n ELSE l.first,
         last  |-> IF n = 0 THEN p ELSE l.last]

Enqueue(l, v) ==
    [prev  |-> [l.prev EXCEPT ![v] = l.last],
     next  |-> [i \in Idx |-> IF i = v THEN 0
                              ELSE IF i = l.last /\ i # 0 THEN v
                              ELSE l.next[i]],
     first |-> IF l.last = 0 THEN v ELSE l.first,
     last  |-> v]

(* The reverse branch of init_enqueue puts a new variable before first.    *)
EnqueueFirst(l, v) ==
    [prev  |-> [i \in Idx |-> IF i = v THEN 0
                              ELSE IF i = l.first /\ i # 0 THEN v
                              ELSE l.prev[i]],
     next  |-> [l.next EXCEPT ![v] = l.first],
     first |-> v,
     last  |-> IF l.first = 0 THEN v ELSE l.last]

(* The BRANCHAUX search, after its dequeue, links the variable before      *)
(* first.  Unlike EnqueueFirst it never sets last, and when the list is    *)
(* empty it writes the prev link of the null entry.                        *)
MoveToFront(l, v) ==
    [prev  |-> [i \in Idx |-> IF i = v THEN 0
                              ELSE IF i = l.first THEN v
                              ELSE l.prev[i]],
     next  |-> [l.next EXCEPT ![v] = l.first],
     first |-> v,
     last  |-> l.last]

-----------------------------------------------------------------------------
EmptyList == [prev |-> [i \in Idx |-> 0], next |-> [i \in Idx |-> 0],
              first |-> 0, last |-> 0]

Init ==
    /\ q = EmptyList
    /\ enq = {}
    /\ btab = [i \in Idx |-> 0]
    /\ unassigned = 0
    /\ bumped = 0
    /\ stamp = 0
    /\ assigned = {}
    /\ fixed = {}
    /\ inactive = {}
    /\ pc = "idle"
    /\ res = 0
    /\ searched = 0

(* init_enqueue: init_queue adds the new variables at the root level in    *)
(* the order of their indices.  The branch is chosen by opts.reverse.      *)
InitEnqueueLast(v) ==
    /\ FALSE \in Reverse
    /\ stamp < MaxBumped
    /\ q' = Enqueue(q, v)
    /\ stamp' = stamp + 1
    /\ btab' = [btab EXCEPT ![v] = stamp + 1]
    /\ unassigned' = v
    /\ bumped' = stamp + 1

InitEnqueueFirst(v) ==
    /\ TRUE \in Reverse
    /\ q' = EnqueueFirst(q, v)
    /\ btab' = [btab EXCEPT ![v] = IF q.first = 0 THEN 0
                                   ELSE btab[q.first] - 1]
    /\ IF unassigned = 0
       THEN /\ unassigned' = q'.last
            /\ bumped' = btab'[q'.last]
       ELSE UNCHANGED pointer
    /\ UNCHANGED stamp

Known == enq \cup fixed \cup inactive

InitEnqueue(v) ==
    /\ pc = "idle" /\ AtRoot
    /\ v \notin Known
    /\ \A w \in Vars : w < v => w \in Known
    /\ InitEnqueueLast(v) \/ InitEnqueueFirst(v)
    /\ enq' = enq \cup {v}
    /\ UNCHANGED <<values, search>>

(* search_assign of a decision or of an implied variable.                  *)
Assign(v) ==
    /\ pc = "idle"
    /\ v \in enq \ assigned
    /\ assigned' = assigned \cup {v}
    /\ UNCHANGED <<list, pointer, stamp, fixed, inactive, search>>

(* search_assign at level 0: the variable becomes fixed.                   *)
AssignUnit(v) ==
    /\ pc = "idle"
    /\ v \in enq \ (assigned \cup inactive)
    /\ assigned' = assigned \cup {v}
    /\ fixed' = fixed \cup {v}
    /\ UNCHANGED <<list, pointer, stamp, inactive, search>>

(* Mutated form: queue.bumped is left alone. *)
UnassignKeepingBumped(v) ==
    /\ pc = "idle"
    /\ v \in assigned \ fixed
    /\ assigned' = assigned \ {v}
    /\ unassigned' = IF bumped < btab[v] THEN v ELSE unassigned
    /\ UNCHANGED <<list, bumped, stamp, fixed, inactive, search>>

Unassign(v) ==
    /\ pc = "idle"
    /\ v \in assigned \ fixed
    /\ assigned' = assigned \ {v}
    /\ IF bumped < btab[v]
       THEN unassigned' = v /\ bumped' = btab[v]
       ELSE UNCHANGED pointer
    /\ UNCHANGED <<list, stamp, fixed, inactive, search>>

(* Mutated form: the pointer is not moved to an unassigned variable. *)
BumpQueueKeepingPointer(v) ==
    /\ pc = "idle"
    /\ v \in enq \ fixed
    /\ ~IsAux(v)
    /\ q.next[v] # 0
    /\ stamp < MaxBumped
    /\ q' = Enqueue(Dequeue(q, v), v)
    /\ stamp' = stamp + 1
    /\ btab' = [btab EXCEPT ![v] = stamp + 1]
    /\ UNCHANGED <<enq, pointer, values, search>>

(* bump_queue, called by bump_variables for the analyzed variables.  They  *)
(* are never root-level (analyze_literal skips those), and BRANCHAUX       *)
(* leaves out the auxiliary ones.  A variable that is last already keeps   *)
(* its place and its stamp.                                                *)
BumpQueue(v) ==
    /\ pc = "idle"
    /\ v \in enq \ fixed
    /\ ~IsAux(v)
    /\ q.next[v] # 0
    /\ stamp < MaxBumped
    /\ q' = Enqueue(Dequeue(q, v), v)
    /\ stamp' = stamp + 1
    /\ btab' = [btab EXCEPT ![v] = stamp + 1]
    /\ IF v \in assigned THEN UNCHANGED pointer
       ELSE unassigned' = v /\ bumped' = stamp + 1
    /\ UNCHANGED <<enq, values, search>>

(* mark_eliminated, mark_substituted, mark_pure: at the root level.        *)
MarkInactive(v) ==
    /\ pc = "idle" /\ AtRoot
    /\ v \in enq \ (assigned \cup inactive)
    /\ inactive' = inactive \cup {v}
    /\ UNCHANGED <<list, pointer, stamp, assigned, fixed, search>>

(* reactivate: a literal of an eliminated variable is added again.         *)
Reactivate(v) ==
    /\ pc = "idle" /\ AtRoot
    /\ v \in enq \cap inactive
    /\ inactive' = inactive \ {v}
    /\ UNCHANGED <<list, pointer, stamp, assigned, fixed, search>>

-----------------------------------------------------------------------------
(* compact walks the list, skips the variables that are not active and     *)
(* links the others to each other, which unlinks the skipped ones.  When   *)
(* the walk is over it points unassigned to the last variable, but leaves  *)
(* queue.bumped as it was.  Renaming the variables that stay is monotone   *)
(* and does not change the list, so indices keep their names here.         *)
Flushed == enq \cap (fixed \cup inactive)

CompactStart ==
    /\ pc = "idle" /\ AtRoot
    /\ Flushed # {}
    /\ pc' = "compact"
    /\ UNCHANGED <<list, pointer, stamp, values, res, searched>>

CompactFlush(v) ==
    /\ pc = "compact"
    /\ v \in Flushed
    /\ \A w \in Flushed : btab[v] <= btab[w]
    /\ q' = Dequeue(q, v)
    /\ enq' = enq \ {v}
    /\ UNCHANGED <<btab, pointer, stamp, values, search>>

CompactEnd ==
    /\ pc = "compact"
    /\ Flushed = {}
    /\ unassigned' = q.last
    /\ pc' = "idle"
    /\ UNCHANGED <<list, bumped, stamp, values, res, searched>>

(* shuffle_queue, called by rephase after backtracking to the root level.  *)
(* Without shufflerandom it reverses the list.  With it, it puts all of    *)
(* 1 .. max_var on the list in any order, and so also the one fixed        *)
(* variable that compact kept an index for but took off the list.  r[v] is *)
(* the number of variables after v in the new list.                        *)
Ranks(S) == {r \in [S -> 0 .. Cardinality(S) - 1] :
                /\ \A k \in 0 .. Cardinality(S) - 1 : \E v \in S : r[v] = k
                /\ \A v, w \in S : r[v] = r[w] => v = w}

At(S, r, k) == IF \E v \in S : r[v] = k THEN CHOOSE v \in S : r[v] = k ELSE 0

Relink(l, S, r) ==
    [prev  |-> [i \in Idx |-> IF i \in S THEN At(S, r, r[i] + 1) ELSE l.prev[i]],
     next  |-> [i \in Idx |-> IF i \in S THEN At(S, r, r[i] - 1) ELSE l.next[i]],
     first |-> At(S, r, Cardinality(S) - 1),
     last  |-> At(S, r, 0)]

Reverses(r) == \A v, w \in enq : r[v] < r[w] <=> btab[v] < btab[w]

ShuffleQueue(S, r) ==
    /\ pc = "idle" /\ AtRoot
    /\ \/ "reverse" \in Shuffle /\ S = enq /\ Reverses(r)
       \/ "random" \in Shuffle /\ Cardinality(S \ enq) <= 1
    /\ bumped > MinBumped
    /\ q' = Relink(q, S, r)
    /\ enq' = S
    /\ btab' = [i \in Idx |-> IF i \in S THEN bumped - r[i] ELSE btab[i]]
    /\ unassigned' = q'.last
    /\ UNCHANGED <<bumped, stamp, values, search>>

-----------------------------------------------------------------------------
(* next_decision_variable_on_queue, one iteration of its loop per step.    *)

SearchStart ==
    /\ pc = "idle"
    /\ pc' = "search"
    /\ res' = unassigned
    /\ searched' = 0
    /\ UNCHANGED <<list, pointer, stamp, values>>

(* Mutated form: the walk does not advance past a variable it moves.       *)
SearchStepStaying ==
    /\ pc = "search"
    /\ res \in assigned \/ IsAux(res)
    /\ IF IsAux(res)
       THEN LET l == Dequeue(q, res)
            IN  /\ q' = MoveToFront(l, res)
                /\ btab' = [btab EXCEPT ![res] = btab[l.first] - 1]
                /\ UNCHANGED <<res, searched>>
       ELSE /\ UNCHANGED <<q, btab>>
            /\ res' = q.prev[res]
            /\ searched' = searched + 1
    /\ UNCHANGED <<enq, pointer, stamp, values, pc>>

SearchStep ==
    /\ pc = "search"
    /\ res \in assigned \/ IsAux(res)
    /\ res' = q.prev[res]
    /\ searched' = searched + 1
    /\ IF IsAux(res)
       THEN LET l == Dequeue(q, res)
            IN  /\ q' = MoveToFront(l, res)
                /\ btab' = [btab EXCEPT ![res] = btab[l.first] - 1]
       ELSE UNCHANGED <<q, btab>>
    /\ UNCHANGED <<enq, pointer, stamp, values, pc>>

SearchReturn ==
    /\ pc = "search"
    /\ res \notin assigned /\ ~IsAux(res)
    /\ IF searched > 0
       THEN unassigned' = res /\ bumped' = btab[res]
       ELSE UNCHANGED pointer
    /\ pc' = "decided"
    /\ UNCHANGED <<list, stamp, values, res, searched>>

(* decide assigns the result; reuse_trail only looks at its stamp.         *)
UseDecision ==
    /\ pc = "decided"
    /\ assigned' \in {assigned, assigned \cup ({res} \ {0})}
    /\ pc' = "idle"
    /\ res' = 0
    /\ searched' = 0
    /\ UNCHANGED <<list, pointer, stamp, fixed, inactive>>

-----------------------------------------------------------------------------
(* decide.cpp:149 "Requires that not all variables are assigned": decide   *)
(* and restart are only reached while satisfied fails.                     *)
NotSatisfied == enq \ assigned # {}

(* What the BRANCHAUX build needs instead: an unassigned input is left.    *)
InputLeft == enq \ (assigned \cup Aux) # {}

Environment ==
    \/ \E v \in Vars : \/ InitEnqueue(v)
                       \/ Assign(v)
                       \/ AssignUnit(v)
                       \/ Unassign(v)
                       \/ BumpQueue(v)
                       \/ MarkInactive(v)
                       \/ Reactivate(v)
                       \/ CompactFlush(v)
    \/ CompactStart
    \/ CompactEnd
    \/ \E S \in SUBSET Vars :
          /\ enq \subseteq S /\ S \subseteq enq \cup fixed
          /\ \E r \in Ranks(S) : ShuffleQueue(S, r)

Search == SearchStep \/ SearchReturn

Next ==
    \/ Environment
    \/ InputLeft /\ SearchStart
    \/ Search
    \/ UseDecision

Spec == Init /\ [][Next]_vars

(* The search is a loop of one thread: it keeps running until it returns.  *)
FairSpec == Spec /\ WF_vars(Search)

(* The callers as they are: BRANCHAUX leaves satisfied alone, so that the  *)
(* search also starts when only auxiliary variables are unassigned.        *)
CallersNext ==
    \/ Environment
    \/ NotSatisfied /\ SearchStart
    \/ Search
    \/ UseDecision

CallersSpec == Init /\ [][CallersNext]_vars

-----------------------------------------------------------------------------
Lists == [prev : [Idx -> Idx], next : [Idx -> Idx], first : Idx, last : Idx]

TypeOK ==
    /\ q \in Lists
    /\ enq \subseteq Vars
    /\ btab \in [Idx -> Int]
    /\ unassigned \in Idx
    /\ bumped \in Int
    /\ stamp \in Nat
    /\ assigned \subseteq Vars
    /\ fixed \subseteq assigned
    /\ inactive \subseteq Vars
    /\ pc \in {"idle", "search", "decided", "compact"}
    /\ res \in Idx
    /\ searched \in Nat

(* l is a doubly linked list of the variables in S, in the order of b:     *)
(* next and prev are inverse, the anchors are its ends, and following next *)
(* reaches the variable with the next larger stamp and skips none.         *)
Ordered(l, S, b) ==
    /\ l.first \in S \cup {0} /\ l.last \in S \cup {0}
    /\ l.first = 0 <=> S = {}
    /\ l.last = 0 <=> S = {}
    /\ \A v \in S :
          /\ l.next[v] \in S \cup {0} /\ l.prev[v] \in S \cup {0}
          /\ l.next[v] # 0 => l.prev[l.next[v]] = v /\ b[v] < b[l.next[v]]
          /\ l.prev[v] # 0 => l.next[l.prev[v]] = v
          /\ l.prev[v] = 0 <=> v = l.first
          /\ l.next[v] = 0 <=> v = l.last
    /\ \A v, w \in S : b[v] < b[w] =>
          /\ l.next[v] # 0 /\ b[l.next[v]] <= b[w]
          /\ l.prev[w] # 0 /\ b[v] <= b[l.prev[w]]
    /\ \A v, w \in S : b[v] = b[w] => v = w

(* queue.hpp:17 "VMTF decision queue ordered by 'bumped'": bumping, moving *)
(* auxiliary variables to the front, flushing and shuffling keep the list  *)
(* intact and sorted by stamp, at every iteration of the search.           *)
QueueOrdered == Ordered(q, enq, btab)

(* queue.hpp:26 "all variables after this one are assigned".  Between      *)
(* operations no unassigned variable is behind queue.unassigned, although  *)
(* unassign decides whether to move the pointer by comparing with          *)
(* queue.bumped, which compact leaves stale.                               *)
UnassignedPointer ==
    pc = "idle" =>
        \A v \in enq \ assigned : /\ unassigned \in enq
                                 /\ btab[v] <= btab[unassigned]

(* decide.cpp:5: the result of the search is the next decision variable:   *)
(* unassigned, not auxiliary, and no other such variable was bumped later. *)
NextDecision ==
    pc = "decided" =>
        /\ res \in enq \ (assigned \cup Aux)
        /\ \A v \in enq \ (assigned \cup Aux) : btab[v] <= btab[res]

(* restart.cpp:81 "assert (1 <= decision)": a search that starts while     *)
(* some variable is unassigned, as decide.cpp:149 asks for, returns one.   *)
(* The walk has no other end: a list whose inputs are all assigned leads   *)
(* to the null link.                                                       *)
DecisionIsVariable == pc = "decided" => 1 <= res

(* Why comparing with queue.bumped suffices: no stamp is ahead of          *)
(* stats.bumped; no unassigned variable has a stamp above queue.bumped;    *)
(* and no variable with a stamp up to queue.bumped is behind               *)
(* queue.unassigned.  The stamp of queue.unassigned itself differs from    *)
(* queue.bumped after compact, and when that variable is bumped.  At the   *)
(* root level some stamp is not above queue.bumped, so that a variable     *)
(* added at the front is not either.                                       *)
StampBound == bumped <= stamp /\ \A v \in enq : btab[v] <= stamp

PointerExact ==
    /\ enq # {} => \E v \in enq : btab[v] <= bumped \/ v \in assigned \ fixed
    /\ unassigned \in (IF enq = {} THEN {0} ELSE enq)
    /\ \A v \in enq \ assigned : btab[v] <= bumped
    /\ \A v \in enq : btab[v] <= bumped => btab[v] <= btab[unassigned]

SearchBehind ==
    /\ res \in enq
    /\ InputLeft
    /\ \A v \in enq \ assigned : btab[v] <= btab[res]
    /\ searched = 0 => PointerExact /\ unassigned = res

CompactBehind ==
    /\ AtRoot
    /\ \A v \in enq \ assigned : btab[v] <= bumped

(* The inductive invariant: every unassigned variable is reachable from    *)
(* queue.unassigned by prev links, at every point of every operation.      *)
QueueInv ==
    /\ TypeOK
    /\ QueueOrdered
    /\ StampBound
    /\ assigned \ fixed \subseteq enq
    /\ pc \in {"idle", "decided"} => PointerExact
    /\ pc = "search" => SearchBehind
    /\ pc = "compact" => CompactBehind
    /\ NextDecision

(* The search returns, and with it decide and restart.                     *)
SearchTerminates == pc = "search" ~> pc = "decided"

=============================================================================
