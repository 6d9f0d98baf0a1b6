----------------------------- MODULE KissatWalk -----------------------------
(***************************************************************************)
(* Local search in Kissat (walk.c), which kissat_walk_initially starts     *)
(* before gates are extracted.  Each clause has a counter of its true      *)
(* literals, and the clauses whose counter is 0 are on a stack.  The best  *)
(* assignment is the saved phases with the first flips of a trail applied; *)
(* the trail is bounded, and flushed or given up when it is full.          *)
(*                                                                         *)
(* The clause that is picked depends on the number of flips, the literal   *)
(* is a choice.  Clauses satisfied on the root level are garbage, false    *)
(* literals of the root level have no value here.                          *)
(***************************************************************************)
EXTENDS Integers, Sequences, FiniteSets

CONSTANTS
    KissatWalks,    \* what is searched: records of the number vars of variables
                    \* 1 .. vars and the sequence clauses of clauses over them
    MaxSteps        \* bound on the number of steps: walker->limit

ASSUME KissatWalkAssumption ==
    /\ MaxSteps \in Nat
    /\ \A p \in KissatWalks :
          /\ p.vars \in Nat
          /\ p.clauses \in Seq((SUBSET ((-p.vars .. p.vars) \ {0})) \ {{}})
          /\ \A k \in DOMAIN p.clauses : \A l \in p.clauses[k] : -l \notin p.clauses[k]

INVALID_BEST == -1

VARIABLES
    input,      \* the member of KissatWalks
    values,     \* the literals that are true
    count,      \* true literals of each clause
    stack,      \* walker->unsat: numbers of the falsified clauses
    pos,        \* position of a clause on the stack, stale if it is not there
    minimum,    \* walker->minimum
    initial,    \* walker->initial
    flipTrail,  \* walker->trail
    best,       \* walker->best
    phases,     \* phases.saved as a set of literals
    steps,      \* number of steps, half of walker->flipped
    phase       \* "init", "walk", "done"

kissatWalker == <<input, values, count, stack, pos, minimum, initial, flipTrail, best,
                  phases, steps, phase>>

KissatClauses == DOMAIN input.clauses
TrueLits(k, A) == Cardinality(input.clauses[k] \cap A)
VarOf(l) == IF l < 0 THEN -l ELSE l
Phases(V) == {T \cup {-v : v \in V \ T} : T \in SUBSET V}

InitKissatWalk ==
    /\ input \in KissatWalks
    /\ phases \in Phases(1 .. input.vars)
    /\ values = {} /\ count = << >> /\ stack = << >> /\ pos = << >>
    /\ minimum = 0 /\ initial = 0
    /\ flipTrail = << >> /\ best = 0
    /\ steps = 0
    /\ phase = "init"

(* push_unsat *)
PushUnsat(s, k) == [stack |-> Append(s.stack, k), pos |-> [s.pos EXCEPT ![k] = Len(s.stack) + 1]]

(* pop_unsat: the last clause takes the place of the popped one. *)
PopUnsat(s, k) ==
    LET n == Len(s.stack)
        last == s.stack[n]
    IN  [stack |-> SubSeq([s.stack EXCEPT ![s.pos[k]] = last], 1, n - 1),
         pos |-> [s.pos EXCEPT ![last] = s.pos[k]]]

(* Op applied to the clauses S in the order of their numbers. *)
InOrder(s, S, Op(_, _)) ==
    LET upto[k \in Nat] ==
            IF k = 0 THEN s
            ELSE IF k \in S THEN Op(upto[k - 1], k) ELSE upto[k - 1]
    IN  upto[Len(input.clauses)]

(* init_walker with connect_binary_counters and connect_large_counters: the *)
(* values are the decision phases.                                         *)
InitWalker ==
    /\ phase = "init"
    /\ values' = phases
    /\ count' = [k \in KissatClauses |-> TrueLits(k, phases)]
    /\ LET S == {k \in KissatClauses : TrueLits(k, phases) = 0}
           s == InOrder([stack |-> << >>, pos |-> [k \in KissatClauses |-> 0]], S, PushUnsat)
       IN  /\ stack' = s.stack /\ pos' = s.pos
           /\ minimum' = Cardinality(S) /\ initial' = Cardinality(S)
    /\ phase' = "walk"
    /\ UNCHANGED <<input, flipTrail, best, phases, steps>>

(* pick_literal: the clause at walker->flipped, which is odd here. *)
Picked == stack[((2 * steps + 1) % Len(stack)) + 1]

(* The assignment A with l true instead of -l. *)
Turned(A, l) == (A \ {-l}) \cup {l}

(* flip_literal: make_clauses, then break_clauses. *)
FlipLiteral(l) ==
    LET With(x) == {k \in KissatClauses : x \in input.clauses[k]}
        made == InOrder([stack |-> stack, pos |-> pos], {k \in With(l) : count[k] = 0}, PopUnsat)
        s == InOrder(made, {k \in With(-l) : count[k] = 1}, PushUnsat)
    IN  /\ values' = Turned(values, l)
        /\ count' = [k \in KissatClauses |-> count[k] + (IF l \in input.clauses[k] THEN 1 ELSE 0)
                                                  - (IF -l \in input.clauses[k] THEN 1 ELSE 0)]
        /\ stack' = s.stack /\ pos' = s.pos

(* The phases A after the first n flips of the trail t. *)
Flipped(A, t, n) ==
    LET upto[k \in Nat] == IF k = 0 THEN A ELSE Turned(upto[k - 1], t[k])
    IN  upto[n]
Applied(n) == Flipped(phases, flipTrail, n)

(* Mutated form: a full trail is flushed as a whole. *)
PushFlippedFlushing(l) ==
    IF best = INVALID_BEST THEN [trail |-> flipTrail, best |-> best, saved |-> phases]
    ELSE IF Len(flipTrail) < input.vars \div 4 + 1
    THEN [trail |-> Append(flipTrail, l), best |-> best, saved |-> phases]
    ELSE IF best > 0
    THEN [trail |-> <<l>>, best |-> 0, saved |-> Applied(best)]
    ELSE [trail |-> << >>, best |-> INVALID_BEST, saved |-> phases]

(* push_flipped: the flip goes on the trail if there is room.  Of a full   *)
(* trail the flips up to the best assignment are saved (save_walker_trail); *)
(* if there are none the trail is given up.                                *)
PushFlipped(l) ==
    IF best = INVALID_BEST THEN [trail |-> flipTrail, best |-> best, saved |-> phases]
    ELSE IF Len(flipTrail) < input.vars \div 4 + 1
    THEN [trail |-> Append(flipTrail, l), best |-> best, saved |-> phases]
    ELSE IF best > 0
    THEN [trail |-> Append(SubSeq(flipTrail, best + 1, Len(flipTrail)), l), best |-> 0,
          saved |-> Applied(best)]
    ELSE [trail |-> << >>, best |-> INVALID_BEST, saved |-> phases]

(* local_search_step, with update_best: without a trail all values are     *)
(* saved.                                                                  *)
LocalSearchStep(l) ==
    /\ phase = "walk" /\ minimum > 0 /\ steps < MaxSteps
    /\ l \in input.clauses[Picked]
    /\ FlipLiteral(l)
    /\ LET p == PushFlipped(l)
           n == Len(stack')
       IN  /\ minimum' = IF n < minimum THEN n ELSE minimum
           /\ flipTrail' = p.trail
           /\ best' = IF n >= minimum THEN p.best
                      ELSE IF p.best = INVALID_BEST THEN 0 ELSE Len(p.trail)
           /\ phases' = IF n < minimum /\ p.best = INVALID_BEST THEN values' ELSE p.saved
    /\ steps' = steps + 1
    /\ UNCHANGED <<input, initial, phase>>

(* The limit is hit, the search is terminated, or nothing is falsified;    *)
(* save_final_minimum.                                                     *)
SaveFinalMinimum ==
    /\ phase = "walk"
    /\ phases' = IF minimum = initial \/ best \in {0, INVALID_BEST} THEN phases ELSE Applied(best)
    /\ phase' = "done"
    /\ UNCHANGED <<input, values, count, stack, pos, minimum, initial, flipTrail, best, steps>>

NextKissatWalk ==
    \/ InitWalker
    \/ \E l \in UNION {input.clauses[k] : k \in KissatClauses} : LocalSearchStep(l)
    \/ SaveFinalMinimum

-----------------------------------------------------------------------------
FalsifiedBy(A) == {k \in KissatClauses : TrueLits(k, A) = 0}

(* Counters and stack stay exact, and the saved phases together with the   *)
(* flips of the trail up to the best one falsify minimum clauses, as       *)
(* check_walk (walk.c:1027) tests at the end: flushing and giving up the   *)
(* trail never loses the best assignment.                                  *)
KissatWalkRight ==
    /\ phase = "walk" =>
          /\ \A k \in KissatClauses : count[k] = TrueLits(k, values)
          /\ {stack[n] : n \in DOMAIN stack} = FalsifiedBy(values)
          /\ \A n \in DOMAIN stack : pos[stack[n]] = n
          /\ Cardinality(FalsifiedBy(Applied(IF best = INVALID_BEST THEN 0 ELSE best))) = minimum
    /\ phase = "done" => Cardinality(FalsifiedBy(phases)) = minimum

-----------------------------------------------------------------------------
(* Why the stack and the saved phases are right: the inductive invariant.  *)
KissatWalkSpec == InitKissatWalk /\ [][NextKissatWalk]_kissatWalker

KissatWalkTypeOK ==
    /\ input \in KissatWalks /\ phase \in {"init", "walk", "done"}
    /\ {minimum, initial} \subseteq Nat /\ best \in Nat \cup {INVALID_BEST}
    /\ flipTrail \in Seq(Int) /\ steps \in Nat

Total(A) ==
    /\ A \subseteq (-input.vars .. input.vars) \ {0}
    /\ \A v \in 1 .. input.vars : v \in A <=> -v \notin A

(* A stack s.stack of the clauses in X, and where they are on it.          *)
StackOf(s, X) ==
    /\ s.stack \in Seq(KissatClauses) /\ s.pos \in [KissatClauses -> Nat]
    /\ {s.stack[n] : n \in 1 .. Len(s.stack)} = X
    /\ \A n \in 1 .. Len(s.stack) : s.pos[s.stack[n]] = n

(* The trail leads from the saved phases to the values, over the best      *)
(* assignment; without a trail the best one was saved.                     *)
TrailInv ==
    /\ IF best = INVALID_BEST THEN flipTrail = << >>
       ELSE best <= Len(flipTrail) /\ Applied(Len(flipTrail)) = values
    /\ Cardinality(FalsifiedBy(Applied(IF best = INVALID_BEST THEN 0 ELSE best))) = minimum
    /\ minimum <= initial /\ (best > 0 => minimum < initial)

KissatWalkInv ==
    /\ KissatWalkTypeOK
    /\ phase = "init" => Total(phases) /\ flipTrail = << >> /\ best = 0
    /\ phase = "walk" =>
          /\ Total(values)
          /\ count = [k \in KissatClauses |-> TrueLits(k, values)]
          /\ StackOf([stack |-> stack, pos |-> pos], FalsifiedBy(values))
          /\ minimum <= Len(stack)
          /\ TrailInv
    /\ phase = "done" => Cardinality(FalsifiedBy(phases)) = minimum
=============================================================================
