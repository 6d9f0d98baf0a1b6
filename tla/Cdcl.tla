-------------------------------- MODULE Cdcl --------------------------------
(***************************************************************************)
(* The CDCL loop of CaDiCaL: propagate, analyze, backtrack, decide and     *)
(* restart, with chronological backtracking, assumptions and a constraint, *)
(* and with the changes of this repository: BRANCHAUX never decides on an  *)
(* auxiliary variable and UIPAUX resolves auxiliary literals out of the    *)
(* learned clause.  A problem without auxiliary variables is solved as in  *)
(* the build without BRANCHAUX.                                            *)
(*                                                                         *)
(* Literals are non-zero integers, clauses are sets of literals.  The      *)
(* heuristics (which variable and phase to decide, the order of watch      *)
(* lists, when to restart, how far to jump back between the jump level and *)
(* the level below) are nondeterministic choices.  propagate visits every  *)
(* clause that has the negation of the propagated literal, and may pass    *)
(* one by as long as a later literal can be the watched one.               *)
(***************************************************************************)
EXTENDS Integers, Sequences, FiniteSets

CONSTANT Problems
                 \* what may be solved: records of a set vars of variables, a set
                 \* clauses of clauses with two or more literals, the sequence
                 \* units of literals assigned when unit clauses were added, the
                 \* set aux of auxiliary variables, the sequences assumptions and constraint
                 \* of literals, << >> if there are none, the set opts of enabled
                 \* options ("uipaux" if UIPAUX is defined), the value shrink of
                 \* opts.shrink, and the bound restarts on the number of restarts

LitsOver(V) == V \cup {-v : v \in V}

ASSUME CdclAssumption ==
    \A p \in Problems :
       /\ p.vars \subseteq Nat \ {0}
       /\ IsFiniteSet(p.vars)
       /\ p.aux \subseteq p.vars
       /\ \A c \in p.clauses : /\ c \subseteq LitsOver(p.vars)
                              /\ Cardinality(c) > 1
                              /\ \A l \in c : -l \notin c
       /\ p.units \in Seq(LitsOver(p.vars))
       /\ \A j, k \in DOMAIN p.units : j # k => p.units[j] \notin {p.units[k], -p.units[k]}
       /\ p.assumptions \in Seq(LitsOver(p.vars))
       /\ p.constraint \in Seq(LitsOver(p.vars))
       /\ p.opts \subseteq {"uipaux", "chrono", "minimize", "walk", "lucky"}
       /\ p.shrink \in 0 .. 3
       /\ p.restarts \in Nat

(* The null clause pointer: no conflict, no reason.                        *)
None == {}

VARIABLES
    problem,    \* the member of Problems that is solved
    learned,    \* the redundant clauses
    trail,      \* assigned literals in the order of assignment
    lev,        \* level of each assigned variable; stale when unassigned
    reason,     \* reason of each assigned variable, or None; stale likewise
    control,    \* one frame per decision level above the root
    propagated, \* number of literals of the trail that are propagated
    todo,       \* clauses left to visit for the literal being propagated
    conflict,   \* the conflict found by propagate, or None
    clause,     \* the clause under construction in analyze
    seen,       \* variables marked in analyze
    open,       \* seen variables of the conflict level not yet resolved
    uip,        \* the literal analyze resolves on, and last the first UIP
    idx,        \* position in the trail in the loops of analyze
    unsat,      \* the empty clause was learned
    result,     \* 0 while solving, then 10 or 20
    restarts,   \* number of restarts so far
    pc

assignment == <<trail, lev, reason, control, propagated>>
analysis == <<clause, seen, open, uip, idx>>
vars == <<problem, learned, trail, lev, reason, control, propagated, todo,
          conflict, clause, seen, open, uip, idx, unsat, result, restarts, pc>>

Vars == problem.vars
Lits == LitsOver(Vars)
Assumptions == problem.assumptions
Constraint == problem.constraint
UipAux == "uipaux" \in problem.opts
Chrono == "chrono" \in problem.opts
Minimize == "minimize" \in problem.opts
MaxRestarts == problem.restarts

Var(l) == IF l < 0 THEN -l ELSE l

level == Len(control)

(* The irredundant clauses. *)
formula == problem.clauses

Clauses == formula \cup learned

Assigned == {trail[k] : k \in 1 .. Len(trail)}
IsTrue(l) == l \in Assigned
IsFalse(l) == -l \in Assigned
IsUnassigned(l) == ~IsTrue(l) /\ ~IsFalse(l)

IsAux(v) == v \in problem.aux

Largest(S) == CHOOSE n \in S : \A m \in S : m <= n

-----------------------------------------------------------------------------
Init ==
    /\ problem \in Problems
    /\ learned = {}
    /\ trail = problem.units
    /\ lev = [v \in problem.vars \cup {0} |-> 0]
    /\ reason = [v \in problem.vars \cup {0} |-> None]
    /\ control = << >>
    /\ propagated = 0
    /\ todo = {}
    /\ conflict = None
    /\ clause = {} /\ seen = {} /\ open = 0 /\ uip = 0 /\ idx = 0
    /\ unsat = FALSE
    /\ result = 0
    /\ restarts = 0
    /\ pc = "propagate"

(* Mutated form: the level of a propagated literal is the current level. *)
AssignmentLevelCurrent(l, c, current) == IF c = None THEN 0 ELSE current

(* assignment_level, and the choice of the level in search_assign.  A      *)
(* literal without a reason clause is a unit: it gets level 0 even if it   *)
(* is assigned out of order.                                               *)
AssignmentLevel(l, c, current) ==
    IF c = None THEN 0
    ELSE IF Chrono THEN Largest({0} \cup {lev[Var(o)] : o \in c \ {l}})
    ELSE current

(* search_assign of literal l with reason c at level current, on trail t.  *)
SearchAssign(t, l, c, current) ==
    LET n == AssignmentLevel(l, c, current)
    IN  /\ trail' = Append(t, l)
        /\ lev' = [lev EXCEPT ![Var(l)] = n]
        /\ reason' = [reason EXCEPT ![Var(l)] = IF n = 0 THEN None ELSE c]

(* What backtrack to level n leaves on the trail: literals above n that    *)
(* were assigned out of order at level n or below stay, in their order.    *)
Kept(n) ==
    LET kept[k \in Nat] ==
            IF k = 0 THEN << >>
            ELSE IF k <= control[n + 1].trail \/ lev[Var(trail[k])] <= n
                 THEN Append(kept[k - 1], trail[k])
                 ELSE kept[k - 1]
    IN  IF n = level THEN trail ELSE kept[Len(trail)]

(* Mutated form: literals that stayed are not propagated again. *)
BacktrackKeepingReassigned(n) ==
    /\ control' = SubSeq(control, 1, n)
    /\ propagated' = IF propagated > Len(Kept(n)) THEN Len(Kept(n)) ELSE propagated

(* The rest of backtrack: literals that stayed are propagated again.       *)
BacktrackControl(n) ==
    /\ control' = SubSeq(control, 1, n)
    /\ propagated' = IF n < level /\ propagated > control[n + 1].trail
                     THEN control[n + 1].trail ELSE propagated

-----------------------------------------------------------------------------
(* propagate                                                               *)

PropagateLiteral ==
    /\ pc = "propagate"
    /\ conflict = None
    /\ propagated < Len(trail)
    /\ propagated' = propagated + 1
    /\ todo' = {c \in Clauses : -trail[propagated + 1] \in c}
    /\ pc' = "visit"
    /\ UNCHANGED <<problem, learned, trail, lev, reason, control, conflict,
                   analysis, unsat, result, restarts>>

(* The clause has a false literal that is still to be propagated, which    *)
(* may be the one that is watched.                                         *)
WatchedLater(c) == \E k \in propagated + 1 .. Len(trail) : -trail[k] \in c

(* One watch.  A binary conflict does not stop the loop before the next    *)
(* large clause.                                                           *)
VisitClause(c) ==
    /\ pc = "visit"
    /\ c \in todo
    /\ LET free == {l \in c : ~IsFalse(l)}
           large == Cardinality(c) > 2
           unit == \E l \in free : free = {l} /\ IsUnassigned(l)
           Nothing == UNCHANGED <<trail, lev, reason, conflict>>
       IN  \/ /\ large /\ conflict # None
              /\ todo' = {}
              /\ Nothing
           \/ /\ large /\ WatchedLater(c)
              /\ todo' = todo \ {c}
              /\ Nothing
           \/ /\ ~(large /\ conflict # None)
              /\ unit
              /\ \E l \in free : SearchAssign(trail, l, c, level)
              /\ todo' = todo \ {c}
              /\ UNCHANGED conflict
           \/ /\ ~(large /\ conflict # None)
              /\ free = {}
              /\ conflict' = c
              /\ todo' = IF large THEN {} ELSE todo \ {c}
              /\ UNCHANGED <<trail, lev, reason>>
           \/ /\ ~(large /\ conflict # None)
              /\ ~unit /\ free # {}
              /\ todo' = todo \ {c}
              /\ Nothing
    /\ UNCHANGED <<problem, learned, control, propagated, analysis, unsat,
                   result, restarts, pc>>

VisitEnd ==
    /\ pc = "visit"
    /\ todo = {}
    /\ pc' = "propagate"
    /\ UNCHANGED <<problem, learned, assignment, todo, conflict, analysis,
                   unsat, result, restarts>>

PropagateEnd ==
    /\ pc = "propagate"
    /\ conflict # None \/ propagated = Len(trail)
    /\ pc' = IF conflict # None THEN "analyze" ELSE "loop"
    /\ UNCHANGED <<problem, learned, assignment, todo, conflict, analysis,
                   unsat, result, restarts>>

-----------------------------------------------------------------------------
(* analyze                                                                 *)

ConflictLevel == Largest({lev[Var(l)] : l \in conflict})

HighestInConflict == {l \in conflict : lev[Var(l)] = ConflictLevel}

(* A single literal on the conflict level: find_conflict_level returns it  *)
(* as forced and the conflict itself becomes the driving clause.           *)
AnalyzeForced(l) ==
    /\ pc = "analyze"
    /\ Chrono
    /\ HighestInConflict = {l}
    /\ BacktrackControl(ConflictLevel - 1)
    /\ SearchAssign(Kept(ConflictLevel - 1), l, conflict, ConflictLevel - 1)
    /\ conflict' = None
    /\ pc' = "propagate"
    /\ UNCHANGED <<problem, learned, todo, analysis, unsat, result, restarts>>

RootConflict(n) == n = 0

(* Backtrack to the conflict level.  At the root the formula is            *)
(* unsatisfiable, otherwise the derivation of the first UIP starts at the  *)
(* end of the trail.                                                       *)
AnalyzeStart ==
    /\ pc = "analyze"
    /\ Chrono => Cardinality(HighestInConflict) # 1
    /\ LET n == IF Chrono THEN ConflictLevel ELSE level
       IN  /\ BacktrackControl(n)
           /\ trail' = Kept(n)
           /\ unsat' = RootConflict(n)
           /\ idx' = Len(Kept(n)) + 1
           /\ pc' = IF RootConflict(n) THEN "loop" ELSE "resolve"
    /\ UNCHANGED <<problem, learned, lev, reason, todo, conflict, clause, seen,
                   open, uip, result, restarts>>

(* analyze_literal for the literals of c: those not seen before and above  *)
(* the root level are marked, and those below the current level are added  *)
(* to the clause.                                                          *)
Unseen(c) == {l \in c : Var(l) \notin seen /\ lev[Var(l)] > 0}
Below(S) == {l \in S : lev[Var(l)] < level}

(* The loop ends at the first UIP; UIPAUX resolves on if that literal is   *)
(* auxiliary and has a reason.                                             *)
StopsAt(left, u) ==
    /\ left = 0
    /\ UipAux => ~IsAux(Var(u)) \/ reason[Var(u)] = None

(* One iteration of the loop: analyze_reason, then the next seen literal   *)
(* of the level on the trail.                                              *)
Resolve ==
    /\ pc = "resolve"
    /\ LET c    == (IF uip = 0 THEN conflict ELSE reason[Var(uip)]) \ {uip}
           new  == Unseen(c)
           pos  == Largest({k \in 1 .. idx - 1 :
                              /\ Var(trail[k]) \in seen \cup {Var(l) : l \in new}
                              /\ lev[Var(trail[k])] = level})
           left == open + Cardinality(new \ Below(new)) - 1
           u    == trail[pos]
           stop == StopsAt(left, u)
           all  == clause \cup Below(new) \cup (IF stop THEN {-u} ELSE {})
       IN  /\ seen' = seen \cup {Var(l) : l \in new}
           /\ clause' = all
           /\ open' = left
           /\ uip' = u
           /\ idx' = IF stop THEN 0 ELSE pos
           /\ pc' = IF ~stop THEN "resolve"
                    ELSE IF UipAux THEN "auxres"
                    ELSE IF Cardinality(all) > 1 THEN "minimize"
                    ELSE "learn"
    /\ UNCHANGED <<problem, learned, assignment, todo, conflict, unsat, result,
                   restarts>>

(* UIPAUX: an auxiliary literal of the clause is replaced by its reason,   *)
(* and erased if it has none.                                              *)
AuxResolve(l) ==
    /\ pc = "auxres"
    /\ l \in clause
    /\ IsAux(Var(l))
    /\ LET new == Unseen(reason[Var(l)])
       IN  /\ seen' = seen \cup {Var(o) : o \in new}
           /\ clause' = (clause \ {l}) \cup Below(new)
           /\ open' = open + Cardinality(new \ Below(new))
    /\ UNCHANGED <<problem, learned, assignment, todo, conflict, uip, idx,
                   unsat, result, restarts, pc>>

AuxResolveEnd ==
    /\ pc = "auxres"
    /\ \A l \in clause : ~IsAux(Var(l))
    /\ pc' = "learn"
    /\ UNCHANGED <<problem, learned, assignment, todo, conflict, analysis,
                   unsat, result, restarts>>

(* minimize_literal: t is implied through its reason by literals of R.  The *)
(* early aborts of the code only skip literals that are not.               *)
Removable(t, R) ==
    \/ lev[Var(t)] = 0
    \/ /\ reason[Var(t)] # None
       /\ lev[Var(t)] < level
       /\ \A o \in reason[Var(t)] \ {t} : -o \in R

(* The literals of the trail that the negations of C imply: reasons come   *)
(* earlier on the trail.                                                   *)
ImpliedBy(C) ==
    LET upto[k \in Nat] ==
            IF k = 0 THEN {}
            ELSE LET R == upto[k - 1]
                     t == trail[k]
                 IN  IF -t \in C \/ Removable(t, R) THEN R \cup {t} ELSE R
    IN  upto[Len(trail)]

(* minimize_clause: the literals that are not implied by others stay. *)
Minimized(C) == {l \in C : ~Removable(-l, ImpliedBy(C))}

(* Mutated form: literals of lower levels are not looked at. *)
ShrinkFailsNever(t, n, R) == FALSE

(* shrink_along_reason and shrink_literal: the reason of t, on level n,    *)
(* cannot be resolved because it is large, without full shrinking, or a    *)
(* literal of a lower level is not implied by the kept literals.           *)
ShrinkFails(t, n, R) ==
    \/ problem.shrink < 3 /\ Cardinality(reason[Var(t)]) > 2
    \/ \E o \in reason[Var(t)] \ {t} : lev[Var(o)] < n /\ -o \notin R

(* shrink_block: from the end of the trail down, the reasons of the open   *)
(* literals of level n are resolved until one of them is left: the UIP of  *)
(* the block.  None if this fails.                                         *)
BlockUip(block, n, R) ==
    LET walk[k \in Nat] ==
            IF k = 0 THEN {-l : l \in block}
            ELSE LET S == walk[k - 1]
                     t == trail[Len(trail) + 1 - k]
                 IN  IF t \notin S \/ Cardinality(S) = 1 THEN S
                     ELSE IF ShrinkFails(t, n, R) THEN None
                     ELSE (S \ {t}) \cup {-o : o \in {x \in reason[Var(t)] \ {t} :
                                                         lev[Var(x)] = n}}
    IN  walk[Len(trail)]

(* minimize_and_shrink_block: what replaces the literals of level n when   *)
(* the literals K of lower levels are kept.                                *)
ShrunkenBlock(block, n, K) ==
    IF Cardinality(block) < 2 THEN block
    ELSE LET u == BlockUip(block, n, ImpliedBy(K))
         IN  IF u # None THEN {-l : l \in u}
             ELSE IF Minimize THEN Minimized(K \cup block) \ K
             ELSE block

(* shrink_and_minimize_clause, from the lowest level to the highest. *)
Shrunken(C) ==
    LET upto[n \in Nat] ==
            IF n = 0 THEN {}
            ELSE LET K == upto[n - 1]
                 IN  K \cup ShrunkenBlock({l \in C : lev[Var(l)] = n}, n, K)
    IN  upto[level]

MinimizeClause ==
    /\ pc = "minimize"
    /\ clause' = IF problem.shrink > 0 THEN Shrunken(clause)
                 ELSE IF Minimize THEN Minimized(clause)
                 ELSE clause
    /\ pc' = "learn"
    /\ UNCHANGED <<problem, learned, assignment, todo, conflict, seen, open,
                   uip, idx, unsat, result, restarts>>

(* new_driving_clause: the level of the second literal in the order of     *)
(* levels, 0 for a unit and for the empty clause.                          *)
JumpLevel ==
    IF Cardinality(clause) < 2 THEN 0
    ELSE LET top == CHOOSE l \in clause :
                        \A o \in clause : lev[Var(o)] <= lev[Var(l)]
         IN  Largest({lev[Var(l)] : l \in clause \ {top}})

(* determine_actual_backtrack_level.  chronoalways and chronolevelim give  *)
(* the level below; the trail that chronoreusetrail keeps depends on the   *)
(* decision heuristic.                                                     *)
BacktrackLevels ==
    IF ~Chrono THEN {JumpLevel}
    ELSE IF JumpLevel < Len(Assumptions) THEN {JumpLevel, level - 1}
    ELSE JumpLevel .. level - 1

(* eagerly_subsume_recently_learned_clauses *)
EagerlySubsumed(driving) == {d \in learned : driving \subseteq d}

(* Learn the driving clause, backtrack, assign the flipped UIP, clear the  *)
(* analysis, and remove the learned clauses the new one subsumes.          *)
Learn(n) ==
    /\ pc = "learn"
    /\ n \in BacktrackLevels
    /\ LET driving == IF Cardinality(clause) > 1 THEN clause ELSE None
       IN  /\ learned' = IF driving = None THEN learned
                         ELSE (learned \ EagerlySubsumed(driving)) \cup {driving}
           /\ BacktrackControl(n)
           /\ SearchAssign(Kept(n), -uip, driving, n)
    /\ conflict' = None
    /\ clause' = {} /\ seen' = {} /\ open' = 0 /\ uip' = 0 /\ idx' = 0
    /\ pc' = "propagate"
    /\ UNCHANGED <<problem, todo, unsat, result, restarts>>

-----------------------------------------------------------------------------
(* The rest of cdcl_loop_with_inprocessing: answers, restart, decide.      *)

Answer(r) ==
    /\ result' = r
    /\ pc' = "done"
    /\ UNCHANGED <<problem, learned, assignment, todo, conflict, analysis,
                   unsat, restarts>>

AnswerUnsat ==
    /\ pc = "loop"
    /\ unsat
    /\ Answer(20)

(* Mutated form: no level is opened for the constraint. *)
NoConstraintLevel == 0

ConstraintLevels == IF Constraint = << >> THEN 0 ELSE 1

Satisfied ==
    /\ level >= Len(Assumptions) + ConstraintLevels
    /\ Len(trail) = Cardinality(Vars)

AnswerSat ==
    /\ pc = "loop"
    /\ ~unsat
    /\ Satisfied
    /\ Answer(10)

(* restart backtracks to a level reuse_trail chooses, never below the      *)
(* assumptions and the pseudo decision of a satisfied constraint.          *)
Restart(n) ==
    /\ pc = "loop"
    /\ ~unsat /\ ~Satisfied
    /\ restarts < MaxRestarts
    /\ level >= Len(Assumptions) + 2
    /\ n >= Len(Assumptions)
            + (IF control[Len(Assumptions) + 1].decision = 0 THEN 1 ELSE 0)
    /\ trail' = Kept(n)
    /\ BacktrackControl(n)
    /\ restarts' = restarts + 1
    /\ pc' = "propagate"
    /\ UNCHANGED <<problem, learned, lev, reason, todo, conflict, analysis,
                   unsat, result>>

(* rephase: back to the root, also below the assumptions.  The new phases  *)
(* are the choices of DecideVariable; walk is described in Walk.           *)
Rephase ==
    /\ pc = "loop"
    /\ ~unsat /\ ~Satisfied
    /\ restarts < MaxRestarts
    /\ trail' = Kept(0)
    /\ BacktrackControl(0)
    /\ restarts' = restarts + 1
    /\ pc' = "propagate"
    /\ UNCHANGED <<problem, learned, lev, reason, todo, conflict, analysis,
                   unsat, result>>

(* search_assume_decision; literal 0 is a pseudo decision.                 *)
NewLevel(l) == control' = Append(control, [decision |-> l, trail |-> Len(trail)])

AssumeDecision(l) ==
    /\ NewLevel(l)
    /\ trail' = Append(trail, l)
    /\ lev' = [lev EXCEPT ![Var(l)] = level + 1]
    /\ reason' = [reason EXCEPT ![Var(l)] = None]
    /\ pc' = "propagate"
    /\ UNCHANGED <<problem, learned, propagated, todo, conflict, analysis,
                   unsat, result, restarts>>

(* Mutated form: no level is opened. *)
PseudoDecisionKeepingLevel ==
    /\ pc' = "propagate"
    /\ UNCHANGED <<problem, learned, assignment, todo, conflict, analysis, unsat,
                   result, restarts>>

PseudoDecision ==
    /\ NewLevel(0)
    /\ pc' = "propagate"
    /\ UNCHANGED <<problem, learned, trail, lev, reason, propagated, todo,
                   conflict, analysis, unsat, result, restarts>>

Deciding == pc = "loop" /\ ~unsat /\ ~Satisfied

DecideAssumption ==
    /\ Deciding
    /\ level < Len(Assumptions)
    /\ LET l == Assumptions[level + 1]
       IN  \/ IsFalse(l) /\ Answer(20)
           \/ IsTrue(l) /\ PseudoDecision
           \/ IsUnassigned(l) /\ AssumeDecision(l)

(* The constraint is tried in order up to the first true literal; else its *)
(* first unassigned literal is decided; else it fails.                     *)
DecideConstraint ==
    /\ Deciding
    /\ level = Len(Assumptions) /\ Constraint # << >>
    /\ LET lits == {Constraint[k] : k \in 1 .. Len(Constraint)}
           free == {k \in 1 .. Len(Constraint) : IsUnassigned(Constraint[k])}
       IN  \/ (\E l \in lits : IsTrue(l)) /\ PseudoDecision
           \/ /\ ~ \E l \in lits : IsTrue(l)
              /\ \E k \in free : /\ \A m \in free : k <= m
                                 /\ AssumeDecision(Constraint[k])
           \/ (\A l \in lits : IsFalse(l)) /\ Answer(20)

Candidates == {v \in Vars : IsUnassigned(v) /\ ~IsAux(v)}

DecideVariable(v) ==
    /\ Deciding
    /\ level >= Len(Assumptions) + ConstraintLevels
    /\ v \in Candidates
    /\ AssumeDecision(v) \/ AssumeDecision(-v)

(* The search of a queue whose only auxiliary variable is unassigned       *)
(* returns 0, and decide puts literal 0 on the trail.  With two or more    *)
(* auxiliary variables the search does not return.                         *)
DecideNothing ==
    /\ Deciding
    /\ level >= Len(Assumptions) + ConstraintLevels
    /\ Candidates = {}
    /\ Cardinality(problem.aux) = 1
    /\ AssumeDecision(0)

Done == pc = "done" /\ UNCHANGED vars

PropagateSteps ==
    \/ PropagateLiteral
    \/ \E c \in todo : VisitClause(c)
    \/ VisitEnd
    \/ PropagateEnd

AnalyzeSteps ==
    \/ \E l \in conflict : AnalyzeForced(l)
    \/ AnalyzeStart
    \/ Resolve
    \/ \E l \in clause : AuxResolve(l)
    \/ AuxResolveEnd
    \/ MinimizeClause
    \/ \E n \in 0 .. level - 1 : Learn(n)

DecideSteps ==
    \/ DecideAssumption
    \/ DecideConstraint
    \/ \E v \in Vars : DecideVariable(v)
    \/ DecideNothing

Next ==
    \/ PropagateSteps
    \/ AnalyzeSteps
    \/ AnswerUnsat
    \/ AnswerSat
    \/ \E n \in 0 .. level : Restart(n)
    \/ Rephase
    \/ DecideSteps
    \/ Done

Spec == Init /\ [][Next]_vars

(* The loop is one thread that keeps running until it has an answer.       *)
FairSpec == Spec /\ WF_vars(Next)

-----------------------------------------------------------------------------
(* Semantics: a valuation makes a set of variables true.                   *)
Holds(m, l) == IF l > 0 THEN l \in m ELSE -l \notin m
Satisfies(m, c) == \E l \in c : Holds(m, l)
Models(f) == {m \in SUBSET Vars : \A c \in f : Satisfies(m, c)}
RootLiterals == {trail[k] : k \in {j \in 1 .. Len(trail) : lev[Var(trail[j])] = 0}}

(* The clauses as they were added. *)
Original == formula \cup {{problem.units[k]} : k \in DOMAIN problem.units}

(* Every learned clause and every root-level literal follows from the      *)
(* formula alone, not from assumptions or decisions: what DRAT checks.     *)
LearnedEntailed ==
    \A m \in Models(Original) :
        /\ \A c \in learned : Satisfies(m, c)
        /\ \A l \in RootLiterals : Holds(m, l)
        /\ ~unsat

(* An answer is right: 10 comes with a total assignment satisfying all     *)
(* clauses, the assumptions and the constraint, and 20 with no model of    *)
(* the formula that satisfies them.                                        *)
Query == Original \cup {{Assumptions[k]} : k \in 1 .. Len(Assumptions)}
         \cup (IF Constraint = << >> THEN {}
               ELSE {{Constraint[k] : k \in 1 .. Len(Constraint)}})

AnswerCorrect ==
    /\ result = 10 => \A c \in Query : \E l \in c : IsTrue(l)
    /\ result = 20 => Models(Query) = {}

(* When propagate ends without a conflict no clause is unit or falsified,  *)
(* although backtrack keeps literals assigned out of order.                *)
PropagationComplete ==
    pc = "loop" /\ ~unsat =>
        \A c \in Clauses : \/ \E l \in c : IsTrue(l)
                           \/ Cardinality({l \in c : IsUnassigned(l)}) > 1

(* The implication graph: a literal with a reason is the only one of the   *)
(* reason that is not false, it comes after all the others on the trail,   *)
(* and with chronological backtracking its level is the largest of theirs. *)
ImplicationGraph ==
    \A k \in 1 .. Len(trail) :
        LET t == trail[k]
            r == reason[Var(t)]
        IN  r # None =>
              /\ t \in r
              /\ \A o \in r \ {t} : \E j \in 1 .. k - 1 : trail[j] = -o
              /\ \E o \in r \ {t} : lev[Var(o)] = lev[Var(t)]
              /\ \A o \in r \ {t} : lev[Var(o)] <= lev[Var(t)]

(* analyze.cpp:753 assert (glue < size): every level seen in analysis is   *)
(* represented in the learned clause.                                      *)
GlueBelowSize ==
    pc = "learn" => Cardinality({lev[v] : v \in seen}) - 1 < Cardinality(clause)

(* The driving clause is asserting: after backtracking to any level that   *)
(* determine_actual_backtrack_level can return, all of its literals but    *)
(* the flipped UIP are still false, so that it implies that literal.       *)
LearnedAsserting ==
    pc = "learn" =>
        /\ -uip \in clause
        /\ \A n \in BacktrackLevels :
              /\ n < level
              /\ \A l \in clause \ {-uip} : lev[Var(l)] <= n /\ IsFalse(l)

(* What is learned is implied, and it drives the search on.                *)
LearnedRight == LearnedEntailed /\ LearnedAsserting

(* The solver answers.                                                     *)
Terminates == <>(result # 0)

=============================================================================
