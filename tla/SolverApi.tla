----------------------------- MODULE SolverApi -----------------------------
(***************************************************************************)
(* The library interface of CaDiCaL: class Solver and, below it, class     *)
(* External and the parts of class Internal that carry state from one call *)
(* to the next.  What the search itself does is the subject of Cdcl and    *)
(* Inprocessing; here it is a procedure that walks through the stages of   *)
(* Internal::solve and answers for the clauses, the assumptions and the    *)
(* constraint that it finds in the solver's own data, which need not be    *)
(* those its user believes to be there.                                    *)
(*                                                                         *)
(* A call is an action, but for solve, which other threads see running:    *)
(* they may call terminate between any two of its steps.  The internal     *)
(* literals are the external ones (compacting is in Storage).              *)
(***************************************************************************)
EXTENDS ClauseDb

CONSTANTS
    Vars,       \* the variables that calls mention
    UIntMax,    \* UINT_MAX: a reference counter that reaches it stays there
    MaxForce    \* bound on the calls to terminate from other threads

ASSUME ApiAssumption ==
    /\ Vars \subseteq Nat \ {0} /\ IsFiniteSet(Vars)
    /\ UIntMax \in Nat \ {0} /\ MaxForce \in Nat

VARIABLES
    state,      \* of class Solver
    adding,     \* [clause, constraint]: adding_clause and adding_constraint
    formula,    \* the clauses that were added
    original,   \* the literals of the clause that is being added
    assumptions,
    constraint, \* [lits, all, closed, unsat]: the literals left and all that were given;
                \* unsat is unsat_constraint
    known,      \* the variables up to max_var that were initialised
    frozen,     \* [user, internal]: the two tables of reference counters
    limits,     \* [conflicts, terminate, preprocessing, localsearch]: given for the next call
    root,       \* [units, unsat]: what is known on the root level
    trail,      \* [model, core]: assignment above the root level after an answer
    failed,     \* assumptions marked as failed by failing
    stage,      \* where solve is, "idle" outside
    result,     \* 0, 10 or 20
    simplifying,\* preprocess_only
    forced,     \* termination_forced
    terminator, \* of the callback: "none", "quiet" or "up"
    forces      \* calls to terminate so far

core == <<state, adding, formula, original, assumptions, constraint, known,
          frozen, limits, root, trail, failed>>
job == <<stage, result, simplifying>>
async == <<forced, terminator, forces>>

READY == {"CONFIGURING", "UNKNOWN", "SATISFIED", "UNSATISFIED"}
VALID == READY \cup {"ADDING"}

NoLimits == [conflicts |-> -1, terminate |-> 0, preprocessing |-> 0, localsearch |-> 0]
NoConstraint == [lits |-> {}, all |-> {}, closed |-> FALSE, unsat |-> FALSE]
NoTrail == [model |-> {}, core |-> {}]

Init ==
    /\ state = "CONFIGURING"
    /\ adding = [clause |-> FALSE, constraint |-> FALSE]
    /\ formula = {} /\ original = {}
    /\ assumptions = {} /\ constraint = NoConstraint
    /\ known = {}
    /\ frozen = [user |-> [v \in Vars |-> 0], internal |-> [v \in Vars |-> 0]]
    /\ limits = NoLimits
    /\ root = [units |-> {}, unsat |-> FALSE]
    /\ trail = NoTrail /\ failed = {}
    /\ stage = "idle" /\ result = 0 /\ simplifying = FALSE
    /\ forced = FALSE /\ terminator = "none" /\ forces = 0

-----------------------------------------------------------------------------
(* Reference counters, which never leave UINT_MAX and wrap below zero; and *)
(* the loops that freeze and melt each of the literals S.                  *)
Freeze(t, l) == [t EXCEPT ![Var(l)] = IF @ < UIntMax THEN @ + 1 ELSE @]
Melt(t, l) == [t EXCEPT ![Var(l)] = IF @ < UIntMax THEN (@ + UIntMax) % (UIntMax + 1) ELSE @]

Occurrences(S, v) == Cardinality({l \in S : Var(l) = v})
FreezeAll(t, S) ==
    [v \in Vars |-> IF t[v] + Occurrences(S, v) < UIntMax THEN t[v] + Occurrences(S, v) ELSE UIntMax]
MeltAll(t, S) ==
    [v \in Vars |-> IF t[v] < UIntMax /\ Occurrences(S, v) <= t[v]
                    THEN t[v] - Occurrences(S, v) ELSE UIntMax]

(* transition_to_unknown_state: an answer takes the assumptions and the    *)
(* constraint that led to it along.                                        *)
Answered == state \in {"SATISFIED", "UNSATISFIED"}

KeptAssumptions == IF Answered THEN {} ELSE assumptions
KeptConstraint == IF Answered THEN NoConstraint ELSE constraint

(* Mutated form: the constraint is dropped and stays frozen. *)
KeptCountersAssumed ==
    IF Answered THEN MeltAll(frozen.internal, assumptions) ELSE frozen.internal

KeptCounters ==
    IF Answered THEN MeltAll(MeltAll(frozen.internal, assumptions), constraint.lits)
    ELSE frozen.internal

(* The state, the assumptions, the constraint and the counters after a     *)
(* call.  Failed assumptions are marked in UNSATISFIED states only.        *)
Become(s, A, c, t) ==
    /\ state' = s
    /\ assumptions' = A
    /\ constraint' = c
    /\ frozen' = [frozen EXCEPT !.internal = t]
    /\ failed' = {}

(* internalize: init_vars backtracks if the variable is new. *)
UpTo(n) == {v \in Vars : v <= n}
Internalize(n) ==
    /\ known' = known \cup UpTo(n)
    /\ trail' = IF UpTo(n) \subseteq known THEN trail ELSE NoTrail

-----------------------------------------------------------------------------
(* Solver::add *)
AddLit(l) ==
    /\ state \in VALID
    /\ Become("ADDING", KeptAssumptions, KeptConstraint, KeptCounters)
    /\ adding' = [adding EXCEPT !.clause = TRUE]
    /\ original' = original \cup {l}
    /\ Internalize(Var(l))
    /\ UNCHANGED <<formula, limits, root, job, async>>

(* The state is UNKNOWN after the transition, and it is not set back to    *)
(* ADDING when only a constraint is still open.                            *)
AddZero ==
    /\ state \in VALID
    /\ Become("UNKNOWN", KeptAssumptions, KeptConstraint, KeptCounters)
    /\ adding' = [adding EXCEPT !.clause = FALSE]
    /\ formula' = formula \cup IF \E l \in original : -l \in original THEN {} ELSE {original}
    /\ root' = [root EXCEPT !.unsat = @ \/ original = {}]
    /\ original' = {}
    /\ trail' = NoTrail
    /\ UNCHANGED <<known, limits, job, async>>

(* Solver::constrain.  A literal after a complete constraint starts anew.  *)
Renewed == IF KeptConstraint.closed THEN NoConstraint ELSE KeptConstraint
RenewedCounters ==
    IF KeptConstraint.closed THEN MeltAll(KeptCounters, KeptConstraint.lits) ELSE KeptCounters

ConstrainLit(l) ==
    /\ state \in VALID
    /\ Become("ADDING", KeptAssumptions, [Renewed EXCEPT !.lits = @ \cup {l}, !.all = @ \cup {l}], RenewedCounters)
    /\ adding' = [adding EXCEPT !.constraint = TRUE]
    /\ Internalize(Var(l))
    /\ UNCHANGED <<formula, original, limits, root, job, async>>

(* Internal::constrain (0) drops what the root units decide and freezes    *)
(* the literals that are left.                                             *)
ConstrainZero ==
    LET left == Live(root.units, Renewed.lits)
        true == Sat(root.units, Renewed.lits) \/ \E l \in left : -l \in left
        lits == IF true THEN {} ELSE left
    IN  /\ state \in VALID
        /\ Become("UNKNOWN", KeptAssumptions,
                  [lits |-> lits, all |-> Renewed.all, closed |-> TRUE,
                   unsat |-> ~true /\ left = {}],
                  FreezeAll(RenewedCounters, lits))
        /\ adding' = [adding EXCEPT !.constraint = FALSE]
        /\ trail' = NoTrail
        /\ UNCHANGED <<formula, original, known, limits, root, job, async>>

(* Solver::assume, not only in READY states. *)
Assume(l) ==
    /\ state \in VALID
    /\ Become("UNKNOWN", KeptAssumptions \cup {l}, KeptConstraint,
              IF l \in KeptAssumptions THEN KeptCounters ELSE Freeze(KeptCounters, l))
    /\ Internalize(Var(l))
    /\ UNCHANGED <<adding, formula, original, limits, root, job, async>>

(* Solver::reserve. *)
Reserve(n) ==
    /\ state \in VALID
    /\ Become("UNKNOWN", KeptAssumptions, KeptConstraint, KeptCounters)
    /\ Internalize(n)
    /\ UNCHANGED <<adding, formula, original, limits, root, job, async>>

(* Solver::reset_assumptions and Solver::reset_constraint. *)
ResetAssumptions ==
    /\ state \in VALID
    /\ Become("UNKNOWN", {}, KeptConstraint, MeltAll(KeptCounters, KeptAssumptions))
    /\ UNCHANGED <<adding, formula, original, known, limits, root, trail, job, async>>

ResetConstraint ==
    /\ state \in VALID
    /\ Become("UNKNOWN", KeptAssumptions, NoConstraint, MeltAll(KeptCounters, KeptConstraint.lits))
    /\ UNCHANGED <<adding, formula, original, known, limits, root, trail, job, async>>

(* Solver::freeze and Solver::melt leave the state alone, and the trail    *)
(* unless the variable is new.                                             *)
FreezeVar(v) ==
    /\ state \in VALID
    /\ frozen' = [user |-> Freeze(frozen.user, v), internal |-> Freeze(frozen.internal, v)]
    /\ Internalize(v)
    /\ UNCHANGED <<state, adding, formula, original, assumptions, constraint, limits, root,
                   failed, job, async>>

MeltVar(v) ==
    /\ state \in VALID
    /\ frozen.user[v] > 0
    /\ frozen' = [user |-> Melt(frozen.user, v), internal |-> Melt(frozen.internal, v)]
    /\ UNCHANGED <<state, adding, formula, original, assumptions, constraint, known, limits,
                   root, trail, failed, job, async>>

(* Solver::limit: negative numbers of rounds are ignored. *)
SetLimit(name, n) ==
    /\ state \in VALID
    /\ name \in {"preprocessing", "localsearch"} => n >= 0
    /\ limits' = [limits EXCEPT ![name] = n]
    /\ UNCHANGED <<state, adding, formula, original, assumptions, constraint, known, frozen,
                   root, trail, failed, job, async>>

(* Solver::failed: the first call analyses the trail that is there. *)
QueryFailed ==
    /\ state = "UNSATISFIED"
    /\ failed' = trail.core
    /\ UNCHANGED <<state, adding, formula, original, assumptions, constraint, known, frozen,
                   limits, root, trail, job, async>>

(* Solver::connect_terminator, disconnect_terminator, and the callback     *)
(* that starts to ask for termination.                                     *)
ConnectTerminator ==
    /\ state \in VALID
    /\ terminator' = IF terminator = "none" THEN "quiet" ELSE terminator
    /\ UNCHANGED <<core, job, forced, forces>>

DisconnectTerminator ==
    /\ state \in VALID
    /\ terminator' = "none"
    /\ UNCHANGED <<core, job, forced, forces>>

TerminatorAsks ==
    /\ terminator = "quiet"
    /\ terminator' = "up"
    /\ UNCHANGED <<core, job, forced, forces>>

(* Solver::terminate, from another thread. *)
Terminate ==
    /\ state \in VALID \cup {"SOLVING"}
    /\ forces < MaxForce
    /\ forces' = forces + 1
    /\ forced' = TRUE
    /\ UNCHANGED <<core, job, terminator>>

-----------------------------------------------------------------------------
(* What propagation and preprocessing may find out on the root level.      *)
Unsat(S) == Models(UNION {VarsOf(c) : c \in S}, S) = {}
Propagated == root.units \cup Closure(formula, root.units)
Backbone == {l \in LitsOver(known) : Unsat(formula \cup {{-l}})}
RootAfter(U) ==
    IF \E l \in U : -l \in U THEN [root EXCEPT !.unsat = TRUE]
    ELSE IF Conflict(formula, U) THEN [root EXCEPT !.unsat = TRUE]
    ELSE [root EXCEPT !.units = U]

(* The assumptions and the constraint as the solver has them. *)
Units(S) == {{l} : l \in S}
Constraint == IF constraint.lits = {} THEN {} ELSE {constraint.lits}

(* Mutated form: the constraint is never decided. *)
QueryAssumed == formula \cup Units(assumptions)

Query == formula \cup Units(assumptions) \cup Constraint

ToStage(s) == stage' = s
Finish(r) == result' = r /\ ToStage("reset")

(* A step of solve leaves the state and what the user gave alone. *)
KeepsUserData ==
    UNCHANGED <<state, adding, formula, original, assumptions, known, frozen, limits, failed,
                simplifying, terminator, forces>>

(* Mutated form: the flag is not looked at. *)
AskedOthers == terminator = "up" \/ limits.terminate > 0

(* terminated_asynchronously, which remembers why it says yes. *)
Asked == forced \/ terminator = "up" \/ limits.terminate > 0

(* Solver::solve and Solver::simplify, up to Internal::solve. *)
StartSolve(pre, rounds) ==
    /\ state \in READY
    /\ Become("SOLVING", KeptAssumptions, KeptConstraint, KeptCounters)
    /\ limits' = IF pre THEN [limits EXCEPT !.preprocessing = rounds] ELSE limits
    /\ simplifying' = pre
    /\ stage' = "already_solved"
    /\ result' = 0
    /\ UNCHANGED <<adding, formula, original, known, root, trail, async>>

AlreadySolved ==
    /\ stage = "already_solved"
    /\ IF root.unsat \/ constraint.unsat
       THEN Finish(20) /\ UNCHANGED <<root, trail>>
       ELSE /\ trail' = NoTrail
            /\ root' = RootAfter(Propagated)
            /\ IF root'.unsat THEN Finish(20)
               ELSE IF known = {} THEN Finish(10)
               ELSE ToStage("preprocess") /\ UNCHANGED result
    /\ UNCHANGED <<constraint, forced>> /\ KeepsUserData

(* Restoring clauses is in Inprocessing.  A round finds nothing, or all    *)
(* units, or is left early because termination was asked for.              *)
Preprocess ==
    /\ stage = "preprocess"
    /\ \/ root' = root
       \/ limits.preprocessing > 0 /\ root' = RootAfter(Backbone)
    /\ forced' \in IF limits.preprocessing > 0 /\ Asked THEN {forced, TRUE} ELSE {forced}
    /\ IF root'.unsat THEN Finish(20)
       ELSE IF simplifying THEN Finish(0)
       ELSE ToStage("local_search") /\ UNCHANGED result
    /\ UNCHANGED <<constraint, trail>> /\ KeepsUserData

(* The answers that the search may give. *)
AnswerSat(S) ==
    /\ Finish(10)
    /\ \E m \in Models(known, S) : trail' = [model |-> m, core |-> {}]
    /\ UNCHANGED <<root, constraint>>

AnswerFailed ==
    /\ Finish(20)
    /\ \E A \in SUBSET assumptions :
           /\ Unsat(formula \cup Units(A))
           /\ trail' = [model |-> {}, core |-> A]
    /\ UNCHANGED <<root, constraint>>

AnswerConstraint ==
    /\ constraint.lits # {}
    /\ Finish(20)
    /\ \E A \in SUBSET assumptions :
           /\ Unsat(formula \cup Units(A) \cup Constraint)
           /\ trail' = [model |-> {}, core |-> A]
    /\ constraint' = [constraint EXCEPT !.unsat = TRUE]
    /\ UNCHANGED root

AnswerUnsat ==
    /\ Unsat(formula)
    /\ Finish(20)
    /\ root' = [root EXCEPT !.unsat = TRUE]
    /\ trail' = NoTrail
    /\ UNCHANGED constraint

LocalSearch ==
    /\ stage = "local_search"
    /\ \/ /\ ToStage("lucky_phases")
          /\ forced' \in IF limits.localsearch > 0 /\ Asked THEN {forced, TRUE} ELSE {forced}
          /\ UNCHANGED <<root, trail, constraint, result>>
       \/ /\ limits.localsearch > 0 /\ constraint.lits = {}
          /\ AnswerSat(Query) \/ AnswerFailed \/ AnswerUnsat
          /\ UNCHANGED forced
    /\ KeepsUserData

LuckyPhases ==
    /\ stage = "lucky_phases"
    /\ \/ /\ ToStage("search")
          /\ forced' \in IF Asked THEN {forced, TRUE} ELSE {forced}
          /\ UNCHANGED <<root, trail, constraint, result>>
       \/ /\ assumptions = {} /\ constraint.lits = {}
          /\ AnswerSat(formula)
          /\ UNCHANGED forced
    /\ KeepsUserData

(* cdcl_loop_with_inprocessing: an answer, or a limit, or termination. *)
SearchAnswer ==
    /\ stage = "search"
    /\ AnswerSat(Query) \/ AnswerFailed \/ AnswerConstraint \/ AnswerUnsat
    /\ UNCHANGED forced /\ KeepsUserData

SearchLimit ==
    /\ stage = "search"
    /\ limits.conflicts >= 0
    /\ Finish(0)
    /\ UNCHANGED <<root, trail, constraint, forced>> /\ KeepsUserData

SearchTerminated ==
    /\ stage = "search"
    /\ Asked
    /\ forced' = TRUE
    /\ Finish(0)
    /\ UNCHANGED <<root, trail, constraint>> /\ KeepsUserData

(* reset_solving tests the flag and clears it: two accesses. *)
ResetSolving ==
    /\ stage = "reset"
    /\ ToStage(IF forced THEN "clear" ELSE "return")
    /\ UNCHANGED <<root, trail, constraint, forced, result>> /\ KeepsUserData

(* Mutated form: the flag is left set. *)
ClearForcedNot ==
    /\ stage = "clear"
    /\ ToStage("return")
    /\ UNCHANGED <<root, trail, constraint, forced, result>> /\ KeepsUserData

ClearForced ==
    /\ stage = "clear"
    /\ ToStage("return")
    /\ forced' = FALSE
    /\ UNCHANGED <<root, trail, constraint, result>> /\ KeepsUserData

(* The checks of External::solve on its own data: a model, or that what is *)
(* marked as failed is a core, for which it marks failed assumptions.      *)
CheckSatisfiable ==
    /\ VarsOf(trail.model) = known
    /\ \A c \in formula : Sat(trail.model, c)
    /\ assumptions \subseteq trail.model
    /\ constraint.closed => Sat(trail.model, constraint.all)

CheckFailing ==
    assumptions # {} \/ constraint.closed =>
        Unsat(formula \cup Units(trail.core)
              \cup IF constraint.unsat THEN {constraint.all} ELSE {})

CheckSolveResult ==
    /\ result = 10 => CheckSatisfiable
    /\ result = 20 => CheckFailing

(* Back through External::solve and call_external_solve_and_check_results. *)
(* A check that fails ends the program.                                    *)
Return ==
    /\ stage = "return"
    /\ state' = CASE ~CheckSolveResult -> "ABORTED"
                  [] result = 10 -> "SATISFIED"
                  [] result = 20 -> "UNSATISFIED"
                  [] OTHER -> "UNKNOWN"
    /\ assumptions' = IF result = 0 THEN {} ELSE assumptions
    /\ frozen' = IF result = 0
                 THEN [frozen EXCEPT !.internal = MeltAll(@, assumptions)] ELSE frozen
    /\ failed' = IF result = 20 THEN trail.core ELSE {}
    /\ limits' = NoLimits
    /\ stage' = "idle"
    /\ UNCHANGED <<adding, formula, original, constraint, known, root, trail, result, simplifying,
                   async>>

SolverStep ==
    \/ AlreadySolved \/ Preprocess \/ LocalSearch \/ LuckyPhases
    \/ SearchAnswer \/ SearchLimit \/ SearchTerminated
    \/ ResetSolving \/ ClearForced \/ Return

(* What already_solved and then lookahead_probing may find: nothing, units *)
(* or that the formula is unsatisfiable.                                   *)
LookaheadProbing == {RootAfter(Propagated), RootAfter(Backbone)}

(* Solver::lookahead leaves the state and the assumptions as they are, and *)
(* backtracks.  Probing drops a limit on conflicts.                        *)
Lookahead ==
    /\ state \in VALID
    /\ IF root.unsat \/ constraint.unsat THEN UNCHANGED <<root, trail, limits>>
       ELSE /\ trail' = NoTrail
            /\ root' \in LookaheadProbing
            /\ limits' \in {limits, [limits EXCEPT !.conflicts = -1]}
    /\ forced' = FALSE
    /\ UNCHANGED <<state, adding, formula, original, assumptions, constraint, known, frozen,
                   failed, job, terminator, forces>>

(* Solver::generate_cubes of a positive depth: a contradiction that        *)
(* probing finds is taken to concern the cube only and is forgotten.       *)
GenerateCubes(depth) ==
    /\ state \in VALID
    /\ limits' = NoLimits
    /\ IF depth = 0 \/ known = {} THEN UNCHANGED <<root, trail, forced>>
       ELSE /\ forced' = FALSE
            /\ IF root.unsat \/ constraint.unsat THEN UNCHANGED <<root, trail>>
               ELSE /\ trail' = NoTrail
                    /\ \E r \in LookaheadProbing :
                           root' = [r EXCEPT !.unsat = RootAfter(Propagated).unsat]
    /\ UNCHANGED <<state, adding, formula, original, assumptions, constraint, known, frozen,
                   failed, job, terminator, forces>>
=============================================================================
