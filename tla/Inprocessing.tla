---------------------------- MODULE Inprocessing ----------------------------
(***************************************************************************)
(* Incremental solving with inprocessing: clauses and assumptions are      *)
(* added, solve restores what the new literals touch, the techniques       *)
(* rewrite the clause database in any order, and a model of what is left   *)
(* is extended to a model of all the added clauses.                        *)
(*                                                                         *)
(* The search between two techniques is summarised: it learns any clause   *)
(* of a given set that follows by unit propagation (Cdcl has the details), *)
(* and it answers with any model of the clauses, or without one.           *)
(***************************************************************************)
EXTENDS Weakening, Simplification, Checker

CONSTANTS
    Problems,   \* records of the set vars of variables, the sets clauses and
                \* more of the clauses added first and possibly later, the set
                \* assume of literals that may be assumed, the set learn of
                \* clauses the search may learn, the set aux of auxiliary
                \* variables, the set frozen of frozen variables, and the set
                \* opts of enabled options, and the number calls that bounds
                \* the calls after the first solve
    ElimBound,  \* lim.elimbound
    MaxExt      \* bound on the extension stack when a clause is weakened

VARIABLES
    problem,    \* the member of Problems that is solved
    db,         \* the clause database
    checker,    \* the proof checker
    job,        \* where elim or vivify is
    original,   \* the clauses added so far
    tainted,    \* literals used since the last restore whose negation is a witness
    assumed,    \* the assumptions
    state,      \* "adding", "solving", or the result "sat" or "unsat"
    model,      \* the extended assignment, None unless state is "sat"
    calls       \* number of calls so far, at most problem.calls

vars == <<problem, db, checker, job, original, tainted, assumed, state, model, calls>>

Vars == problem.vars
Opt(o) == o \in problem.opts
Frozen(v) == v \in problem.frozen \cup VarsOf(assumed)
FrozenVars == {v \in Vars : Frozen(v)}
Active(v) == v \notin db.inactive /\ ~Valued(db, v)

Idle == [at |-> "none",
         queue |-> {}, base |-> None, live |-> {}, occs |-> {}, satisfied |-> FALSE,
         redundant |-> FALSE, garbage |-> [l \in LitsOver(Vars) |-> 0]]

EmptyDb == [irr |-> {}, red |-> {}, lag |-> {}, stale |-> {}, units |-> {}, ext |-> << >>,
            inactive |-> {}, unsat |-> FALSE, log |-> << >>]

(* The database becomes d, and the checker reads what was logged. *)
Commit(d) ==
    /\ db' = [d EXCEPT !.log = << >>]
    /\ checker' = ObserveAll(checker, d.log)

-----------------------------------------------------------------------------
(* Adding clauses and restoring them *)

(* add_new_original_clause: a satisfied clause is skipped, false literals  *)
(* are dropped, and a unit is propagated.                                  *)
Added(d, c, l) ==
    IF d.unsat \/ Sat(d.units, c) THEN Logged(d, "delete", c)
    ELSE LET new == [d EXCEPT !.irr = IF Cardinality(l) > 1 THEN @ \cup {l} ELSE @,
                              !.units = IF Cardinality(l) = 1 THEN @ \cup l ELSE @,
                              !.unsat = l = {}]
             twice == l \in d.irr
             logged == LoggedAll(new, "add", IF l # c THEN {l} ELSE {})
         IN  Propagate(LoggedAll(logged, "delete", (IF l # c THEN {c} ELSE {}) \cup
                                                   (IF twice THEN {l} ELSE {})))

AddOriginal(d, c) == Added(Logged(d, "original", c), c, Live(d.units, c))

(* internalize: the literals that become tainted. *)
TaintedBy(d, lits) == {l \in lits : -l \in Witnesses(d)}

(* internalize and add_original: variables become active again. *)
Reactivate(d, lits) == [d EXCEPT !.inactive = @ \ VarsOf(lits)]

(* restore_clauses: the entries of the extension stack are visited from    *)
(* the bottom.  One with a witness whose negation is tainted is added as   *)
(* an original clause again, which may taint more literals; with the       *)
(* option restoreflush one that is satisfied by a unit is dropped, and     *)
(* with restoreall every entry is restored.                                *)
RestoreClauses(d, T) ==
    LET Witnessed == Witnesses(d)
        visit[k \in Nat] ==
            IF k = 0 THEN [db |-> [d EXCEPT !.ext = << >>], tainted |-> T]
            ELSE LET s == visit[k - 1]
                     e == d.ext[k]
                     new == {l \in e.clause : -l \in Witnessed}
                 IN  IF Opt("restoreflush") /\ Sat(s.db.units, e.clause) THEN s
                     ELSE IF Opt("restoreall") \/ \E l \in e.witness : -l \in s.tainted
                     THEN [db |-> AddOriginal(Reactivate(s.db, e.clause), e.clause),
                           tainted |-> s.tainted \cup new]
                     ELSE [s EXCEPT !.db.ext = Append(@, e)]
    IN  visit[Len(d.ext)].db

Init ==
    /\ problem \in Problems
    /\ LET d == FoldSet(LAMBDA c, e : AddOriginal(e, c), EmptyDb, problem.clauses)
       IN  /\ db = [d EXCEPT !.log = << >>]
           /\ checker = ObserveAll(EmptyChecker, d.log)
    /\ job = Idle
    /\ original = problem.clauses
    /\ tainted = {}
    /\ assumed = {}
    /\ state = "adding"
    /\ model = None
    /\ calls = 0

(* External::add of a whole clause. *)
Add(c) ==
    /\ state # "solving" /\ calls < problem.calls
    /\ c \in problem.more \ original
    /\ tainted' = tainted \cup TaintedBy(db, c)
    /\ Commit(AddOriginal(Reactivate(db, c), c))
    /\ original' = original \cup {c}
    /\ assumed' = IF state = "adding" THEN assumed ELSE {}
    /\ state' = "adding"
    /\ model' = None
    /\ calls' = calls + 1
    /\ UNCHANGED <<problem, job>>

(* External::assume.  Assumptions are dropped when a result is left. *)
Assume(l) ==
    /\ state # "solving" /\ calls < problem.calls
    /\ l \in problem.assume
    /\ tainted' = tainted \cup TaintedBy(db, {l})
    /\ Commit(Reactivate(db, {l}))
    /\ assumed' = (IF state = "adding" THEN assumed ELSE {}) \cup {l}
    /\ state' = "adding"
    /\ model' = None
    /\ calls' = calls + 1
    /\ UNCHANGED <<problem, job, original>>

(* Mutated form: the assumptions of the last call are still there. *)
SolveStartAssumed ==
    /\ state = "adding" \/ (state # "solving" /\ calls < problem.calls)
    /\ Commit(IF tainted = {} \/ db.unsat THEN db ELSE RestoreClauses(db, tainted))
    /\ tainted' = IF db.unsat THEN tainted ELSE {}
    /\ state' = "solving"
    /\ model' = None
    /\ calls' = IF state = "adding" THEN calls ELSE calls + 1
    /\ UNCHANGED <<problem, job, original, assumed>>

SolveStart ==
    /\ state = "adding" \/ (state # "solving" /\ calls < problem.calls)
    /\ Commit(IF tainted = {} \/ db.unsat THEN db ELSE RestoreClauses(db, tainted))
    /\ tainted' = IF db.unsat THEN tainted ELSE {}
    /\ assumed' = IF state = "adding" THEN assumed ELSE {}
    /\ state' = "solving"
    /\ model' = None
    /\ calls' = IF state = "adding" THEN calls ELSE calls + 1
    /\ UNCHANGED <<problem, job, original>>

(* The search ends with a model of the clauses and the assumptions, which  *)
(* is extended, or without one.  Which model it finds does not matter:     *)
(* ModelsExtend is about all of them, and the behaviour goes on with one.  *)
SolveEnd ==
    /\ state = "solving" /\ job.at = "none"
    /\ LET S == db.irr \cup db.red \cup {{l} : l \in db.units \cup assumed}
           M == IF db.unsat THEN {} ELSE Models(Vars, S)
       IN  /\ state' = IF M = {} THEN "unsat" ELSE "sat"
           /\ model' = IF M = {} THEN None ELSE Extend(db, CHOOSE A \in M : TRUE)
    /\ UNCHANGED <<problem, db, checker, job, original, tainted, assumed, calls>>

-----------------------------------------------------------------------------
(* Copying and writing the simplified formula *)

Units(d, F) == {l \in d.units : Var(l) \in F}

(* traverse_clauses: the units of the variables in F, then the irredundant *)
(* clauses that are not satisfied, without false literals.                 *)
TraverseClauses(d, F) ==
    IF d.unsat THEN {{}}
    ELSE {{l} : l \in Units(d, F)} \cup
         {Live(d.units, c) : c \in {c \in d.irr : ~Sat(d.units, c)}}

(* The units of the other variables, as entries on top of the stack of d.  *)
PushUnits(d, F) == FoldSet(LAMBDA l, e : Push(e, {l}, {l}), d, Units(d, Vars \ F)).ext

(* Mutated form: the units lie below the stack. *)
TraverseUnitsFirst(d, F) ==
    IF d.unsat THEN << >> ELSE PushUnits([d EXCEPT !.ext = << >>], F) \o d.ext

(* traverse_witnesses_forward: the extension stack, then the other units.  *)
TraverseWitnesses(d, F) == IF d.unsat THEN << >> ELSE PushUnits(d, F)

(* copy: the clauses are added to a fresh solver, and its stack is filled. *)
Copy(d, F) ==
    LET e == FoldSet(LAMBDA c, e : AddOriginal(e, c), EmptyDb, TraverseClauses(d, F))
    IN  [e EXCEPT !.ext = TraverseWitnesses(d, F)]

(* write_dimacs restores clauses before it traverses them. *)
WriteDimacs ==
    /\ state = "adding" /\ tainted # {}
    /\ Commit(RestoreClauses(db, tainted))
    /\ tainted' = {}
    /\ UNCHANGED <<problem, job, original, assumed, state, model, calls>>

-----------------------------------------------------------------------------
(* What a technique leaves alone. *)
Calling == <<problem, original, tainted, assumed, state, model, calls>>

(* Techniques run on the root level while solving, after propagation. *)
Ready == state = "solving" /\ job.at = "none" /\ ~db.unsat

Becomes(d) == Commit(d) /\ UNCHANGED <<job, Calling>>

LearnClause(c) ==
    /\ Ready
    /\ c \in problem.learn
    /\ c \notin db.irr \cup db.red
    /\ VarsOf(c) \cap db.inactive = {}
    /\ Conflict(Watched(db), Closure(Watched(db), db.units \cup Neg(c)))
    /\ Becomes(NewClause(db, c, TRUE))

RootPropagate == Ready /\ Becomes(Propagate(db))

Collect == Ready /\ Becomes(GarbageCollection(db))

-----------------------------------------------------------------------------
(* elim *)

(* elim propagates and drops the watches, and the round starts without the *)
(* satisfied clauses.                                                      *)
RoundStart(d) == MarkGarbage(d, {c \in d.irr : Sat(d.units, c)})

ElimStart ==
    /\ Ready /\ Opt("elim")
    /\ Commit(RoundStart(ConnectWatches(Propagate(db))))
    /\ job' = [Idle EXCEPT !.at = "elim"]
    /\ UNCHANGED Calling

(* With ELIMAUX only auxiliary variables are tried. *)
Scheduled(v) ==
    /\ Active(v) /\ ~Frozen(v)
    /\ Opt("elimaux") => v \in problem.aux

(* Clauses that become garbage stay in their occurrence lists until these  *)
(* are flushed.  The field garbage of job is how many of them each list    *)
(* has: without the lists of v, and of n with the clauses of db, or added  *)
(* since, that became garbage on the way to d.                             *)
FlushOccs(v) == [l \in DOMAIN job.garbage |-> IF Var(l) = v THEN 0 ELSE job.garbage[l]]

WithGarbage(n, d) ==
    LET steps == {d.log[k] : k \in DOMAIN d.log}
        added == {s.clause : s \in {t \in steps : t.op = "add" /\ Cardinality(t.clause) > 1}}
        gone == (db.irr \cup added) \ d.irr
    IN  [l \in DOMAIN n |-> n[l] + Cardinality({c \in gone : l \in c})]

(* try_to_eliminate_variable *)
ElimTry(v) ==
    /\ job.at = "elim" /\ ~db.unsat
    /\ Scheduled(v)
    /\ \E p \in {v, -v} :
          /\ Cardinality(Occs(db, p)) <= Cardinality(Occs(db, -p))
          /\ \E o \in TryToEliminate(db, p, ElimBound, Opt("elimsubst"), Opt("elimbackward")) :
                /\ Commit(o.db)
                /\ job' = [job EXCEPT !.at = IF o.queue = {} THEN "elim" ELSE "backward",
                                      !.queue = o.queue,
                                      !.garbage = WithGarbage(FlushOccs(v), o.db)]
    /\ UNCHANGED Calling

(* elim_backward_clauses: the next clause of the queue.  A satisfied one   *)
(* becomes garbage, otherwise the occurrences of a literal with a shortest *)
(* list are visited.                                                       *)
ListSize(l) == Cardinality(Occs(db, l)) + job.garbage[l]
Shortest(m) == {l \in m : \A k \in m : ListSize(l) <= ListSize(k)}

BackwardStart(c) ==
    /\ job.at = "backward" /\ ~db.unsat
    /\ c \in job.queue
    /\ IF c \notin db.irr \/ Sat(db.units, c)
       THEN \E d \in {MarkGarbage(db, {c})} :
                /\ Commit(d)
                /\ job' = [job EXCEPT !.queue = @ \ {c}, !.garbage = WithGarbage(@, d)]
       ELSE /\ \E best \in Shortest(Live(db.units, c)) :
                 job' = [job EXCEPT !.at = "visit", !.queue = @ \ {c}, !.base = c,
                            !.live = Live(db.units, c), !.occs = Occs(db, best) \ {c}]
            /\ UNCHANGED <<db, checker>>
    /\ UNCHANGED Calling

BackwardDone(j) == [j EXCEPT !.at = "backward", !.base = None, !.live = {}, !.occs = {},
                             !.satisfied = FALSE]

(* A clause that is strengthened is the same clause afterwards. *)
Backward(e) ==
    /\ job.at = "visit"
    /\ e \in job.occs
    /\ IF e \notin db.irr \/ Cardinality(e) < Cardinality(job.live)
       THEN UNCHANGED <<db, checker>> /\ job' = [job EXCEPT !.occs = @ \ {e}]
       ELSE \E o \in BackwardVisit(db, job.base, job.live, e, job.satisfied) :
              LET j == IF o.again # None THEN [job EXCEPT !.queue = @ \cup {o.again}]
                       ELSE [job EXCEPT !.garbage = WithGarbage(@, o.db)]
              IN  /\ Commit(o.db)
                  /\ job' = IF o.stop THEN BackwardDone(j)
                            ELSE [j EXCEPT !.occs = @ \ {e}, !.satisfied = o.satisfied]
    /\ UNCHANGED Calling

BackwardEnd ==
    /\ job.at = "visit" /\ job.occs = {}
    /\ job' = BackwardDone(job)
    /\ UNCHANGED <<db, checker, Calling>>

ElimNext ==
    /\ job.at = "backward"
    /\ job.queue = {} \/ db.unsat
    /\ job' = [Idle EXCEPT !.at = "elim", !.garbage = job.garbage]
    /\ UNCHANGED <<db, checker, Calling>>

(* Too much garbage within a round is collected, and all lists are flushed.*)
ElimCollect ==
    /\ job.at = "elim" /\ ~db.unsat
    /\ Commit(GarbageCollection(DropRedundantOf(db)))
    /\ job' = [Idle EXCEPT !.at = "elim"]
    /\ UNCHANGED Calling

RoundEnd ==
    /\ job.at = "elim"
    /\ Commit(IF db.unsat THEN db ELSE DropRedundantOf(db))
    /\ job' = [Idle EXCEPT !.at = "between"]
    /\ UNCHANGED Calling

Instantiated(d, c, l) ==
    IF ~d.unsat /\ Instantiable(d, c, l) THEN Strengthen(d, c, l, FALSE) ELSE d

(* instantiate, after the round: it connects the watches and propagates    *)
(* before it tries the candidates.                                         *)
Instantiate(c, l) ==
    /\ job.at = "between" /\ Opt("instantiate")
    /\ ~Frozen(Var(l)) /\ c \in db.irr /\ l \in c
    /\ Commit(Instantiated(Propagate(ConnectWatches(db)), c, l))
    /\ UNCHANGED <<job, Calling>>

RoundAgain ==
    /\ job.at = "between" /\ ~db.unsat /\ Opt("rounds")
    /\ Commit(RoundStart(db))
    /\ job' = [Idle EXCEPT !.at = "elim"]
    /\ UNCHANGED Calling

ElimEnd ==
    /\ job.at = "between"
    /\ Commit(Propagate(ConnectWatches(db)))
    /\ job' = Idle
    /\ UNCHANGED Calling

ElimSteps ==
    \/ ElimStart \/ \E v \in Vars : ElimTry(v)
    \/ \E c \in job.queue : BackwardStart(c)
    \/ \E e \in job.occs : Backward(e)
    \/ BackwardEnd \/ ElimNext \/ ElimCollect \/ RoundEnd
    \/ \E c \in db.irr : \E l \in c : Instantiate(c, l)
    \/ RoundAgain \/ ElimEnd
-----------------------------------------------------------------------------
(* Techniques between two rounds of elim. *)
Between(o) == job.at = "between" /\ ~db.unsat /\ Opt(o)

(* block, for one literal of its schedule. *)
Block(l) ==
    /\ Between("block") /\ Len(db.ext) < MaxExt
    /\ Active(Var(l)) /\ ~Frozen(Var(l))
    /\ Becomes(BlockLiteral(BlockPrelude(db), l))

(* cover, for one clause of its schedule.  It is off with restoreflush. *)
CoverWith(d, c) ==
    IF d.unsat \/ c \notin d.irr THEN Becomes(d)
    ELSE \E e \in CoverClause(d, c, FrozenVars) : Becomes(e)

Cover(c) ==
    /\ Between("cover") /\ Len(db.ext) < MaxExt /\ ~Opt("restoreflush")
    /\ c \in db.irr
    /\ CoverWith(CoverPrelude(db), c)

(* condition runs on a decision level, with the trail of a decision l and  *)
(* the decisions that complete it.  Reasons stay.                          *)
CondVars == {v \in Vars : Active(v) /\ ~Frozen(v)}

(* The clauses that may be the reason of x on the trail A. *)
Reasons(A, x) == {c \in Watched(db) : Live(A, c) = {x}}

ConditionOn(d, A, B, l) ==
    \E T \in SUBSET GloballyBlocked(d, B) \ {{}} :
        /\ \A x \in A \ (db.units \cup {l}) : ~(Reasons(A, x) \subseteq T)
        /\ Becomes(Conditioned(d, B, T))

Condition(l) ==
    /\ Ready /\ Opt("condition") /\ Len(db.ext) < MaxExt
    /\ Active(Var(l))
    /\ LET A == Closure(Watched(db), db.units \cup {l})
       IN  /\ ~Conflict(Watched(db), A)
           /\ \E B \in Assignments(CondVars) :
                 /\ \A x \in A : Var(x) \in CondVars => x \in B
                 /\ ConditionOn(ConditionPrelude(db), A, B, l)

Subsume(c, red) ==
    \/ /\ Ready /\ Opt("subsume")
       /\ \E e \in Subsumed(Propagate(db), c, red) : Becomes(e)
    \/ /\ Between("subsume")
       /\ \E e \in UNION {SubsumeWith(db, c, red, x) : x \in Stored(db)} : Becomes(e)

(* vivify: a round over the irredundant clauses with only these watched,   *)
(* then one over the redundant clauses with all clauses watched.           *)
VivifyWatched(d, red) == IF red THEN Stored(d) ELSE d.irr

VivifyOpen(d, red) ==
    LET S == VivifyWatched(d, red)
    IN  PropagateOver(ConnectWatches(d), S, Closure(S, d.units))

VivifyStart ==
    /\ Ready /\ Opt("vivify")
    /\ Commit(VivifyOpen(MarkGarbage(db, VivifyFlush(db, FALSE)), FALSE))
    /\ job' = [Idle EXCEPT !.at = "vivify"]
    /\ UNCHANGED Calling

Vivify(c) ==
    /\ job.at = "vivify" /\ ~db.unsat
    /\ Cardinality(c) > 2
    /\ c \in IF job.redundant THEN db.red ELSE db.irr
    /\ \E e \in VivifyClause(db, VivifyWatched(db, job.redundant) \ {c}, c, job.redundant) :
          e # db /\ Becomes(e)

VivifyRedundant ==
    /\ job.at = "vivify" /\ ~job.redundant
    /\ LET d == Propagate(ConnectWatches(db))
       IN  Commit(IF d.unsat THEN d
                  ELSE VivifyOpen(MarkRedGarbage(d, VivifyFlush(d, TRUE)), TRUE))
    /\ job' = [job EXCEPT !.redundant = TRUE]
    /\ UNCHANGED Calling

VivifyEnd ==
    /\ job.at = "vivify" /\ job.redundant
    /\ Commit(Propagate(ConnectWatches(db)))
    /\ job' = Idle
    /\ UNCHANGED Calling

(* The parts of probe. *)
Probe(l) ==
    /\ Ready /\ Opt("probe")
    /\ Active(Var(l)) /\ IsProbe(db, l)
    /\ \E e \in Probed(Propagate(db), l, Opt("probehbr")) : Becomes(e)

TernaryResolve(l) ==
    /\ Ready /\ Opt("ternary")
    /\ Active(Var(l))
    /\ \E e \in Ternary(Propagate(db), l) : Becomes(Propagate(ConnectWatches(e)))

DecomposeRound ==
    /\ Ready /\ Opt("decompose")
    /\ Becomes(Decompose(Propagate(db), Vars, FrozenVars))

DeduplicateBinaries ==
    /\ Ready /\ Opt("deduplicate")
    /\ Becomes(Deduplicate(Propagate(db)))

TransitiveReduction(c, red) ==
    /\ Ready /\ Opt("transred")
    /\ c \in IF red THEN db.red ELSE db.irr
    /\ Cardinality(c) = 2
    /\ \E e \in Transred(Propagate(db), c, red) : Becomes(e)

ReduceClauses(c) ==
    /\ Ready /\ Opt("reduce")
    /\ c \in db.red
    /\ Becomes(Reduce(db, {c}))

OtherSteps ==
    \/ \E l \in LitsOver(Vars) : Block(l) \/ Condition(l) \/ Probe(l) \/ TernaryResolve(l)
    \/ \E c \in db.irr : Cover(c) \/ Subsume(c, FALSE) \/ TransitiveReduction(c, FALSE)
    \/ \E c \in db.red : Subsume(c, TRUE) \/ TransitiveReduction(c, TRUE) \/ ReduceClauses(c)
    \/ \E c \in Stored(db) : Vivify(c)
    \/ VivifyStart \/ VivifyRedundant \/ VivifyEnd \/ DecomposeRound \/ DeduplicateBinaries

Next ==
    \/ \E c \in problem.more : Add(c)
    \/ \E l \in problem.assume : Assume(l)
    \/ SolveStart \/ SolveEnd \/ WriteDimacs
    \/ \E c \in problem.learn : LearnClause(c)
    \/ RootPropagate \/ Collect
    \/ ElimSteps \/ OtherSteps

Spec == Init /\ [][Next]_vars

-----------------------------------------------------------------------------
(* Everything in the database follows from the added clauses. *)
Entailed ==
    LET M == Models(Vars, original)
    IN  /\ db.unsat => M = {}
        /\ \A A \in M : \A c \in db.irr \cup db.red \cup {{l} : l \in db.units} : Sat(A, c)

(* Every model of the clauses that are left extends to a model of all the  *)
(* clauses that were added, also in the middle of a technique, and no      *)
(* model is lost.                                                          *)
ModelsExtend ==
    /\ Entailed
    /\ tainted = {} /\ ~db.unsat =>
        \A A \in Models(Vars, db.irr \cup {{l} : l \in db.units}) :
           \A c \in original : Sat(Extend(db, A), c)

(* copy and the pair write_dimacs, write_extension hand over what another  *)
(* solver needs: every model of the copied clauses extends along the       *)
(* copied stack to a model of all added clauses, and no model is lost.  As *)
(* copy does not restore, this is said for the moments without tainted     *)
(* literals.                                                               *)
CopyModels ==
    state # "solving" /\ tainted = {} =>
        \E e \in {Copy(db, FrozenVars)} :
            /\ \A A \in IF e.unsat THEN {} ELSE Models(Vars, e.irr \cup {{l} : l \in e.units}) :
                  \A c \in original : Sat(Extend(e, A), c)
            /\ \A A \in Models(Vars, original) :
                  ~e.unsat /\ \A c \in e.irr \cup {{l} : l \in e.units} : Sat(A, c)

(* The proof checker accepts every clause that is added, and finds every   *)
(* clause that is deleted, in the order in which the techniques log them.  *)
ProofAccepted == ~checker.failed

(* What the user of the solver sees is the abstract service: every model   *)
(* extend() returns satisfies all clauses ever added and the assumptions,  *)
(* and "unsat" is only said when there is none.                            *)
Service == INSTANCE SatService WITH
    Clauses <- UNION {p.clauses \cup p.more : p \in Problems},
    Literals <- UNION {p.assume : p \in Problems}

ServiceSpec == Service!Spec
=============================================================================
