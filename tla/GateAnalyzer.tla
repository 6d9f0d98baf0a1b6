---------------------------- MODULE GateAnalyzer ----------------------------
(***************************************************************************)
(* Gate detection in cnftools: OccurrenceList, GateAnalyzer, GateFormula   *)
(* and the level computation of GateStats, the tool whose output tells     *)
(* CaDiCaL which variables are auxiliary.                                  *)
(*                                                                         *)
(* The analysis peels the formula: it takes root clauses out of the index, *)
(* tries their literals as gate outputs, takes the defining clauses of a   *)
(* recognised gate out of the index too and goes on with the gate's        *)
(* inputs.  A literal is 2 * variable + sign, as class Lit encodes it; a   *)
(* clause pointer is a position in the formula, so equal clauses stay      *)
(* apart; the order of a hash set is a nondeterministic choice.            *)
(***************************************************************************)
EXTENDS Integers, SequencesExt, FiniteSetsExt

CONSTANTS Inputs,     \* the formulas as read: sequences of nonempty sets of literals
          Semantic,   \* also try the check with a SAT solver
          MayTimeOut, \* the 60 seconds, or a resource limit, may run out
          Garbage     \* what the memory behind the level array may hold

ASSUME InputsAssumption ==
  /\ \A F \in Inputs :
       /\ F \in Seq({F[i] : i \in DOMAIN F})
       /\ \A i \in DOMAIN F : F[i] # {} /\ IsFiniteSet(F[i]) /\ F[i] \subseteq Nat \ {0, 1}
  /\ {Semantic, MayTimeOut} \subseteq BOOLEAN
  /\ Garbage \subseteq Nat

Types == {"NONE", "GENERIC", "AND", "OR", "TRIV", "EQIV", "FULL"}

VARIABLES
  formula,     \* the clauses: sorted sequences of literals
  index,       \* OccurrenceList::index, for each literal its clauses
  unitc,       \* OccurrenceList::unitc, unit clauses not yet taken as roots
  max_literal, \* OccurrenceList::max_literal
  root_clauses,\* the local of analyze
  timeout,     \* the local of analyze
  roots,       \* GateFormula::roots
  gates,       \* GateFormula::gates
  inputs,      \* GateFormula::inputs, the literals that are marked
  candidates,  \* literals still to try, in the order of a vector
  pool,        \* literals still to try, in the order of a hash set
  frontier,    \* literals to try in the next round
  solver,      \* the shared SAT solver: its clauses and its unfinished clause
  levels,      \* GateStats: the level of each gate, with the slot behind the array
  beyond,      \* what that slot held at the start
  level,       \* GateStats: the level under way
  current,     \* GateStats: its literals
  pc

indexVars == <<index, unitc, max_literal>>
gateVars == <<roots, gates, inputs, solver>>
searchVars == <<candidates, pool, frontier>>
levelVars == <<levels, beyond, level, current>>
vars == <<formula, indexVars, root_clauses, timeout, gateVars, searchVars, levelVars, pc>>

-----------------------------------------------------------------------------
(* Literals and clauses *)

Var(l) == l \div 2
Neg(l) == IF l % 2 = 0 THEN l + 1 ELSE l - 1
Positive(l) == 2 * Var(l)

\* The numbers of S up to n, in ascending order.
Ascending(S, n) ==
  LET upto[k \in 0 .. n] ==
        IF k = 0 THEN <<>> ELSE IF k \in S THEN Append(upto[k - 1], k) ELSE upto[k - 1]
  IN upto[n]

\* Sorted, without duplicate literals.
Sorted(C) == Ascending(C, Max(C))

Tautology(C) == \E l \in C : Neg(l) \in C

\* Clauses are normalised when they are read, and tautologies are left out.
ReadClauses(F) ==
  LET kept == Ascending({i \in DOMAIN F : ~Tautology(F[i])}, Len(F))
  IN [i \in DOMAIN kept |-> Sorted(F[kept[i]])]

NVars(F) == Max({0} \cup {Var(Last(F[i])) : i \in DOMAIN F})

Vars == 1 .. NVars(formula)
Lits == 0 .. 2 * NVars(formula) + 1
Lit(c) == Range(formula[c])

-----------------------------------------------------------------------------
(* OccurrenceList *)

\* The merge of two sorted clauses that looks for a second resolution pair: where it
\* is after n steps.
IsBlocked(o, c1, c2) ==
  LET next(p) == IF c1[p[1]] < c2[p[2]] THEN <<p[1] + 1, p[2]>> ELSE <<p[1], p[2] + 1>>
      within(p) == p[1] \in DOMAIN c1 /\ p[2] \in DOMAIN c2
      at[n \in 0 .. Len(c1) + Len(c2)] ==
        IF n = 0 THEN <<1, 1>> ELSE LET p == at[n - 1] IN IF within(p) THEN next(p) ELSE p
  IN \E n \in DOMAIN at : LET p == at[n] IN within(p) /\ c1[p[1]] # o /\ c1[p[1]] = Neg(c2[p[2]])

IsBlockedSet(o) ==
  \A c1 \in Range(index[o]), c2 \in Range(index[Neg(o)]) :
    IsBlocked(o, formula[c1], formula[c2])

\* One list after removing c: a clause that is not in the list costs the list
\* its last entry.
Without(list, c) ==
  IF list = <<>> THEN <<>>
  ELSE IF c \in Range(list) THEN RemoveFirst(list, c)
  ELSE Front(list)

\* Mutated form: nothing is removed.
RemoveAllNone(idx, clauses) == idx

\* remove goes through the clauses and through the literals of each.
RemoveOne(idx, c) == [l \in DOMAIN idx |-> IF l \in Lit(c) THEN Without(idx[l], c) ELSE idx[l]]

RemoveAll(idx, clauses) ==
  LET after[k \in 0 .. Len(clauses)] ==
        IF k = 0 THEN idx ELSE RemoveOne(after[k - 1], clauses[k])
  IN after[Len(clauses)]

\* The largest literal, from max_literal down, that occurs at all; 0 if none does.
MaxLiteral == Max({0} \cup {l \in 1 .. max_literal : index[l] # <<>>})

EstimateRoots ==
  /\ pc = "estimate"
  /\ pc' = "loop"
  /\ IF unitc # <<>>
       THEN /\ root_clauses' = unitc
            /\ unitc' = <<>>
            /\ UNCHANGED <<index, max_literal>>
       ELSE LET m == MaxLiteral
            IN /\ max_literal' = m
               /\ root_clauses' = IF m > 0 THEN index[m] ELSE <<>>
               /\ index' = IF m > 0 THEN RemoveAll([index EXCEPT ![m] = <<>>], index[m])
                                    ELSE index
               /\ UNCHANGED unitc
  /\ UNCHANGED <<formula, timeout, gateVars, searchVars, levelVars>>

-----------------------------------------------------------------------------
(* Recognising one gate: checkAddGate and what it calls *)

\* Inserting the literal at k of a clause into the sorted list of inputs.  Once the rest
\* of the clause is larger than all inputs it is appended at once: up to the output,
\* and then from the literal after the one the iterator stands on.
InsertInput(st, clause, output, k) ==
  LET l == clause[k]
      at == CHOOSE p \in DOMAIN clause : clause[p] = output
      skipped == IF k < at THEN at ELSE k
      larger == {p \in st.pos .. Len(st.inp) : st.inp[p] >= l}
  IN IF st.done \/ k = at THEN st
     ELSE IF larger = {}
       THEN [inp  |-> st.inp \o SubSeq(clause, k, skipped - 1)
                             \o SubSeq(clause, skipped + 1, Len(clause)),
             pos  |-> st.pos,
             done |-> TRUE]
     ELSE [inp  |-> IF st.inp[Min(larger)] > l THEN InsertAt(st.inp, Min(larger), l) ELSE st.inp,
           pos  |-> Min(larger) + 1,
           done |-> FALSE]

InsertInputs(inp, output, clause) ==
  LET after[k \in 0 .. Len(clause)] ==
        IF k = 0 THEN [inp |-> inp, pos |-> 1, done |-> FALSE]
        ELSE InsertInput(after[k - 1], clause, output, k)
  IN after[Len(clause)].inp

GetInputLiterals(output, clauses) ==
  LET after[k \in 0 .. Len(clauses)] ==
        IF k = 0 THEN <<>> ELSE InsertInputs(after[k - 1], output, formula[clauses[k]])
  IN after[Len(clauses)]

InputVars(o, clauses) ==
  {Var(l) : l \in (UNION {Lit(c) : c \in Range(clauses)}) \ {o}}

\* Mutated form: only one of the inclusions is checked.
ConstrainInputVariables(o, fwd, bwd) ==
  IF InputVars(o, bwd) \subseteq InputVars(Neg(o), fwd) THEN Cardinality(InputVars(Neg(o), fwd)) ELSE 0

ConstrainSameInputVariables(o, fwd, bwd) ==
  IF InputVars(Neg(o), fwd) = InputVars(o, bwd) THEN Cardinality(InputVars(o, bwd)) ELSE 0

FixedClauseSize(clauses, n) == \A c \in Range(clauses) : Len(formula[c]) = n

FPattern(fwd, bwd, n) ==
  CASE Len(fwd) = 1 /\ FixedClauseSize(bwd, 2) -> IF n = 1 THEN "TRIV" ELSE "OR"
    [] Len(bwd) = 1 /\ FixedClauseSize(fwd, 2) -> "AND"
    [] /\ Len(fwd) + Len(bwd) = 2 ^ n
       /\ FixedClauseSize(fwd, n + 1)
       /\ FixedClauseSize(bwd, n + 1) -> IF n = 2 /\ Len(fwd) = Len(bwd) THEN "EQIV" ELSE "FULL"
    [] OTHER -> "NONE"

\* The solver is shared by all checks and never reset; the literal added after
\* solving is not terminated, so it becomes part of the next clause added.
Load(o, clauses) ==
  LET renamed(c) == {IF Var(l) = Var(o) THEN Positive(o) ELSE l : l \in Lit(c)}
      add(s, c) == [clauses |-> s.clauses \cup {s.open \cup renamed(c)}, open |-> {}]
  IN FoldLeft(add, solver, clauses)

Satisfied(C, s) == \E l \in C : s[Var(l)] = (l % 2 = 0)

\* ipasir_solve under one assumption.
Solvable(clauses, assumption) ==
  \E s \in [Vars -> BOOLEAN] : \A C \in clauses \cup {{assumption}} : Satisfied(C, s)

\* The verdict on a candidate, and the solver after it.
Verdict(out) ==
  LET fwd == index[Neg(out)]
      bwd == index[out]
      n == ConstrainSameInputVariables(out, fwd, bwd)
      pattern == IF n > 0 THEN FPattern(fwd, bwd, n) ELSE "NONE"
      loaded == Load(out, fwd \o bwd)
  IN IF ~(Len(fwd) > 0 /\ IsBlockedSet(out))
       THEN [type |-> "NONE", solver |-> solver]
     ELSE IF pattern = "NONE" /\ Semantic /\ Len(fwd) > 1 /\ Len(bwd) > 1
       THEN [type |-> IF Solvable(loaded.clauses, Neg(Positive(out))) THEN "NONE" ELSE "GENERIC",
             solver |-> [loaded EXCEPT !.open = {Positive(out)}]]
     ELSE [type |-> pattern, solver |-> solver]

NoGate == [type |-> "NONE", out |-> 0, fwd |-> <<>>, bwd |-> <<>>, notMono |-> FALSE, inp |-> <<>>]

IsDefined(v) == gates[v] # NoGate

IsNestedMonotonic(l) == l \notin inputs \/ Neg(l) \notin inputs

AddGate(type, out, fwd, bwd, inp) ==
  LET notMono == ~IsNestedMonotonic(out)
  IN /\ gates' = [gates EXCEPT ![Var(out)] = [type |-> type, out |-> out, fwd |-> fwd,
                                              bwd |-> bwd, notMono |-> notMono, inp |-> inp]]
     /\ inputs' = inputs \cup Range(inp)
                         \cup (IF notMono THEN {Neg(l) : l \in Range(inp)} ELSE {})

\* Mutated form: only the forward clauses of a gate leave the index.
CheckForward(out) ==
  LET verdict == Verdict(out)
      fwd == index[Neg(out)]
      inp == GetInputLiterals(Neg(out), fwd)
  IN /\ solver' = verdict.solver
     /\ IF verdict.type = "NONE"
          THEN UNCHANGED <<gates, inputs, index, frontier>>
          ELSE /\ AddGate(verdict.type, out, fwd, index[out], inp)
               /\ index' = RemoveAll(index, fwd)
               /\ frontier' = frontier \cup Range(inp)
     /\ UNCHANGED <<formula, unitc, max_literal, root_clauses, timeout, roots, levelVars, pc>>

\* One candidate: checkAddGate, and on success the gate's clauses leave the index
\* and its inputs join the frontier.
Check(out) ==
  LET verdict == Verdict(out)
      fwd == index[Neg(out)]
      bwd == index[out]
      inp == GetInputLiterals(Neg(out), fwd)
  IN /\ solver' = verdict.solver
     /\ IF verdict.type = "NONE"
          THEN UNCHANGED <<gates, inputs, index, frontier>>
          ELSE /\ AddGate(verdict.type, out, fwd, bwd, inp)
               /\ index' = RemoveAll(RemoveAll(index, fwd), bwd)
               /\ frontier' = frontier \cup Range(inp)
     /\ UNCHANGED <<formula, unitc, max_literal, root_clauses, timeout, roots, levelVars, pc>>

CheckCandidate ==
  /\ pc = "recognize"
  /\ candidates # <<>>
  /\ Check(Head(candidates))
  /\ candidates' = Tail(candidates)
  /\ UNCHANGED pool

CheckPool ==
  /\ pc = "recognize"
  /\ candidates = <<>>
  /\ \E out \in pool : Check(out) /\ pool' = pool \ {out}
  /\ UNCHANGED candidates

\* within_limits_or_throw opens every round: its exception ends the analysis.
RoundOrThrow == {"recognize"} \cup (IF MayTimeOut THEN {"thrown"} ELSE {})

\* Mutated form: the frontier is not cleared for the next round.
NextRoundKeeping ==
  /\ pc = "recognize"
  /\ candidates = <<>> /\ pool = {}
  /\ pool' = frontier
  /\ IF frontier = {} THEN pc' = "estimate" ELSE pc' \in RoundOrThrow
  /\ UNCHANGED <<formula, indexVars, root_clauses, timeout, gateVars, candidates, frontier, levelVars>>

\* The next round of gate_recognition; it ends when the frontier is empty.
NextRound ==
  /\ pc = "recognize"
  /\ candidates = <<>> /\ pool = {}
  /\ pool' = frontier
  /\ frontier' = {}
  /\ IF frontier = {} THEN pc' = "estimate" ELSE pc' \in RoundOrThrow
  /\ UNCHANGED <<formula, indexVars, root_clauses, timeout, gateVars, candidates, levelVars>>

-----------------------------------------------------------------------------
(* GateAnalyzer::analyze *)

Joined(clauses) ==
  LET upto[k \in 0 .. Len(clauses)] == IF k = 0 THEN <<>> ELSE upto[k - 1] \o formula[clauses[k]]
  IN upto[Len(clauses)]

AddRoots ==
  /\ pc = "loop"
  /\ root_clauses # <<>>
  /\ roots' = roots \o root_clauses
  /\ inputs' = inputs \cup UNION {Lit(c) : c \in Range(root_clauses)}
  /\ candidates' = Joined(root_clauses)
  /\ root_clauses' = <<>>
  /\ pc' \in RoundOrThrow
  /\ UNCHANGED <<formula, indexVars, timeout, gates, solver, pool, frontier, levelVars>>

\* The clock is read after the next roots have been taken out of the index, and
\* never before the first round.
TimeOut ==
  /\ pc = "loop"
  /\ MayTimeOut
  /\ roots # <<>>
  /\ timeout' = TRUE
  /\ root_clauses' = <<>>
  /\ pc' = "levels"
  /\ UNCHANGED <<formula, indexVars, gateVars, searchVars, levelVars>>

\* The loop ends; what is left in the index is the remainder.
Finish ==
  /\ pc = "loop"
  /\ root_clauses = <<>>
  /\ pc' = "levels"
  /\ UNCHANGED <<formula, indexVars, root_clauses, timeout, gateVars, searchVars, levelVars>>

Remainder == UNION {Range(index[l]) : l \in Lits}

-----------------------------------------------------------------------------
(* GateStats::analyze: breadth-first levels.  The array has n_vars entries, *)
(* the variables are indexed 1 .. n_vars.                                   *)

StartLevels ==
  /\ pc = "levels"
  /\ \E g \in Garbage :
       /\ beyond' = g
       /\ levels' = [v \in Vars |-> IF v < NVars(formula) THEN 0 ELSE g]
  /\ level' = 0
  /\ current' = UNION {Lit(c) : c \in Range(roots)}
  /\ pc' = "level"
  /\ UNCHANGED <<formula, indexVars, root_clauses, timeout, gateVars, searchVars>>

NextLevel ==
  /\ pc = "level"
  /\ current # {}
  /\ level' = level + 1
  /\ LET reached == {v \in {Var(l) : l \in current} : IsDefined(v) /\ levels[v] = 0}
     IN /\ levels' = [v \in Vars |-> IF v \in reached THEN level' ELSE levels[v]]
        /\ current' = UNION {Range(gates[v].inp) : v \in reached}
  /\ UNCHANGED <<formula, indexVars, root_clauses, timeout, gateVars, searchVars, beyond, pc>>

EndLevels ==
  /\ pc = "level"
  /\ current = {}
  /\ pc' = "done"
  /\ UNCHANGED <<formula, indexVars, root_clauses, timeout, gateVars, searchVars, levelVars>>

\* The program has ended.
Done == pc \in {"done", "thrown"} /\ UNCHANGED vars

-----------------------------------------------------------------------------
Init ==
  /\ formula \in {ReadClauses(F) : F \in Inputs}
  /\ unitc = Ascending({c \in DOMAIN formula : Len(formula[c]) = 1}, Len(formula))
  /\ index = [l \in Lits |->
                Ascending({c \in DOMAIN formula : Len(formula[c]) # 1 /\ l \in Lit(c)}, Len(formula))]
  /\ max_literal = 2 * NVars(formula) + 1
  /\ root_clauses = <<>> /\ timeout = FALSE
  /\ roots = <<>> /\ gates = [v \in Vars |-> NoGate] /\ inputs = {}
  /\ solver = [clauses |-> {}, open |-> {}]
  /\ candidates = <<>> /\ pool = {} /\ frontier = {}
  /\ levels = <<>> /\ beyond = 0 /\ level = 0 /\ current = {}
  /\ pc = "estimate"

Next == EstimateRoots \/ AddRoots \/ TimeOut \/ Finish \/ CheckCandidate \/ CheckPool
          \/ NextRound \/ StartLevels \/ NextLevel \/ EndLevels \/ Done

Spec == Init /\ [][Next]_vars /\ WF_vars(Next)
-----------------------------------------------------------------------------
(* Properties *)

Clauses == DOMAIN formula
GateVars == {v \in Vars : IsDefined(v)}
Defining(v) == Range(gates[v].fwd) \cup Range(gates[v].bwd)

Places(c) ==
  (IF c \in Range(roots) THEN 1 ELSE 0) + (IF c \in Range(root_clauses) THEN 1 ELSE 0)
    + (IF c \in Range(unitc) THEN 1 ELSE 0) + (IF c \in Remainder THEN 1 ELSE 0)
    + Cardinality({v \in GateVars : c \in Defining(v)})

\* GateFormula: the roots, the gates and the remainder ("clauses remaining outside
\* of recognized gate-structure") partition the formula, at every step, as long as
\* the time limit has not been reached; analyze then drops the roots it took last.
PartitionInTime == timeout \/ \A c \in Clauses : Places(c) = 1

\* Gates depend on each other without a cycle: among any of them there is one whose
\* output is not constrained by the clauses of another.  Solvers that branch on
\* the inputs only rely on it.
GatesAcyclic ==
  \A D \in (SUBSET GateVars) \ {{}} :
    \E v \in D : \A w \in D \ {v} : \A c \in Defining(w) : \A l \in Lit(c) : Var(l) # v

PatternGates == {v \in GateVars : gates[v].type # "GENERIC"}

\* GateAnalyzer.h:219 "absence of redundancy": no clause is there twice, which the
\* tool does not check.
NoDuplicates == \A c, d \in Clauses : Lit(c) = Lit(d) => c = d

\* The gates recognised by a pattern define their outputs: every assignment of all
\* other variables extends to the outputs in exactly one way, all gates together.
\* This is what CaDiCaL takes for granted of an auxiliary variable.
PatternsDetermined ==
  NoDuplicates => \A s \in [Vars \ PatternGates -> BOOLEAN] :
    Cardinality({t \in [PatternGates -> BOOLEAN] :
                   LET all == [v \in Vars |-> IF v \in PatternGates THEN t[v] ELSE s[v]]
                   IN \A v \in PatternGates : \A c \in Defining(v) : Satisfied(Lit(c), all)}) = 1

\* The literals used under the roots: both polarities of the inputs of a gate that is
\* itself used in both.
Closed(U) ==
  /\ \A c \in Range(roots) : Lit(c) \subseteq U
  /\ \A v \in GateVars :
       /\ gates[v].out \in U => Range(gates[v].inp) \subseteq U
       /\ {2 * v, 2 * v + 1} \subseteq U => {Neg(l) : l \in Range(gates[v].inp)} \subseteq U

\* GateFormula::addGate decides once and for all whether a gate is nested
\* monotonically; gates found later never make that decision wrong.
MonotonicityExact ==
  pc = "done" =>
    LET used == CHOOSE U \in SUBSET Lits : Closed(U) /\ \A W \in SUBSET U : Closed(W) => W = U
    IN \A v \in GateVars : gates[v].notMono <=> {2 * v, 2 * v + 1} \subseteq used

\* GateStats, "BFS for level determination": every gate has a level, every other
\* variable has none, as long as the memory behind the array, which holds the level of
\* the last variable, happens to be zero.
LevelsAssigned == pc = "done" /\ beyond = 0 => \A v \in Vars : levels[v] > 0 <=> IsDefined(v)

\* What is said of each gate: a pattern gate defines its output, the flag notMono is
\* exact, and the level is there.
GatesRight == PatternsDetermined /\ MonotonicityExact /\ LevelsAssigned

\* Recognition never goes in circles: the analysis ends.
Terminates == <>(pc \in {"done", "thrown"})

-----------------------------------------------------------------------------
(* Why no clause gets lost and no cycle arises: the inductive invariant. *)

\* The literals of the variables.
Used == 2 .. 2 * NVars(formula) + 1

\* The formula as it has been read: ascending clauses, none of them a tautology.
FormulaRight ==
  /\ formula \in Seq(Seq(Nat)) /\ NVars(formula) \in Nat
  /\ \A c \in Clauses :
       /\ Lit(c) # {} /\ Lit(c) \subseteq Used /\ ~Tautology(Lit(c))
       /\ \A i, j \in DOMAIN formula[c] : i < j => formula[c][i] < formula[c][j]

AnalysisTypeOK ==
  /\ {root_clauses, roots, unitc} \subseteq Seq(Clauses) /\ timeout \in BOOLEAN
  /\ max_literal \in 0 .. 2 * NVars(formula) + 1
  /\ candidates \in Seq(Used) /\ pool \subseteq Used /\ frontier \subseteq Used
  /\ DOMAIN gates = Vars
  /\ \A v \in GateVars : /\ gates[v].out \in Used /\ Var(gates[v].out) = v
                         /\ {gates[v].fwd, gates[v].bwd} \subseteq Seq(Clauses)
                         /\ gates[v].inp \in Seq(Used)

\* The lists of the literals in K have the clauses of R, each once, and the other lists
\* are empty.
IndexHolds(ix, R, K) ==
  /\ ix \in [Lits -> Seq(Clauses)]
  /\ \A l \in Lits : /\ IsInjective(ix[l])
                     /\ Range(ix[l]) = IF l \in K THEN {c \in R : l \in Lit(c)} ELSE {}

\* What is taken out of the index is one thing.
Apart ==
  /\ Range(roots) \cap Range(root_clauses) = {}
  /\ (Range(roots) \cup Range(root_clauses)) \cap (Range(unitc) \cup Remainder) = {}
  /\ Range(unitc) \cap Remainder = {}
  /\ \A v \in GateVars :
       /\ Defining(v) \cap (Range(roots) \cup Range(root_clauses) \cup Range(unitc) \cup Remainder) = {}
       /\ \A w \in GateVars \ {v} : Defining(v) \cap Defining(w) = {}

Covered ==
  \/ timeout
  \/ Clauses = Range(roots) \cup Range(root_clauses) \cup Range(unitc) \cup Remainder
                 \cup UNION {Defining(v) : v \in GateVars}

\* No clause is left that has the output of a gate, so that it cannot get into the
\* definition of another gate that is found later.
OutputsGone == \A v \in GateVars, c \in Remainder : Lit(c) \cap {2 * v, 2 * v + 1} = {}

AnalysisInv ==
  /\ FormulaRight /\ AnalysisTypeOK
  /\ IndexHolds(index, Remainder, Lits)
  /\ Apart /\ Covered /\ OutputsGone /\ GatesAcyclic
  /\ pc \in {"estimate", "recognize"} => root_clauses = <<>>

-----------------------------------------------------------------------------
(* Why the gates are right: its inductive invariant. *)

\* The clauses of D leave one value for v, whatever the other variables are.
Determines(D, v) ==
  \A s \in [Vars -> BOOLEAN] : \E b \in BOOLEAN : \A a \in BOOLEAN :
    (\A c \in D : Satisfied(Lit(c), [s EXCEPT ![v] = a])) <=> a = b

\* The literals marked as inputs are the ones used under the roots, and no clause that
\* is going to be a root or part of a gate has the output of a gate.
InputsExact ==
  /\ inputs \subseteq Used /\ Range(candidates) \cup pool \cup frontier \subseteq inputs
  /\ Closed(inputs) /\ \A U \in SUBSET Lits : Closed(U) => inputs \subseteq U
  /\ \A v \in GateVars : gates[v].notMono <=> {2 * v, 2 * v + 1} \subseteq inputs
  /\ pc # "estimate" => unitc = <<>>
  /\ unitc # <<>> => GateVars = {}
  /\ \A v \in GateVars, c \in Range(root_clauses) : Lit(c) \cap {2 * v, 2 * v + 1} = {}

GatesOf(L) == {v \in GateVars : \E l \in L : Var(l) = v}
RootLits == UNION {Lit(c) : c \in Range(roots)}
InputLits(V) == UNION {Range(gates[v].inp) : v \in V}

\* Whatever has the gates of the roots and with a gate the gates of its inputs has all gates.
AllReached ==
  /\ Range(candidates) \subseteq RootLits /\ pool \cup frontier \subseteq InputLits(GateVars)
  /\ \A X \in SUBSET GateVars : GatesOf(RootLits \cup InputLits(X)) \subseteq X => X = GateVars

\* Breadth-first search: a gate used by a gate with a level has a level or is next.
LevelsExact ==
  pc \in {"level", "done"} /\ beyond = 0 =>
    /\ levels \in [Vars -> Nat] /\ level \in Nat /\ (pc = "done" => current = {})
    /\ \A v \in Vars : levels[v] > 0 => v \in GateVars
    /\ \A v \in GatesOf(RootLits \cup InputLits({u \in Vars : levels[u] > 0})) :
         levels[v] > 0 \/ \E l \in current : Var(l) = v

\* Each pattern gate for itself; GatesAcyclic makes it hold of all together.
PatternsDefine == NoDuplicates => \A v \in PatternGates : Determines(Defining(v), v)

GatesInv == AnalysisInv /\ PatternsDefine /\ InputsExact /\ AllReached /\ LevelsExact
=============================================================================
