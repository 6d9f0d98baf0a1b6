---------------------------- MODULE Elimination -----------------------------
(***************************************************************************)
(* Bounded variable elimination: resolution on a pivot with the unit,      *)
(* self-subsumption and satisfied cases found on the way, the search for   *)
(* gate clauses that define the pivot, backward subsumption with the new   *)
(* resolvents, and instantiation.  Only irredundant clauses take part.     *)
(*                                                                         *)
(* Every operator maps a database to the databases that the code may       *)
(* leave, which differ in the order of literals and occurrences.           *)
(***************************************************************************)
EXTENDS ClauseDb

None == {}

Occs(d, l) == {c \in d.irr : l \in c}

(* elim_propagate: unit propagation over occurrence lists.  It starts at   *)
(* the unit root and only visits irredundant clauses with a newly false    *)
(* literal.                                                                *)
Visited(d, W) == {c \in d.irr : c \cap Neg(W) # {}}

NewUnits(d, root) ==
    LET round[n \in Nat] ==
            IF n = 0 THEN {root}
            ELSE LET W == round[n - 1]
                     A == d.units \cup W
                 IN  IF \E l \in A : -l \in A THEN W
                     ELSE W \cup (Implied(Visited(d, W), A) \ d.units)
    IN  round[Cardinality(d.irr) + 1]

(* The visited clauses that are satisfied become garbage, and those with a *)
(* newly true literal.                                                     *)
ElimAssign(d, new) ==
    LET all == d.units \cup new
    IN  IF Conflict(Visited(d, new), all) THEN LearnEmpty(d)
        ELSE MarkGarbage(AssignUnits(d, d.irr, new),
                         {c \in d.irr : Sat(new, c) \/ (Sat(all, c) /\ c \cap Neg(new) # {})})

Unit(d, l) == ElimAssign(AssignUnit(d, l), NewUnits(AssignUnit(d, l), l))

(* elim_on_the_fly_self_subsumption: c loses the pivot and its false       *)
(* literals.                                                               *)
OnTheFly(d, c, pivot) ==
    MarkGarbage(NewClause(d, Live(d.units, c) \ {pivot}, FALSE), {c})

(* resolve_clauses of c with pivot and e with -pivot, where c is not the   *)
(* longer one: the database, and the resolvent, None if there is no clause *)
(* to add.                                                                 *)
NoResolvent(d) == [db |-> d, resolvent |-> None]

ResolveShorter(d, c, pivot, e, eager) ==
    LET s == Live(d.units, c)
        t == Live(d.units, e)
        r == (s \ {pivot}) \cup (t \ {-pivot})
        Shorter(x) == Cardinality(r) < Cardinality(x)
        One == CHOOSE x \in r : TRUE
    IN  IF Sat(d.units, c) THEN NoResolvent(MarkGarbage(d, {c}))
        ELSE IF Sat(d.units, e) THEN NoResolvent(MarkGarbage(d, {e}))
        ELSE IF \E l \in r : -l \in r THEN NoResolvent(d)
        ELSE IF r = {} THEN NoResolvent(LearnEmpty(d))
        ELSE IF Cardinality(r) = 1
             THEN NoResolvent(IF eager THEN Unit(d, One) ELSE AssignUnit(d, One))
        ELSE IF Shorter(s)
             THEN NoResolvent(MarkGarbage(OnTheFly(d, c, pivot), IF Shorter(t) THEN {e} ELSE {}))
        ELSE IF Shorter(t) THEN NoResolvent(OnTheFly(d, e, -pivot))
        ELSE [db |-> d, resolvent |-> r]

ResolveClauses(d, c, pivot, e, eager) ==
    LET swap == Cardinality(c) > Cardinality(e)
    IN  ResolveShorter(d, IF swap THEN e ELSE c, IF swap THEN -pivot ELSE pivot,
                       IF swap THEN c ELSE e, eager)

-----------------------------------------------------------------------------
(* find_gate_clauses.  An effective binary clause of l has one literal     *)
(* besides l that is not false, and no true one.                           *)
Binaries(d, l) ==
    {c \in Occs(d, l) : ~Sat(d.units, c) /\ Cardinality(Live(d.units, c)) = 2}
Second(d, c, l) == CHOOSE o \in Live(d.units, c) : o # l

(* Of effective binaries with the same second literal the shortest stays.  *)
Doubles(d, l) ==
    {c \in Binaries(d, l) :
        \E b \in Binaries(d, l) \ {c} : /\ Live(d.units, b) = Live(d.units, c)
                                        /\ Cardinality(b) < Cardinality(c)}

SatisfiedOccs(d, l) == {c \in Occs(d, l) : Sat(d.units, c)}

Valued(d, l) == l \in d.units \/ -l \in d.units
Seconds(d, l) == {Second(d, c, l) : c \in Binaries(d, l)}

(* mark_binary_literals: two opposite second literals give the unit l,     *)
(* otherwise doubles and satisfied clauses go.                             *)
MarkBinaries(d, l) ==
    IF \E o \in Seconds(d, l) : -o \in Seconds(d, l) THEN Unit(d, l)
    ELSE MarkGarbage(d, Doubles(d, l) \cup SatisfiedOccs(d, l))

(* The units that find_equivalence meets afterwards: literals that the     *)
(* pivot and its negation both imply.                                      *)
SharedUnits(d, pivot) ==
    FoldSet(LAMBDA o, e : IF e.unsat \/ Valued(e, o) \/ Valued(e, pivot) THEN e ELSE Unit(e, o),
            d, Seconds(d, pivot) \cap Seconds(d, -pivot))

EquivalenceUnits(d, pivot) == SharedUnits(MarkBinaries(d, pivot), pivot)

Equivalences(d, pivot) ==
    {{t[1], t[2]} : t \in {u \in Binaries(d, pivot) \X Binaries(d, -pivot) :
                              Second(d, u[1], pivot) = -Second(d, u[2], -pivot)}}

(* find_and_gate: -pivot is the AND of the negated literals of c. *)
AndGates(d, pivot) ==
    LET bases == {c \in Occs(d, -pivot) :
                     /\ Cardinality(c) > 2 /\ ~Sat(d.units, c)
                     /\ Neg(Live(d.units, c) \ {-pivot}) \subseteq Seconds(d, pivot)}
    IN  {{c} \cup {b \in Binaries(d, pivot) : -Second(d, b, pivot) \in c} : c \in bases}

(* get_ternary_clause, get_clause: assigned literals are skipped, the true *)
(* ones as well as the false ones.                                         *)
Unassigned(d, c) == {l \in c : ~Valued(d, l)}

(* find_if_then_else *)
IfThenElses(d, pivot) ==
    LET Ternary(l) == {c \in Occs(d, l) : Cardinality(Unassigned(d, c)) = 3}
        Match(s) == {c \in d.irr : Unassigned(d, c) = s}
    IN  UNION {{{ci, cj, c1, c2} :
                   c1 \in UNION {Match({-pivot, b, -x}) :
                                    x \in (Unassigned(d, ci) \ {pivot, b})},
                   c2 \in UNION {Match({-pivot, -b, -y}) :
                                    y \in (Unassigned(d, cj) \ {pivot, -b})}} :
               <<ci, cj, b>> \in
                  {t \in Ternary(pivot) \X Ternary(pivot) \X UNION Ternary(pivot) :
                     /\ t[3] # pivot
                     /\ t[3] \in Unassigned(d, t[1]) /\ -t[3] \in Unassigned(d, t[2])
                     /\ VarsOf(Unassigned(d, t[1])) # VarsOf(Unassigned(d, t[2]))}}

(* find_xor_gate: all the clauses with an even number of signs flipped. *)
XorGates(d, pivot) ==
    LET Flips(s) == {(s \ f) \cup Neg(f) : f \in {x \in SUBSET s : Cardinality(x) % 2 = 0}}
        Found(s) == {c \in d.irr : Unassigned(d, c) = s}
    IN  {{CHOOSE c \in Found(s) : TRUE : s \in Flips(Unassigned(d, b))} :
            b \in {c \in Occs(d, pivot) : /\ Cardinality(Unassigned(d, c)) > 2
                                          /\ \A s \in Flips(Unassigned(d, c)) : Found(s) # {}}}

(* find_gate_clauses: the first kind of gate that is found.  The outcomes  *)
(* are pairs of the database and the gate clauses, {} if there are none.   *)
FirstGates(d, kinds) ==
    IF \A k \in DOMAIN kinds : kinds[k] = {} THEN {[db |-> d, gates |-> {}]}
    ELSE {[db |-> d, gates |-> g] : g \in kinds[Min({k \in DOMAIN kinds : kinds[k] # {}})]}

GatesAfterUnits(d, pivot) ==
    IF d.unsat \/ Valued(d, pivot) THEN {[db |-> d, gates |-> {}]}
    ELSE FirstGates(d, <<Equivalences(d, pivot), AndGates(d, pivot), AndGates(d, -pivot),
                         IfThenElses(d, pivot), XorGates(d, pivot)>>)

FindGates(d, pivot, subst) ==
    IF subst THEN GatesAfterUnits(EquivalenceUnits(d, pivot), pivot)
    ELSE {[db |-> d, gates |-> {}]}

-----------------------------------------------------------------------------
(* The loops over the pairs of clauses with the pivot and its negation.    *)
(* Occurrence lists are sorted by size; the order of clauses of the same   *)
(* size is arbitrary.                                                      *)
FirstPair(P) ==
    CHOOSE t \in P : \A u \in P :
        \/ Cardinality(t[1]) < Cardinality(u[1])
        \/ /\ Cardinality(t[1]) = Cardinality(u[1])
           /\ Cardinality(t[2]) <= Cardinality(u[2])

(* For a defined pivot a gate clause is resolved with another clause. *)
Resolved(d, t, gates) ==
    /\ t[1] \in d.irr /\ t[2] \in d.irr
    /\ gates # {} => (t[1] \in gates) # (t[2] \in gates)

(* elim_resolvents_are_bounded: the database that is left, and whether     *)
(* there are at most bound resolvents.  o is the outcome for the pair t.   *)
BoundedStep(s, t, o, pivot, bound) ==
    LET m == s.count + (IF o.resolvent = None THEN 0 ELSE 1)
    IN  [db |-> o.db, pairs |-> s.pairs \ {t}, count |-> m,
         ok |-> ~o.db.unsat /\ ~Valued(o.db, pivot) /\ m <= bound]

BoundedPair(s, t, pivot, gates, bound) ==
    IF ~s.ok THEN s
    ELSE IF ~Resolved(s.db, t, gates) THEN [s EXCEPT !.pairs = @ \ {t}]
    ELSE BoundedStep(s, t, ResolveClauses(s.db, t[1], pivot, t[2], TRUE), pivot, bound)

Bounded(d, pivot, gates, bound) ==
    LET P == Occs(d, pivot) \X Occs(d, -pivot)
        visit[n \in Nat] ==
            IF n = 0 THEN [db |-> d, pairs |-> P, count |-> 0, ok |-> TRUE]
            ELSE LET s == visit[n - 1]
                 IN  BoundedPair(s, FirstPair(s.pairs), pivot, gates, bound)
    IN  visit[Cardinality(P)]

(* elim_add_resolvents: the database and the new clauses.  Units are not   *)
(* propagated.                                                             *)
AddResolvent(s, t, o) ==
    IF o.resolvent = None THEN [s EXCEPT !.pairs = @ \ {t}, !.db = o.db]
    ELSE [db |-> NewClause(o.db, o.resolvent, FALSE), pairs |-> s.pairs \ {t},
          new |-> s.new \cup {o.resolvent}]

AddPair(s, t, pivot, gates) ==
    IF s.db.unsat THEN s
    ELSE IF ~Resolved(s.db, t, gates) THEN [s EXCEPT !.pairs = @ \ {t}]
    ELSE AddResolvent(s, t, ResolveClauses(s.db, t[1], pivot, t[2], FALSE))

AddResolvents(d, pivot, gates) ==
    LET P == Occs(d, pivot) \X Occs(d, -pivot)
        visit[n \in Nat] ==
            IF n = 0 THEN [db |-> d, pairs |-> P, new |-> {}]
            ELSE LET s == visit[n - 1]
                 IN  AddPair(s, FirstPair(s.pairs), pivot, gates)
    IN  visit[Cardinality(P)]

(* Mutated form: for a defined pivot nothing is kept for the extension. *)
PushEliminatedNoGates(d, pivot, gates) ==
    LET ps == Occs(d, pivot)
        ns == Occs(d, -pivot)
        Kept(S) == IF gates = {} THEN S ELSE {}
    IN  PushAll(PushAll(MarkGarbage(d, ps \cup ns), pivot, Kept(ps)), -pivot, Kept(ns))

(* mark_eliminated_clauses_as_garbage: the clauses of the pivot, or those  *)
(* that define it, go to the extension stack.                              *)
PushEliminated(d, pivot, gates) ==
    LET ps == Occs(d, pivot)
        ns == Occs(d, -pivot)
        Kept(S) == IF gates = {} THEN S ELSE S \cap gates
    IN  PushAll(PushAll(MarkGarbage(d, ps \cup ns), pivot, Kept(ps)), -pivot, Kept(ns))

(* try_to_eliminate_variable without the final backward subsumption: the   *)
(* database and the clauses to try backward subsumption with.  limit is    *)
(* lim.elimbound, and subst and backward are the options elimsubst and     *)
(* elimbackward.                                                           *)
Eliminated(a, pivot, gates, backward) ==
    LET e == IF a.db.unsat THEN a.db ELSE PushEliminated(a.db, pivot, gates)
    IN  [db |-> [e EXCEPT !.inactive = @ \cup {Var(pivot)}],
         queue |-> IF backward THEN a.new ELSE {}]

IfBounded(b, pivot, gates, backward) ==
    IF b.ok THEN Eliminated(AddResolvents(b.db, pivot, gates), pivot, gates, backward)
    ELSE [db |-> b.db, queue |-> {}]

TryToEliminate(d, pivot, limit, subst, backward) ==
    LET n == Cardinality(Occs(d, pivot)) + Cardinality(Occs(d, -pivot)) + limit
    IN  {IF o.db.unsat \/ Valued(o.db, pivot) THEN [db |-> o.db, queue |-> {}]
         ELSE IfBounded(Bounded(o.db, pivot, o.gates, n), pivot, o.gates, backward) :
            o \in FindGates(d, pivot, subst /\ Occs(d, pivot) # {})}

(* mark_redundant_clauses_with_eliminated_variables_as_garbage *)
DropRedundantOf(d) == MarkRedGarbage(d, {c \in d.red : VarsOf(c) \cap d.inactive # {}})

-----------------------------------------------------------------------------
(* elim_backward_clause for c and one clause e of the chosen occurrence    *)
(* list, with the live literals m of c.  satisfied is the flag of the      *)
(* function, which is never reset: once a satisfied clause is met, it      *)
(* holds for the clauses after it.  The outcomes: the database, the flag,  *)
(* whether e is to be enqueued, and whether the loop stops.                *)
BackwardVisit(d, c, m, e, satisfied) ==
    LET A == d.units
        pos == Live(A, e) \cap m
        opp == Live(A, e) \cap Neg(m)
        found == Cardinality(pos) + Cardinality(opp) = Cardinality(m)
        Out(x, sat, enq, stop) == {[db |-> x, satisfied |-> sat, again |-> enq, stop |-> stop]}
        Removed(sat) == Out(MarkGarbage(d, {e}), sat, None, FALSE)
        n == CHOOSE l \in opp : TRUE
        rest == Live(A, e) \ {n}
    IN  IF satisfied THEN Removed(TRUE)
        ELSE (IF Sat(A, e) THEN Removed(TRUE) ELSE {}) \cup
             (IF Cardinality(opp) > 1
              THEN Out(d, FALSE, None, TRUE)
              ELSE IF ~found THEN IF Sat(A, e) THEN {} ELSE Out(d, FALSE, None, FALSE)
              ELSE IF opp = {} THEN Removed(FALSE)
              ELSE IF Sat(A, rest) THEN Removed(TRUE)
              ELSE IF Cardinality(rest) = 1
                   THEN Out(Unit(d, CHOOSE l \in rest : TRUE), FALSE, None, TRUE)
              ELSE Out(Strengthen(d, e, n, FALSE), FALSE, e \ {n}, FALSE))

-----------------------------------------------------------------------------
(* instantiate_candidate: c and literal l of it, if assuming l and the     *)
(* negation of the rest leads to a conflict.  Propagation includes c.      *)
Instantiable(d, c, l) ==
    LET S == d.irr \cup d.red
    IN  /\ ~Sat(d.units, c)
        /\ Cardinality(Live(d.units, c)) > 2
        /\ l \in Live(d.units, c)
        /\ VarsOf(Live(d.units, c)) \cap d.inactive = {}
        /\ Conflict(S, Closure(S, d.units \cup {l} \cup Neg(c \ {l})))
=============================================================================
