----------------------------- MODULE Weakening ------------------------------
(***************************************************************************)
(* Techniques that remove irredundant clauses that do not follow from the  *)
(* others: blocked clause elimination, covered clause elimination and      *)
(* globally blocked clause elimination ("condition").  A removed clause    *)
(* goes to the extension stack with witness literals that repair a model   *)
(* of the rest.                                                            *)
(***************************************************************************)
EXTENDS Elimination

(* block: satisfied clauses and false literals are removed first. *)
BlockPrelude(d) ==
    LET e == Propagate(ConnectWatches(d))
    IN  IF e.unsat THEN e ELSE FlushFalse(DropSatisfied(e))

(* is_blocked_clause: every resolvent of c on l is a tautology. *)
Blocked(d, c, l) == \A e \in Occs(d, -l) : \E o \in (e \ {-l}) : -o \in c

(* block_pure_literal *)
BlockPure(d, l) ==
    DropRedundantOf([PushAll(MarkGarbage(d, Occs(d, l)), l, Occs(d, l))
                        EXCEPT !.inactive = @ \cup {Var(l)}])

(* block_literal_with_one_negative_occ: a clause with a second literal     *)
(* that the only clause with -l contradicts is blocked.                    *)
BlockedByOne(d, l) ==
    {c \in Occs(d, l) : \E o \in c \ {l} : \E e \in Occs(d, -l) : -o \in e}

(* block_candidates: a clause of which no other literal occurs negated in  *)
(* any clause with -l is not tried.                                        *)
BlockCandidates(d, l) ==
    LET nos == UNION Occs(d, -l) IN {c \in Occs(d, l) : \E o \in c \ {l} : -o \in nos}

(* block_impossible: some clause with -l contradicts no candidate. *)
BlockImpossible(d, l, S) == \E e \in Occs(d, -l) : Neg(e \ {-l}) \cap UNION S = {}

(* block_literal_with_at_least_two_negative_occs *)
BlockedBySeveral(d, l) ==
    LET S == BlockCandidates(d, l)
    IN  IF Cardinality(S) > 1 /\ BlockImpossible(d, l, S) THEN {}
        ELSE {c \in S : Blocked(d, c, l)}

(* block_literal *)
BlockLiteral(d, l) ==
    LET n == Cardinality(Occs(d, -l))
        B == IF n = 1 THEN BlockedByOne(d, l) ELSE BlockedBySeveral(d, l)
    IN  IF d.unsat \/ Valued(d, l) THEN d
        ELSE IF n = 0 THEN BlockPure(d, l)
        ELSE PushAll(MarkGarbage(d, B), l, B)

-----------------------------------------------------------------------------
(* cover_clause.  A cover is a record of the literals false that are       *)
(* assumed false, the literals covered of the extended clause, and the     *)
(* entries extend for the extension stack.                                 *)

(* cover_propagate_asymmetric until nothing is left: over the irredundant  *)
(* clauses other than c.                                                   *)
Asymmetric(d, c, v) == Closure(d.irr \ {c}, d.units \cup Neg(v.covered))

(* The clauses that cover_propagate_covered resolves on l, without their   *)
(* false literals.                                                         *)
Candidates(d, A, l) ==
    {Live(A, e) \ {-l} : e \in {x \in Occs(d, -l) : ~Sat(A, x \ {-l})}}

Covers(S) == {o \in UNION S : \A e \in S : o \in e}

(* One literal that covers more literals or blocks the extended clause. *)
CoverLiteral(d, v, A, l) ==
    LET S == Candidates(d, A, l)
    IN  [covered |-> v.covered \cup Covers(S),
         extend |-> Append(v.extend, [witness |-> {l}, clause |-> v.covered]),
         blocked |-> S = {}]

Extends(d, v, A, l) == LET S == Candidates(d, A, l) IN S = {} \/ Covers(S) # {}

(* The covers that can be reached from v.  The code tries the literals in  *)
(* the order in which they were covered; here the order is arbitrary.      *)
CoverStep(d, c, v, A, frozen) ==
    IF v.blocked \/ Conflict(d.irr \ {c}, A) THEN {v}
    ELSE LET L == {l \in v.covered : Var(l) \notin frozen /\ Extends(d, v, A, l)}
         IN  IF L = {} THEN {v} ELSE {CoverLiteral(d, v, A, l) : l \in L}

CoverSteps(d, c, V, frozen) ==
    UNION {CoverStep(d, c, v, Asymmetric(d, c, v), frozen) : v \in V}

(* The clause is removed when it became blocked or a tautology. *)
CoverDone(d, c, v) ==
    IF v.blocked \/ Conflict(d.irr \ {c}, Asymmetric(d, c, v))
    THEN [MarkGarbage(d, {c}) EXCEPT !.ext = @ \o v.extend]
    ELSE d

CoverClause(d, c, frozen) ==
    LET first == [covered |-> Live(d.units, c), extend |-> << >>, blocked |-> FALSE]
        steps[n \in Nat] == IF n = 0 THEN {first} ELSE CoverSteps(d, c, steps[n - 1], frozen)
    IN  IF Sat(d.units, c) THEN {MarkGarbage(d, {c})}
        ELSE {CoverDone(d, c, v) : v \in steps[Cardinality(UNION {VarsOf(e) : e \in d.irr}) + 1]}

(* cover: propagation, and cover_round drops satisfied clauses. *)
CoverPrelude(d) ==
    LET e == Propagate(ConnectWatches(d))
    IN  IF e.unsat THEN e ELSE MarkGarbage(e, {c \in e.irr : Sat(e.units, c)})

-----------------------------------------------------------------------------
(* condition_round.  A is the trail without its fixed and frozen literals, *)
(* extended by decisions to all active variables that are not frozen.      *)
Touched(A, c) == c \cap Neg(A) # {}

(* The initial conditional literals: true literals that occur negated in a *)
(* clause that A does not satisfy.                                         *)
Conditional(d, A) ==
    UNION {Neg(c) \cap A : c \in {x \in d.irr : Touched(A, x) /\ ~Sat(A, x)}}

(* The conditional literals for the candidate c: those whose negation is   *)
(* not in c are unassigned, and when a clause loses its last true literal  *)
(* the true literals it negates become conditional too.                    *)
ConditionalFor(d, A, c) ==
    LET more[n \in Nat] ==
            IF n = 0 THEN Conditional(d, A)
            ELSE LET K == more[n - 1]
                     B == A \ {l \in K : -l \notin c}
                 IN  K \cup UNION {Neg(e) \cap B :
                                     e \in {x \in d.irr : Sat(A, x) /\ ~Sat(B, x)}}
    IN  more[Cardinality(A) + 1]

Autarky(d, A, c) == A \ ConditionalFor(d, A, c)

(* The clauses that are globally blocked, among those of which A satisfies *)
(* a literal.                                                              *)
GloballyBlocked(d, A) == {c \in d.irr : Autarky(d, A, c) \cap c # {}}

(* The clauses of T are pushed and removed.  A clause removed in the same  *)
(* round still takes part in the propagation for the ones after it.        *)
Conditioned(d, A, T) ==
    MarkGarbage(FoldSet(LAMBDA c, e : Push(e, Autarky(d, A, c), c), d, T), T)

ConditionPrelude(d) == MarkGarbage(d, {c \in d.irr : Sat(d.units, c)})
=============================================================================
