--------------------------- MODULE Simplification ---------------------------
(***************************************************************************)
(* Techniques that only add clauses that follow and remove clauses that    *)
(* are implied: subsumption, vivification, probing with hyper binary       *)
(* resolution, hyper ternary resolution, equivalent literal substitution   *)
(* ("decompose"), removal of duplicated and of transitive binary clauses.  *)
(* Every operator maps a database to the set of databases that the code    *)
(* may leave.                                                              *)
(***************************************************************************)
EXTENDS Elimination, Functions

IsRed(d, c) == c \notin d.irr
Stored(d) == d.irr \cup d.red
Free(d, c) == \A l \in c : ~Valued(d, l)

MarkClause(d, c, red) == IF red THEN MarkRedGarbage(d, {c}) ELSE MarkGarbage(d, {c})

(* assign_unit and propagate: l, and what it implies. *)
UnitPropagated(d, l) == IF d.unsat THEN d ELSE Propagate(AssignUnit(d, l))

-----------------------------------------------------------------------------
(* subsume *)

(* subsume_clause: a redundant clause that subsumes an irredundant one     *)
(* becomes irredundant.                                                    *)
Promote(d, e) ==
    LET p == [d EXCEPT !.irr = @ \cup {e}, !.red = @ \ {e}]
    IN  IF e \in d.irr THEN Logged(p, "delete", e) ELSE p

SubsumeClause(d, e, c, red) ==
    LET rest == MarkClause(d, c, red)
    IN  IF ~red /\ e \in d.red /\ e # c THEN Promote(rest, e) ELSE rest

(* try_to_subsume_clause: c, of the redundancy red, with the clause e.     *)
(* Clauses with an assigned literal do not take part.                      *)
SubsumeWith(d, c, red, e) ==
    LET flipped == {l \in c : -l \in e}
        common == e \ Neg(flipped)
    IN  IF Cardinality(c) < 3 \/ ~Free(d, c) \/ ~Free(d, e) \/ ~(common \subseteq c) THEN {}
        ELSE IF flipped = {} THEN IF e = c THEN {} ELSE {SubsumeClause(d, e, c, red)}
        ELSE IF Cardinality(flipped) > 1 THEN {}
        ELSE {Strengthen(d, c, CHOOSE l \in flipped : TRUE, red)}

(* subsume: propagate, subsume_round, connect the watches, propagate. *)
Subsumed(d, c, red) ==
    IF d.unsat THEN {d}
    ELSE {Propagate(ConnectWatches(s)) : s \in UNION {SubsumeWith(d, c, red, e) : e \in Stored(d)}}

-----------------------------------------------------------------------------
(* vivify_clause for c of the redundancy red over the watched clauses S    *)
(* other than c.                                                           *)
Trail(d, S, D) == Closure(S, d.units \cup Neg(D))

(* The literals of c that are decided to be false, in any order: each is   *)
(* unassigned when it is decided.                                          *)
DecideMore(d, S, c, D, A) ==
    IF Conflict(S, A) THEN {} ELSE {D \cup {l} : l \in {x \in c : x \notin A /\ -x \notin A}}

Decisions(d, S, c) ==
    LET more[n \in Nat] ==
            IF n = 0 THEN {{}}
            ELSE more[n - 1] \cup
                 UNION {DecideMore(d, S, c, D, Trail(d, S, D)) : D \in more[n - 1]}
    IN  more[Cardinality(c)]

(* vivify_strengthen: the clause k replaces c. *)
VivifyStrengthen(d, S, c, k, red) ==
    LET One == CHOOSE l \in k : TRUE
        Over(e) == PropagateOver(e, S, Closure(S, e.units))
    IN  MarkClause(IF Cardinality(k) = 1 THEN Over(AssignUnit(d, One)) ELSE NewClause(d, k, red),
                   c, red)

(* The clause is implied by the decisions D, as a conflict (s = {}) or     *)
(* through its literal s.  An irredundant clause is removed; a redundant   *)
(* one is removed when binary clauses suffice, and otherwise it is         *)
(* replaced by the literals K that the analysis met.                       *)
Reaches(S, A, s) == IF s = {} THEN Conflict(S, A) ELSE s \subseteq A
BinariesOf(S) == {c \in S : Cardinality(c) = 2}

VivifyImplied(d, S, c, D, s, red) ==
    LET B == BinariesOf(S)
        Kept == {K \in SUBSET D : K \cup s # {} /\ Reaches(S, Trail(d, S, K), s)}
    IN  IF ~red THEN {MarkClause(d, c, red)}
        ELSE (IF Reaches(B, Trail(d, B, D), s) THEN {MarkClause(d, c, red)} ELSE {}) \cup
             {IF K \cup s = Live(d.units, c) THEN d
              ELSE VivifyStrengthen(d, S, c, K \cup s, red) : K \in Kept}

(* What follows from the decisions D with the assignment A. *)
VivifyFrom(d, S, c, D, A, red) ==
    IF Conflict(S, A) THEN VivifyImplied(d, S, c, D, {}, red)
    ELSE IF c \cap A # {} THEN UNION {VivifyImplied(d, S, c, D, {l}, red) : l \in c \cap A}
    ELSE IF \E l \in c : -l \notin A THEN {}
    ELSE IF D = Live(d.units, c) THEN {d}
    ELSE {VivifyStrengthen(d, S, c, D, red)}

VivifyClause(d, S, c, red) ==
    IF Sat(d.units, c) THEN {MarkClause(d, c, red)}
    ELSE UNION {VivifyFrom(d, S, c, D, Trail(d, S, D), red) :
                   D \in Decisions(d, S, c)}

(* flush_vivification_schedule: clauses with a subset of the same kind. *)
VivifyFlush(d, red) ==
    LET T == {c \in (IF red THEN d.red ELSE d.irr) : Cardinality(c) > 2}
    IN  {c \in T : \E e \in T \ {c} : e \subseteq c}

-----------------------------------------------------------------------------
(* probe_round for one probe.  parent maps the assigned literals to the    *)
(* literal that dominates them, the probe to itself.                       *)
Ancestors(parent, l) ==
    LET up[n \in Nat] == IF n = 0 THEN {l} ELSE up[n - 1] \cup {parent[x] : x \in up[n - 1]}
    IN  up[Cardinality(DOMAIN parent)]

(* probe_dominator of a set of literals. *)
Dominator(parent, L) ==
    LET Common == {a \in DOMAIN parent : \A l \in L : a \in Ancestors(parent, l)}
    IN  CHOOSE a \in Common : Common \subseteq Ancestors(parent, a)

Child(parent, l, p) == [x \in DOMAIN parent \cup {l} |-> IF x = l THEN p ELSE parent[x]]

Forced(d, A, c) == ~Sat(A, c) /\ Cardinality(Live(A, c)) = 1
ForcedLit(A, c) == CHOOSE l \in Live(A, c) : TRUE

(* hyper_binary_resolve on a long reason c with the dominator dom. *)
HyperBinary(d, c, dom, l) ==
    LET red == -dom \notin c \/ IsRed(d, c)
        e == NewClause(d, {-dom, l}, red)
    IN  IF -dom \in c THEN MarkClause(e, c, IsRed(d, c)) ELSE e

ProbeLong(d, parent, c, dom, l, hbr) ==
    [db |-> IF hbr /\ Cardinality(c \ Neg(d.units)) > 2 THEN HyperBinary(d, c, dom, l) ELSE d,
     parent |-> Child(parent, l, dom)]

(* One assignment of probe_propagate: binary clauses come first. *)
ProbeAssign(s, c, A, hbr) ==
    LET l == ForcedLit(A, c)
        F == Neg(c \ {l}) \cap DOMAIN s.parent
    IN  IF Cardinality(c) = 2 THEN [s EXCEPT !.parent = Child(s.parent, l, CHOOSE x \in F : TRUE)]
        ELSE ProbeLong(s.db, s.parent, c, Dominator(s.parent, F), l, hbr)

ProbeStep(s, A, hbr) ==
    LET R == {c \in Watched(s.db) : Forced(s.db, A, c)}
        B == BinariesOf(R)
    IN  IF Conflict(Watched(s.db), A) \/ R = {} THEN {s}
        ELSE {ProbeAssign(s, c, A, hbr) : c \in IF B # {} THEN B ELSE R}

ProbePropagate(d, probe, hbr) ==
    LET more[n \in Nat] ==
            IF n = 0 THEN {[db |-> d, parent |-> [x \in {probe} |-> probe]]}
            ELSE UNION {ProbeStep(s, s.db.units \cup DOMAIN s.parent, hbr) : s \in more[n - 1]}
    IN  more[Cardinality(UNION {VarsOf(c) : c \in Watched(d)})]

(* failed_literal: the negated dominator of the conflict is a unit, and    *)
(* so are the negations of the literals above it, from the probe down.     *)
FailedUnits(d, uip, chain) ==
    FoldSet(LAMBDA p, e : IF e.unsat \/ -p \in e.units THEN e
                          ELSE IF p \in e.units THEN LearnEmpty(e)
                          ELSE UnitPropagated(e, -p),
            UnitPropagated(d, -uip), chain)

ProbeDone(s, A) ==
    LET S == Watched(s.db)
    IN  IF ~Conflict(S, A) THEN {s.db}
        ELSE {FailedUnits(s.db, u, Ancestors(s.parent, u) \ {u}) :
                 u \in {Dominator(s.parent, Neg(c) \cap DOMAIN s.parent) :
                           c \in {x \in S : Live(A, x) = {}}}}

(* Probes are roots of the binary implication graph. *)
IsProbe(d, l) ==
    LET B == {c \in Stored(d) : ~Sat(d.units, c) /\ Cardinality(Live(d.units, c)) = 2}
    IN  /\ ~Valued(d, l)
        /\ \E c \in B : -l \in c
        /\ \A c \in B : l \notin c

Probed(d, l, hbr) ==
    UNION {ProbeDone(s, s.db.units \cup DOMAIN s.parent) : s \in ProbePropagate(d, l, hbr)}

-----------------------------------------------------------------------------
(* hyper_ternary_resolve of c with pivot and e with -pivot. *)
TernaryResolvents(d, c, e, pivot) ==
    LET r == (c \ {pivot}) \cup (e \ {-pivot})
    IN  IF \/ \E l \in r : -l \in r
           \/ Cardinality(r) > 3
           \/ \E x \in Stored(d) : x \subseteq r /\ Cardinality(x) \in {2, 3}
        THEN {} ELSE {r}

(* ternary_lit: a resolvent of two literals replaces both clauses. *)
TernaryLit(d, c, e, pivot) ==
    {IF Cardinality(r) = 3 THEN NewClause(d, r, TRUE)
     ELSE MarkClause(MarkClause(NewClause(d, r, IsRed(d, c) /\ IsRed(d, e)),
                                c, IsRed(d, c)), e, IsRed(d, e)) :
        r \in TernaryResolvents(d, c, e, pivot)}

Ternary(d, pivot) ==
    LET T == {c \in Stored(d) : Cardinality(c) = 3 /\ Free(d, c)}
    IN  UNION {TernaryLit(d, c, e, pivot) :
                 c \in {x \in T : pivot \in x}, e \in {x \in T : -pivot \in x}}

-----------------------------------------------------------------------------
(* decompose_round.  Reach: the literals l implies along watched binary    *)
(* clauses over active variables.                                          *)
Edges(S, l) == {CHOOSE o \in c : o # -l : c \in {x \in S : -l \in x}}

Reach(S, l) ==
    LET more[n \in Nat] ==
            IF n = 0 THEN {l} ELSE more[n - 1] \cup UNION {Edges(S, x) : x \in more[n - 1]}
    IN  more[2 * Cardinality(UNION {VarsOf(c) : c \in S})]

Scc(S, l) == {o \in Reach(S, l) : l \in Reach(S, o)}

(* The representative has the smallest variable; frozen literals stay. *)
Smallest(C) == CHOOSE l \in C : \A o \in C : Var(l) <= Var(o)
Repr(S, l, frozen) == IF Var(l) \in frozen THEN l ELSE Smallest(Scc(S, l))

(* Substitution in the clause c of the redundancy red.  s has the database *)
(* and the postponed garbage.                                              *)
SubstitutedBy(s, c, red, t) ==
    IF Sat(s.db.units, c \cup t) \/ \E l \in t : -l \in t
    THEN [s EXCEPT !.postponed = @ \cup {<<c, red>>}]
    ELSE LET k == Live(s.db.units, t)
         IN  IF k = {} THEN [s EXCEPT !.db = LearnEmpty(@)]
             ELSE IF Cardinality(k) = 1
             THEN [s EXCEPT !.db = MarkClause(AssignUnit(@, CHOOSE l \in k : TRUE), c, red)]
             ELSE [s EXCEPT !.db = MarkClause(NewClause(@, k, red), c, red)]

Substitute(s, c, red, repr) ==
    IF s.db.unsat \/ \A l \in c : repr[l] = l THEN s
    ELSE SubstitutedBy(s, c, red, {repr[l] : l \in {x \in c : -x \notin s.db.units}})

SubstituteAll(d, repr) ==
    FoldSet(LAMBDA c, s : Substitute(s, c, TRUE, repr),
            FoldSet(LAMBDA c, s : Substitute(s, c, FALSE, repr),
                    [db |-> d, postponed |-> {}], d.irr),
            d.red)

Postponed(s) ==
    IF s.db.unsat THEN s.db
    ELSE Propagate(FoldSet(LAMBDA p, e : MarkClause(e, p[1], p[2]), s.db, s.postponed))

(* Two binary clauses on the extension stack keep the equivalence. *)
MarkSubstituted(d, v, o) ==
    [Push(Push(d, {-v}, {-v, o}), {v}, {v, -o}) EXCEPT
        !.inactive = IF Valued(d, o) THEN @ ELSE @ \cup {v}]

Substituted(d, V, repr) ==
    FoldSet(LAMBDA v, e : IF e.unsat \/ Valued(e, v) \/ repr[v] = v THEN e
                          ELSE MarkSubstituted(e, v, repr[v]),
            d, V)

DecomposeWith(d, V, repr) ==
    ConnectWatches(Substituted(Postponed(SubstituteAll(d, repr)), V, repr))

Decompose(d, V, frozen) ==
    LET active == {v \in V : v \notin d.inactive /\ ~Valued(d, v)}
        S == {c \in BinariesOf(Watched(d)) : VarsOf(c) \subseteq active}
        failed == {l \in active : -l \in Scc(S, l)}
    IN  IF d.unsat THEN d
        ELSE IF failed # {} THEN LearnEmpty(AssignUnit(d, CHOOSE l \in failed : TRUE))
        ELSE DecomposeWith(d, active,
                           [l \in LitsOver(V) |-> IF Var(l) \in active THEN Repr(S, l, frozen)
                                                  ELSE l])

-----------------------------------------------------------------------------
(* mark_duplicated_binary_clauses_as_garbage *)
Deduplicate(d) ==
    LET e == MarkRedGarbage(d, BinariesOf(d.irr \cap d.red))
        U == {l \in UNION Stored(d) : ~Valued(d, l) /\
                \E c \in BinariesOf(Stored(d)) : /\ l \in c
                                                /\ {l} \cup Neg(c \ {l}) \in Watched(d)}
    IN  IF d.unsat THEN d
        ELSE FoldSet(LAMBDA l, x : IF x.unsat \/ Valued(x, l) THEN x ELSE UnitPropagated(x, l), e, U)

(* transred for the binary clause c: a clause that others imply goes, and  *)
(* a literal that implies two opposite literals is negated.                *)
Transred(d, c, red) ==
    LET B == BinariesOf(IF red THEN d.irr \cup (d.red \ {c}) ELSE d.irr \ {c})
        Via(src, R) ==
            (IF (CHOOSE o \in c : o # -src) \in R THEN {MarkClause(d, c, red)} ELSE {}) \cup
            (IF \E l \in R : -l \in R THEN {UnitPropagated(d, -src)} ELSE {})
    IN  IF d.unsat \/ ~Free(d, c) THEN {} ELSE UNION {Via(src, Reach(B, src)) : src \in Neg(c)}

(* reduce: redundant clauses that are not useful are removed. *)
Reduce(d, T) == IF d.unsat THEN d ELSE GarbageCollection(MarkRedGarbage(d, T))
=============================================================================
