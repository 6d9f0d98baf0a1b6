------------------------------ MODULE ClauseDb ------------------------------
(***************************************************************************)
(* The clause database of CaDiCaL and the elementary changes to it that    *)
(* the inprocessing techniques are made of.                                *)
(*                                                                         *)
(* Literals are non-zero integers, clauses are sets of literals, and a     *)
(* database is a record:                                                   *)
(*   irr, red   irredundant and redundant clauses that are not garbage     *)
(*   lag        garbage clauses of size two that are not yet collected:    *)
(*              the proof keeps them until then                            *)
(*   stale      the clauses of lag that are still in watch lists           *)
(*   units      literals assigned on the root level                        *)
(*   ext        the extension stack, a sequence of entries with a witness  *)
(*              and a clause                                               *)
(*   inactive   variables eliminated, substituted or pure                  *)
(*   unsat      the empty clause was learned                               *)
(*   log        the proof steps since the log was last read                *)
(* The order in which clauses and literals are stored, the flags that      *)
(* schedule candidates, glue and statistics are left out: which candidate  *)
(* is next is a nondeterministic choice.                                   *)
(***************************************************************************)
EXTENDS Integers, Sequences, FiniteSets, FiniteSetsExt

Var(l) == IF l < 0 THEN -l ELSE l
VarsOf(c) == {Var(l) : l \in c}
Neg(c) == {-l : l \in c}
LitsOver(V) == V \cup Neg(V)

(* The literals of c that the assignment A, a set of literals, leaves      *)
(* unfalsified, and whether A satisfies c.                                 *)
Live(A, c) == {l \in c : -l \notin A}
Sat(A, c) == c \cap A # {}

(* The literals that clauses of S imply in one round under A.              *)
Implied(S, A) ==
    UNION {IF Sat(A, c) \/ Cardinality(Live(A, c)) # 1 THEN {} ELSE Live(A, c) : c \in S}

(* Unit propagation: the least assignment above A closed under S.  Each    *)
(* round but the last assigns a variable of S, or the assignment becomes   *)
(* inconsistent and is left as it is.                                      *)
Closure(S, A) ==
    LET round[n \in Nat] ==
            IF n = 0 THEN A
            ELSE LET B == round[n - 1]
                 IN  IF \E l \in B : -l \in B THEN B ELSE B \cup Implied(S, B)
    IN  round[Cardinality(UNION {VarsOf(c) : c \in S}) + 1]

(* A falsifies a clause of S or contains two opposite literals.            *)
Conflict(S, A) == (\E c \in S : Live(A, c) = {}) \/ (\E l \in A : -l \in A)

-----------------------------------------------------------------------------
(* What class Proof passes on to the tracer and the checker: original      *)
(* clauses, derived clauses and deletions, in this order.                  *)
Logged(d, op, c) == [d EXCEPT !.log = Append(@, [op |-> op, clause |-> c])]
LoggedAll(d, op, S) == FoldSet(LAMBDA c, e : Logged(e, op, c), d, S)

(* new_clause, of the redundancy red.  A clause that is already there with *)
(* this redundancy is not stored twice.                                    *)
NewClause(d, c, red) ==
    LET twice == c \in IF red THEN d.red ELSE d.irr
        e == IF red THEN [d EXCEPT !.red = @ \cup {c}] ELSE [d EXCEPT !.irr = @ \cup {c}]
    IN  LoggedAll(Logged(e, "add", c), "delete", IF twice THEN {c} ELSE {})

(* Mutated form: garbage clauses of size two leave the proof at once. *)
GarbageEager(d, S) ==
    LET b == {c \in S : Cardinality(c) = 2}
    IN  LoggedAll([d EXCEPT !.stale = @ \cup b], "delete", S)

(* mark_garbage, after the clauses of S were removed. *)
Garbage(d, S) ==
    LET b == {c \in S : Cardinality(c) = 2}
        twice == b \cap d.lag
    IN  LoggedAll([d EXCEPT !.lag = @ \cup b, !.stale = @ \cup b], "delete", (S \ b) \cup twice)

MarkGarbage(d, S) == Garbage([d EXCEPT !.irr = @ \ S], S \cap d.irr)
MarkRedGarbage(d, S) == Garbage([d EXCEPT !.red = @ \ S], S \cap d.red)

(* assign_unit and learn_empty_clause. *)
LearnEmpty(d) == Logged([d EXCEPT !.unsat = TRUE], "add", {})
AssignUnit(d, l) == Logged([d EXCEPT !.units = @ \cup {l}], "add", {l})

(* strengthen_clause: proof->strengthen_clause adds the shorter clause and *)
(* deletes the longer one, of any size, at once.                           *)
Strengthen(d, c, l, red) ==
    Logged(NewClause(IF red THEN [d EXCEPT !.red = @ \ {c}] ELSE [d EXCEPT !.irr = @ \ {c}],
                     c \ {l}, red),
           "delete", c)

(* The units N follow one after the other from clauses of S: the order in  *)
(* which propagation finds them.                                           *)
AssignUnits(d, S, N) ==
    LET next[k \in Nat] ==
            IF k = 0 THEN d
            ELSE LET e == next[k - 1]
                     l == CHOOSE x \in (N \ e.units) : x \in Implied(S, e.units)
                 IN  IF N \subseteq e.units THEN e ELSE AssignUnit(e, l)
    IN  next[Cardinality(N)]

(* propagate on the root level over the clauses S, which imply A. *)
PropagateOver(d, S, A) ==
    IF d.unsat THEN d
    ELSE IF Conflict(S, A) THEN LearnEmpty(d)
    ELSE AssignUnits(d, S, A \ d.units)

(* propagate follows all watches, also those of garbage clauses of size    *)
(* two.                                                                    *)
Watched(d) == d.irr \cup d.red \cup d.stale
Propagate(d) == PropagateOver(d, Watched(d), Closure(Watched(d), d.units))

(* connect_watches: garbage clauses are not watched again. *)
ConnectWatches(d) == [d EXCEPT !.stale = {}]

(* garbage_collection: satisfied clauses become garbage, false literals    *)
(* are removed from the clauses with two literals left, and the garbage    *)
(* is deleted.                                                             *)
FlushClause(d, c, red) ==
    LET l == Live(d.units, c)
    IN  IF l = c \/ Cardinality(l) < 2 THEN d
        ELSE Logged(NewClause(IF red THEN [d EXCEPT !.red = @ \ {c}]
                              ELSE [d EXCEPT !.irr = @ \ {c}], l, red), "delete", c)

DropSatisfied(d) ==
    MarkRedGarbage(MarkGarbage(d, {c \in d.irr : Sat(d.units, c)}),
                   {c \in d.red : Sat(d.units, c)})

FlushFalse(d) ==
    FoldSet(LAMBDA c, e : FlushClause(e, c, TRUE),
            FoldSet(LAMBDA c, e : FlushClause(e, c, FALSE), d, d.irr), d.red)

DeleteGarbage(d) == LoggedAll([d EXCEPT !.lag = {}, !.stale = {}], "delete", d.lag)

GarbageCollection(d) == IF d.unsat THEN d ELSE DeleteGarbage(FlushFalse(DropSatisfied(d)))

-----------------------------------------------------------------------------
(* push_clause_on_extension_stack *)
Push(d, w, c) == [d EXCEPT !.ext = Append(@, [witness |-> w, clause |-> c])]

(* Push the clauses of S with the witness {l}. *)
PushAll(d, l, S) == FoldSet(LAMBDA c, e : Push(e, {l}, c), d, S)

(* extend: the entries are visited from the top of the stack; when the     *)
(* clause is false the witness literals are made true.                     *)
Extend(d, A) ==
    LET n == Len(d.ext)
        flip[k \in Nat] ==
            IF k = 0 THEN A
            ELSE LET B == flip[k - 1]
                     e == d.ext[n + 1 - k]
                 IN  IF Sat(B, e.clause) THEN B ELSE (B \ Neg(e.witness)) \cup e.witness
    IN  flip[n]

Witnesses(d) == UNION {d.ext[k].witness : k \in DOMAIN d.ext}

(* The total assignments over V, as sets of literals. *)
Assignments(V) == {T \cup Neg(V \ T) : T \in SUBSET V}
Models(V, S) == {A \in Assignments(V) : \A c \in S : Sat(A, c)}
=============================================================================
