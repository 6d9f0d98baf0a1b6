------------------------------ MODULE Checker -------------------------------
(***************************************************************************)
(* The internal proof checker (option check): it gets every original       *)
(* clause, derived clause and deletion that class Proof passes on, and     *)
(* tests that each derived clause follows by unit propagation from the     *)
(* clauses it has at that moment.                                          *)
(*                                                                         *)
(* A checker is a record of the bag clauses, the literals units assigned   *)
(* for good, inconsistent, and failed: it met a derived clause that does   *)
(* not follow or a deletion of a clause it does not have, which aborts the *)
(* solver.  Unit clauses are only assigned, never stored.  The hash table  *)
(* with its chains is the bag, and watches are left out.                   *)
(***************************************************************************)
EXTENDS ClauseDb, Bags

EmptyChecker == [clauses |-> EmptyBag, units |-> {}, inconsistent |-> FALSE, failed |-> FALSE]

(* tautological: such clauses are ignored, whatever is done with them. *)
Tautological(k, c) == Sat(k.units, c) \/ \E l \in c : -l \in c

(* find, with the whole clause, not only its literals without a value. *)
Find(k, c) == BagIn(c, k.clauses)

(* insert *)
Insert(k, c) == [k EXCEPT !.clauses = @ (+) SetToBag({c})]

(* collect_garbage_clauses drops the satisfied clauses.  The code does it  *)
(* after a deletion if many clauses were deleted; such clauses are ignored *)
(* from then on anyhow, so here it is done after each.                     *)
CollectGarbageClauses(k) ==
    LET S == {c \in BagToSet(k.clauses) : ~Sat(k.units, c)}
    IN  [k EXCEPT !.clauses = [c \in S |-> @[c]]]

(* check: the negation of c and the units are propagated. *)
Follows(k, c) ==
    LET S == BagToSet(k.clauses)
    IN  Conflict(S, Closure(S, k.units \cup Neg(c)))

(* add_clause.  New units are propagated and stay, whatever is deleted. *)
Assigned(k, S, A) ==
    IF Conflict(S, A) THEN [k EXCEPT !.inconsistent = TRUE] ELSE [k EXCEPT !.units = A]

AddClause(k, c) ==
    LET l == Live(k.units, c)
        S == BagToSet(k.clauses)
    IN  IF Cardinality(l) > 1 THEN Insert(k, c)
        ELSE IF l = {} THEN [k EXCEPT !.inconsistent = TRUE]
        ELSE Assigned(k, S, Closure(S, k.units \cup l))

(* add_original_clause, add_derived_clause and delete_clause. *)
Observe(k, e) ==
    IF k.inconsistent \/ k.failed \/ Tautological(k, e.clause) THEN k
    ELSE CASE e.op = "original" -> AddClause(k, e.clause)
           [] e.op = "add" -> IF Follows(k, e.clause) THEN AddClause(k, e.clause)
                              ELSE [k EXCEPT !.failed = TRUE]
           [] e.op = "delete" -> IF Find(k, e.clause)
                                 THEN CollectGarbageClauses([k EXCEPT !.clauses = @ (-) SetToBag({e.clause})])
                                 ELSE [k EXCEPT !.failed = TRUE]

ObserveAll(k, log) ==
    LET read[n \in Nat] == IF n = 0 THEN k ELSE Observe(read[n - 1], log[n])
    IN  read[Len(log)]
=============================================================================
