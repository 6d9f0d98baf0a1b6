--------------------------- MODULE CdclInvariant ---------------------------
(***************************************************************************)
(* The inductive invariant of Presearch, and so of the CDCL loop, from     *)
(* which CdclProofs derives the properties that the runs check.            *)
(*                                                                         *)
(* Its parts are operators of the values they are about: p is the problem, *)
(* t the trail, lv the levels, rs the reasons, ct the frames of control,   *)
(* and C the clauses.                                                      *)
(***************************************************************************)
EXTENDS Presearch

LitsOf(p) == LitsOver(p.vars)
Originals(p) == p.clauses \cup {{p.units[k]} : k \in DOMAIN p.units}
ModelsOf(p) == {m \in SUBSET p.vars : \A c \in Originals(p) : Satisfies(m, c)}
Follows(p, c) == \A m \in ModelsOf(p) : Satisfies(m, c)

On(t, l) == \E k \in 1 .. Len(t) : t[k] = l
LevelAt(t, lv, k) == lv[Var(t[k])]
ReasonAt(t, rs, k) == rs[Var(t[k])]

Shape(p, t, lv, rs, ct) ==
    /\ t \in Seq(LitsOf(p) \cup {0})
    /\ lv \in [p.vars \cup {0} -> Nat]
    /\ rs \in [p.vars \cup {0} -> SUBSET LitsOf(p)]
    /\ ct \in Seq([decision : LitsOf(p) \cup {0}, trail : Nat])

(* The trail has each variable once.  A frame of control starts where its  *)
(* decision is; before it there are only literals of lower levels, and     *)
(* after it, without chronological backtracking, none of them.             *)
Ordered(p, t, lv, ct) ==
    /\ \A j, k \in 1 .. Len(t) : Var(t[j]) = Var(t[k]) => j = k
    /\ \A k \in 1 .. Len(t) : LevelAt(t, lv, k) <= Len(ct)
    /\ \A i \in 1 .. Len(ct) :
          /\ ct[i].trail <= Len(t)
          /\ \A j \in i .. Len(ct) : ct[i].trail <= ct[j].trail
          /\ \A k \in 1 .. Len(t) : k <= ct[i].trail => LevelAt(t, lv, k) < i
          /\ "chrono" \notin p.opts =>
                \A k \in 1 .. Len(t) : k > ct[i].trail => LevelAt(t, lv, k) >= i

(* A literal without a reason above the root level is a decision.          *)
Decided(t, lv, rs, ct) ==
    \A k \in 1 .. Len(t) :
        ReasonAt(t, rs, k) = None /\ LevelAt(t, lv, k) > 0 =>
            /\ k = ct[LevelAt(t, lv, k)].trail + 1
            /\ t[k] = ct[LevelAt(t, lv, k)].decision

(* The implication graph. *)
Graph(t, lv, rs) ==
    \A k \in 1 .. Len(t) : ReasonAt(t, rs, k) # None =>
        /\ t[k] \in ReasonAt(t, rs, k)
        /\ \A o \in ReasonAt(t, rs, k) \ {t[k]} : \E j \in 1 .. k - 1 : t[j] = -o
        /\ \E o \in ReasonAt(t, rs, k) \ {t[k]} : lv[Var(o)] = LevelAt(t, lv, k)
        /\ \A o \in ReasonAt(t, rs, k) \ {t[k]} : lv[Var(o)] <= LevelAt(t, lv, k)

(* Reasons, also those that are no longer kept as clauses, follow from the *)
(* formula, and a literal of the trail follows from it and from the        *)
(* decisions up to its level.                                              *)
Decides(m, ct, n) == \A i \in 1 .. n : Holds(m, ct[i].decision)
Sound(p, t, lv, rs, ct) ==
    \A k \in 1 .. Len(t) :
        /\ ReasonAt(t, rs, k) # None => Follows(p, ReasonAt(t, rs, k))
        /\ \A m \in ModelsOf(p) : Decides(m, ct, LevelAt(t, lv, k)) => Holds(m, t[k])

(* What backtracking to the level below frame i leaves of a clause: a true *)
(* literal, or two literals that are not false before the frame.           *)
FalseBefore(t, ct, i, l) == \E k \in 1 .. ct[i].trail : t[k] = -l
Safe(t, lv, ct, i, c) ==
    \/ \E l \in c : On(t, l) /\ lv[Var(l)] < i
    \/ \E l, o \in c : l # o /\ ~FalseBefore(t, ct, i, l) /\ ~FalseBefore(t, ct, i, o)
Framed(t, lv, ct, C) == \A i \in 1 .. Len(ct) : \A c \in C : Safe(t, lv, ct, i, c)

(* The first frames are those of the assumptions, which hold then, and the *)
(* next one is that of the constraint.                                     *)
AssumptionsDecided(p, t, lv, ct) ==
    \A i \in 1 .. Len(ct) :
        /\ i <= Len(p.assumptions) =>
              /\ ct[i].decision \in {0, p.assumptions[i]}
              /\ On(t, p.assumptions[i]) /\ lv[Var(p.assumptions[i])] <= i
        /\ i = Len(p.assumptions) + 1 /\ p.constraint # << >> =>
              \E j \in 1 .. Len(p.constraint) :
                  On(t, p.constraint[j]) /\ lv[Var(p.constraint[j])] <= i

(* The unit clauses of the formula are assigned. *)
UnitsAssigned(p, t, lv) ==
    \A k \in DOMAIN p.units : On(t, p.units[k]) /\ lv[Var(p.units[k])] = 0

(* The trail and its frames, without what is assumed.                      *)
SearchState(p, t, lv, rs, ct, C) ==
    /\ Shape(p, t, lv, rs, ct)
    /\ Ordered(p, t, lv, ct)
    /\ Decided(t, lv, rs, ct)
    /\ Graph(t, lv, rs)
    /\ Sound(p, t, lv, rs, ct)
    /\ Framed(t, lv, ct, C)

Assignment(p, t, lv, rs, ct, C) ==
    /\ SearchState(p, t, lv, rs, ct, C)
    /\ AssumptionsDecided(p, t, lv, ct)
    /\ UnitsAssigned(p, t, lv)

-----------------------------------------------------------------------------
(* Propagation.  While there is no conflict, a clause that is neither      *)
(* satisfied nor has two unassigned literals has a false literal that is   *)
(* yet to be propagated, or is yet to be visited.                          *)
Free(t, l) == ~On(t, l) /\ ~On(t, -l)
Complete(t, c) == \/ \E l \in c : On(t, l)
                  \/ \E l, o \in c : l # o /\ Free(t, l) /\ Free(t, o)
Pending(t, n, c) == \E k \in n + 1 .. Len(t) : -t[k] \in c
Propagates(t, n, C, left) == \A c \in C : Complete(t, c) \/ Pending(t, n, c) \/ c \in left

-----------------------------------------------------------------------------
(* Analysis of the conflict cf on level n: cl is the clause, sn are the    *)
(* marked variables, and the literals at the positions OpenAt are those of *)
(* the conflict level that are not yet resolved.                           *)
OpenAt(t, lv, n, sn, ix) ==
    {k \in 1 .. Len(t) : k < ix /\ Var(t[k]) \in sn /\ LevelAt(t, lv, k) = n}

FalseBelow(t, lv, n, l) == On(t, -l) /\ lv[Var(l)] \in 1 .. n - 1

(* The variables of the clause are marked, and no others below the level.  *)
MarkedIn(t, lv, n, cl, sn) ==
    /\ \A l \in cl : Var(l) \in sn
    /\ \A v \in sn : \E k \in 1 .. Len(t) :
           /\ v = Var(t[k]) /\ LevelAt(t, lv, k) > 0
           /\ LevelAt(t, lv, k) < n => -t[k] \in cl

(* The first reason is the conflict, which has two literals of the level.  *)
Unresolved(t, lv, n, cf, sn, ix) ==
    /\ sn = {} /\ ix = Len(t) + 1
    /\ \E l, o \in cf : l # o /\ lv[Var(l)] = n /\ lv[Var(o)] = n

(* The clause, the literal u to resolve and the open ones together follow. *)
Resolved(p, t, lv, rs, n, cl, sn, u, ix) ==
    /\ ix \in 1 .. Len(t) /\ t[ix] = u
    /\ LevelAt(t, lv, ix) = n /\ ReasonAt(t, rs, ix) # None
    /\ Follows(p, cl \cup {-u} \cup {-t[k] : k \in OpenAt(t, lv, n, sn, ix)})

Resolving(p, t, lv, rs, n, cf, cl, sn, op, u, ix) ==
    /\ MarkedIn(t, lv, n, cl, sn)
    /\ \A l \in cl : FalseBelow(t, lv, n, l)
    /\ op = Cardinality(OpenAt(t, lv, n, sn, ix))
    /\ IF u = 0 THEN Unresolved(t, lv, n, cf, sn, ix)
       ELSE Resolved(p, t, lv, rs, n, cl, sn, u, ix)

(* The clause at the end of the derivation, with the flipped UIP.          *)
Derived(p, t, lv, n, cl, u) ==
    /\ u # 0 /\ On(t, u) /\ lv[Var(u)] = n
    /\ -u \in cl
    /\ \A l \in cl \ {-u} : FalseBelow(t, lv, n, l)
    /\ Follows(p, cl)

(* Auxiliary literals are resolved in any order: a marked literal follows  *)
(* from the literals of the clause that are not after it on the trail.     *)
MarkedFollow(p, t, lv, n, cl, sn) ==
    /\ \A l \in cl : Var(l) \in sn
    /\ \A k \in 1 .. Len(t) :
           Var(t[k]) \in sn /\ LevelAt(t, lv, k) < n =>
               \A m \in ModelsOf(p) :
                   (\A j \in 1 .. k : -t[j] \in cl => Holds(m, t[j])) => Holds(m, t[k])

-----------------------------------------------------------------------------
Analyzing == pc \in {"resolve", "auxres", "minimize", "learn"}

TypeOK ==
    /\ problem \in Problems
    /\ learned \subseteq {c \in SUBSET Lits : Cardinality(c) > 1}
    /\ propagated \in 0 .. Len(trail)
    /\ todo \subseteq Clauses
    /\ conflict \in Clauses \cup {None}
    /\ clause \subseteq Lits
    /\ seen \subseteq Vars
    /\ open \in Nat
    /\ uip \in Lits \cup {0}
    /\ idx \in Nat
    /\ unsat \in BOOLEAN
    /\ result \in {0, 10, 20}
    /\ restarts \in Nat
    /\ pc \in {"propagate", "visit", "analyze", "resolve", "auxres", "minimize", "learn",
               "loop", "done"}

AssignmentInv == Assignment(problem, trail, lev, reason, control, Clauses)

LearnedFollows == \A c \in learned : Follows(problem, c)

PropagationInv ==
    /\ \A i \in 1 .. level : control[i].trail <= propagated
    /\ pc \in {"propagate", "visit", "loop"} /\ ~unsat /\ conflict = None =>
          Propagates(trail, propagated, Clauses, todo)
    /\ pc # "visit" => todo = {}
    /\ pc = "loop" /\ ~unsat => conflict = None /\ propagated = Len(trail)

ConflictInv ==
    /\ \A l \in conflict : On(trail, -l)
    /\ pc = "analyze" \/ Analyzing => conflict # None
    /\ unsat => ModelsOf(problem) = {} /\ pc \in {"loop", "done"}

AnalysisInv ==
    /\ ~Analyzing => clause = {} /\ seen = {} /\ open = 0 /\ uip = 0
    /\ Analyzing => level > 0
    /\ pc = "resolve" =>
          Resolving(problem, trail, lev, reason, level, conflict, clause, seen, open, uip, idx)
    /\ pc \in {"auxres", "minimize", "learn"} =>
          Derived(problem, trail, lev, level, clause, uip)
    /\ pc = "auxres" => /\ UipAux /\ ~IsAux(Var(uip))
                        /\ MarkedFollow(problem, trail, lev, level, clause, seen)

(* The search that finds no variable to decide puts 0 on the trail; no     *)
(* more than one variable is unassigned then.                              *)
ZeroInv ==
    On(trail, 0) =>
        /\ trail[Len(trail)] = 0 /\ propagated >= Len(trail) - 1
        /\ pc \in {"propagate", "visit", "loop", "done"} /\ todo = {} /\ conflict = None /\ ~unsat
        /\ Satisfied
        /\ \A v, w \in Vars : Free(trail, v) /\ Free(trail, w) => v = w

AnswerInv == AnswerCorrect /\ (pc # "done" => result = 0)

CdclInv ==
    /\ TypeOK /\ AssignmentInv /\ LearnedFollows /\ PropagationInv /\ ConflictInv
    /\ AnalysisInv /\ ZeroInv /\ AnswerInv

(* No auxiliary variable is decided where conflicts are analyzed.          *)
AuxInv == UipAux => \A i \in 1 .. level : ~IsAux(Var(control[i].decision))

(* The searches before the loop: they do not learn, and have no unit       *)
(* assigned out of order.                                                  *)
RootFirst == \A k \in 1 .. Len(trail) : LevelAt(trail, lev, k) = 0 /\ level > 0 =>
                                            k <= control[1].trail
TaskInv ==
    /\ task \in {"solved", "local", "saved", "failed", "lucky", "search"}
    /\ lucky \in 0 .. 8
    /\ task = "solved" => level = 0 /\ pc \in {"propagate", "visit", "analyze", "loop"}
    /\ task = "local" => level = 0 /\ pc = "loop"
    /\ task \in {"solved", "local", "saved", "lucky"} => ~unsat /\ ~Analyzing
    /\ task \in {"saved", "lucky"} => RootFirst /\ (level = 0 => pc \in {"loop", "done"})
    /\ lucky > 0 => task = "lucky" /\ Assumptions = << >> /\ Constraint = << >>
    /\ task = "lucky" /\ lucky = 0 => level = 0 /\ pc = "loop"
    /\ task \in {"solved", "local", "lucky"} => ~On(trail, 0)
    /\ task = "failed" => WalkFails /\ level <= Len(Assumptions)
    /\ task # "lucky" => AuxInv

SolveInv == CdclInv /\ TaskInv

(* The hypothesis of the theorems: with UIPAUX no auxiliary variable is    *)
(* assumed.  Learning is wrong otherwise (the run cdcl_uip_assumed).       *)
AuxNotAssumed ==
    \A p \in Problems : "uipaux" \in p.opts =>
        /\ \A k \in 1 .. Len(p.assumptions) : Var(p.assumptions[k]) \notin p.aux
        /\ \A k \in 1 .. Len(p.constraint) : Var(p.constraint[k]) \notin p.aux
=============================================================================
