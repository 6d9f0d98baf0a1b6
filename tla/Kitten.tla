------------------------------- MODULE Kitten -------------------------------
(***************************************************************************)
(* Kitten, the small solver inside Kissat that definition.c asks whether   *)
(* the clauses of a literal define it, and for which of them.              *)
(*                                                                         *)
(* Literals are non-zero integers.  The literals of a klause are in the    *)
(* order of the code, because the first two are the watched ones: analyze  *)
(* does not always put a literal of the highest level second, and          *)
(* propagation reorders.  Only the order of watch lists, which             *)
(* kitten_shuffle changes, is a choice.                                    *)
(***************************************************************************)
EXTENDS Integers, SequencesExt, FiniteSetsExt

CONSTANT Wait   \* conflicts before a restart

ASSUME WaitAssumption == Wait \in Nat \ {0}

VARIABLES
    klauses,      \* sequence of [id, lits, learned, ante, core]; a reference is an index
    trail,        \* sequence of literals; the literals that have the value true
    info,         \* of each variable: [level, reason, phase]; kept when it loses its value
    level, propagated,
    visited,      \* references seen while the literal after propagated is propagated
    queue,        \* [order, search]: the decision queue, first to last, and the pointer into it
    units,        \* references of unit klauses, in order
    looked,       \* how many of them propagate_units has looked at
    inconsistent, \* reference of a klause that is false on the root level, or 0
    wait, status, \* 0 unsolved, 10, 20, and 21 with a core
    step          \* what kitten_solve does next

kitten == <<klauses, trail, info, level, propagated, visited, queue, units, looked,
            inconsistent, wait, status, step>>

Abs(l) == IF l < 0 THEN -l ELSE l
True(l) == l \in Range(trail)
False(l) == -l \in Range(trail)
LevelOf(l) == info[Abs(l)].level
Lits(c) == klauses[c].lits
kvars == DOMAIN info

(* The state after kitten_embedded or kitten_clear. *)
Empty ==
    /\ klauses = <<>> /\ trail = <<>> /\ info = <<>>
    /\ level = 0 /\ propagated = 0 /\ visited = {}
    /\ queue = [order |-> <<>>, search |-> 0]
    /\ units = <<>> /\ looked = 0 /\ inconsistent = 0
    /\ wait = Wait /\ status = 0 /\ step = "idle"

-----------------------------------------------------------------------------
(* The queue.  Stamps are positions. *)
Position(v) == CHOOSE i \in DOMAIN queue.order : queue.order[i] = v
MovedToFront(order, bumped) ==
    SelectSeq(order, LAMBDA v : v \notin Range(bumped)) \o bumped

(* assign, on a level, and unassign with update_search. *)
Assign(ls, l, lvl, r) ==
    /\ trail' = Append(ls, l)
    /\ info' = [info EXCEPT ![Abs(l)] = [level |-> lvl, reason |-> r, phase |-> l \div Abs(l)]]

(* backtrack pops literals up to one of the level it jumps to. *)
Kept(jump) == SelectSeq(trail, LAMBDA l : LevelOf(l) <= jump)
Unassigned(jump) == {Abs(l) : l \in {m \in Range(trail) : LevelOf(m) > jump}}

SearchAfter(order, jump) ==
    LET at(v) == CHOOSE i \in DOMAIN order : order[i] = v
    IN  order[Max({at(v) : v \in Unassigned(jump) \cup {queue.search}})]

-----------------------------------------------------------------------------
Klause(id, c, learned, ante) ==
    [id |-> id, lits |-> c, learned |-> learned, ante |-> ante, core |-> FALSE]

(* connect_new_klause; the watches are the first two literals. *)
Connect(ref, c) ==
    /\ units' = IF Len(c) = 1 THEN Append(units, ref) ELSE units
    /\ inconsistent' = IF c = <<>> /\ inconsistent = 0 THEN ref ELSE inconsistent

(* kitten_clause, with enlarge_kitten for the variables that are new.      *)
AddKlause(id, c) ==
    LET fresh == SelectSeq([i \in DOMAIN c |-> Abs(c[i])], LAMBDA v : v \notin kvars)
        order == queue.order \o fresh
    IN  /\ status = 0 /\ step = "idle"
        /\ klauses' = Append(klauses, Klause(id, c, FALSE, {}))
        /\ Connect(Len(klauses) + 1, c)
        /\ info' = [v \in kvars \cup Range(fresh) |->
                       IF v \in kvars THEN info[v] ELSE [level |-> 0, reason |-> 0, phase |-> 1]]
        /\ queue' = IF fresh = <<>> THEN queue ELSE [order |-> order, search |-> Last(order)]
        /\ UNCHANGED <<trail, level, propagated, visited, looked, wait, status, step>>

(* kitten_solve *)
StartSolve ==
    /\ status = 0 /\ step = "idle"
    /\ wait' = Wait /\ looked' = 0
    /\ IF inconsistent # 0 THEN status' = 20 /\ UNCHANGED step
       ELSE step' = "units" /\ UNCHANGED status
    /\ UNCHANGED <<klauses, trail, info, level, propagated, visited, queue, units, inconsistent>>

Contradiction(c) == inconsistent' = c /\ status' = 20 /\ step' = "idle"

(* propagate_units: each unit is propagated before the next is looked at,  *)
(* and stays on the stack.                                                 *)
PropagateUnits ==
    /\ step = "units" /\ propagated = Len(trail)
    /\ IF looked = Len(units)
       THEN step' = "search" /\ UNCHANGED <<trail, info, looked, inconsistent, status>>
       ELSE LET c == units[looked + 1]
                l == Lits(c)[1]
            IN  /\ looked' = looked + 1
                /\ IF True(l) THEN UNCHANGED <<trail, info, inconsistent, status, step>>
                   ELSE IF False(l) THEN Contradiction(c) /\ UNCHANGED <<trail, info>>
                   ELSE Assign(trail, l, 0, c) /\ UNCHANGED <<inconsistent, status, step>>
    /\ UNCHANGED <<klauses, level, propagated, visited, queue, units, wait>>

(* propagate_literal, one watched klause at a time. *)
Propagating == trail[propagated + 1]
Watched(c) == {Lits(c)[i] : i \in 1 .. (IF Len(Lits(c)) > 1 THEN 2 ELSE 0)}
Watchers == {c \in DOMAIN klauses : -Propagating \in Watched(c)} \ visited
Other(c) == CHOOSE l \in Watched(c) : l # -Propagating

(* The false watch goes to the second place, and is exchanged with the     *)
(* first later literal that is not false, if there is one.                 *)
Replacements(c) == {i \in 3 .. Len(Lits(c)) : ~False(Lits(c)[i])}
Facing(c) == <<Other(c), -Propagating>> \o SubSeq(Lits(c), 3, Len(Lits(c)))
Swapped(s, i, j) == [s EXCEPT ![i] = s[j], ![j] = s[i]]
Reordered(c, s) == [klauses EXCEPT ![c].lits = s]

Visit(c) ==
    /\ visited' = visited \cup {c}
    /\ \/ /\ ~True(Other(c)) /\ Replacements(c) # {}
          /\ klauses' = Reordered(c, Swapped(Facing(c), 2, Min(Replacements(c))))
          /\ UNCHANGED <<trail, info>>
       \/ /\ True(Other(c))
          /\ klauses' = Reordered(c, Facing(c))
          /\ UNCHANGED <<trail, info>>
       \/ /\ ~True(Other(c)) /\ ~False(Other(c)) /\ Replacements(c) = {}
          /\ klauses' = Reordered(c, Facing(c))
          /\ Assign(trail, Other(c), level, c)

Conflicting(c) == False(Other(c)) /\ Replacements(c) = {}

PropagateNext ==
    /\ step \in {"units", "search"} /\ propagated < Len(trail)
    /\ \/ \E c \in Watchers :
              ~Conflicting(c) /\ Visit(c) /\ UNCHANGED propagated
       \/ /\ Watchers = {}
          /\ visited' = {} /\ propagated' = propagated + 1
          /\ UNCHANGED <<klauses, trail, info>>
    /\ UNCHANGED <<level, queue, units, looked, inconsistent, wait, status, step>>

(* Conflict on the root level. *)
RootConflict ==
    /\ step \in {"units", "search"} /\ propagated < Len(trail) /\ level = 0
    /\ \E c \in Watchers :
           /\ Conflicting(c) /\ Contradiction(c)
           /\ klauses' = Reordered(c, Facing(c))
    /\ visited' = {} /\ propagated' = propagated + 1
    /\ wait' = IF step = "search" /\ wait > 0 THEN wait - 1 ELSE wait
    /\ UNCHANGED <<trail, info, level, queue, units, looked>>

-----------------------------------------------------------------------------
(* analyze: literals are resolved from the end of the trail until one of   *)
(* the current level is left.                                              *)
Resolved(conflict) ==
    LET open(seen, i) == {j \in 1 .. i : -trail[j] \in seen /\ LevelOf(trail[j]) = level}
        resolve(a, i) ==
            IF a.uip # 0 \/ -trail[i] \notin a.seen THEN a
            ELSE IF open(a.seen, i) = {i} THEN [a EXCEPT !.uip = trail[i]]
            ELSE LET r == info[Abs(trail[i])].reason
                 IN  [a EXCEPT !.seen = @ \cup (Range(Lits(r)) \ {trail[i]}),
                               !.lits = @ \o Lits(r), !.refs = @ \cup {r}]
    IN  FoldLeft(resolve, [seen |-> Range(Lits(conflict)), lits |-> Facing(conflict),
                           refs |-> {conflict}, uip |-> 0],
                 [i \in 1 .. Len(trail) |-> Len(trail) + 1 - i])

(* The false literals of the reasons, each where it came first. *)
Analyzed(a) ==
    LET first == {i \in DOMAIN a.lits : False(a.lits[i]) /\ \A j \in 1 .. i - 1 : a.lits[j] # a.lits[i]}
    IN  [k \in 1 .. Cardinality(first) |-> a.lits[SetToSortSeq(first, <)[k]]]

(* Those of lower levels, of the root level too, stay.  A new highest one  *)
(* is exchanged with the first only if there are two already.              *)
Lower(a) ==
    FoldLeft(LAMBDA s, l : IF Len(s) > 1 /\ \A m \in Range(s) : LevelOf(l) > LevelOf(m)
                           THEN Append([s EXCEPT ![1] = l], s[1])
                           ELSE Append(s, l),
             <<>>, SelectSeq(Analyzed(a), LAMBDA l : LevelOf(l) < level))

(* Mutated form: the first reason is not recorded. *)
LearnedKlauseForgets(a, lits) == Klause(0, lits, TRUE, a.refs \ {Min(a.refs)})

LearnedKlause(a, lits) == Klause(0, lits, TRUE, a.refs)

Learn(conflict, a, lower, jump) ==
    LET ref == Len(klauses) + 1
        lits == <<-a.uip>> \o lower
        bumped == [i \in DOMAIN Analyzed(a) |-> Abs(Analyzed(a)[i])]
        order == MovedToFront(queue.order, bumped)
    IN  /\ klauses' = Append(Reordered(conflict, Facing(conflict)), LearnedKlause(a, lits))
        /\ Connect(ref, lits)
        /\ Assign(Kept(jump), -a.uip, jump, ref)
        /\ queue' = [order |-> order, search |-> SearchAfter(order, jump)]
        /\ level' = jump
        /\ propagated' = Len(Kept(jump))

Analyze ==
    /\ step = "search" /\ propagated < Len(trail) /\ level > 0
    /\ \E c \in Watchers :
           /\ Conflicting(c)
           /\ \E a \in {Resolved(c)} : \E lower \in {Lower(a)} :
                  Learn(c, a, lower, Max({0} \cup {LevelOf(l) : l \in Range(lower)}))
    /\ visited' = {}
    /\ wait' = IF wait > 0 THEN wait - 1 ELSE 0
    /\ UNCHANGED <<looked, status, step>>

(* The rest of the loop of kitten_solve. *)
AllAssigned ==
    /\ step = "search" /\ propagated = Len(trail) /\ Len(trail) = Cardinality(kvars)
    /\ status' = 10 /\ step' = "idle"
    /\ UNCHANGED <<klauses, trail, info, level, propagated, visited, queue, units, looked,
                   inconsistent, wait>>

(* Mutated form: the interval is not set again after a restart. *)
NewWaitSpent == 0
NewWait == Wait

Restart ==
    /\ step = "search" /\ propagated = Len(trail) /\ Len(trail) < Cardinality(kvars)
    /\ level > 0 /\ wait = 0
    /\ trail' = Kept(0)
    /\ queue' = [queue EXCEPT !.search = SearchAfter(queue.order, 0)]
    /\ level' = 0 /\ propagated' = Len(Kept(0))
    /\ wait' = NewWait
    /\ UNCHANGED <<klauses, info, visited, units, looked, inconsistent, status, step>>

(* decide walks back from the pointer; a decision is assigned the          *)
(* reference 0, which is the first klause to the code.                     *)
Candidates == {i \in 1 .. Position(queue.search) :
                  ~True(queue.order[i]) /\ ~False(queue.order[i])}
Decide ==
    /\ step = "search" /\ propagated = Len(trail) /\ Len(trail) < Cardinality(kvars)
    /\ level = 0 \/ wait > 0
    /\ Candidates # {}
    /\ LET v == queue.order[Max(Candidates)]
       IN  /\ Assign(trail, v * info[v].phase, level + 1, 1)
           /\ queue' = [queue EXCEPT !.search = v]
    /\ level' = level + 1
    /\ UNCHANGED <<klauses, propagated, visited, units, looked, inconsistent, wait, status, step>>

-----------------------------------------------------------------------------
(* kitten_compute_clausal_core: first the reasons on the root level of the *)
(* klause that is false, then the antecedents of the learned ones.         *)
RootReasons(C) == UNION {{c} \cup {info[Abs(l)].reason : l \in Range(Lits(c))} : c \in C}
Antecedents(C) == UNION {{c} \cup klauses[c].ante : c \in C}
Closed(op(_), C) == FoldLeft(LAMBDA D, i : op(D), C, [i \in DOMAIN klauses |-> i])

Marked(root, core, additional) ==
    LET marked == [c \in DOMAIN klauses |-> [klauses[c] EXCEPT !.core = c \in core]]
    IN  IF additional THEN Append(marked, [Klause(0, <<>>, TRUE, root) EXCEPT !.core = TRUE])
        ELSE marked

ComputeClausalCore ==
    /\ status = 20 /\ step = "idle"
    /\ \E root \in {Closed(RootReasons, {inconsistent})} :
       \E core \in {Closed(Antecedents, root)} :
           klauses' = Marked(root, core, Lits(inconsistent) # <<>>)
    /\ inconsistent' = IF Lits(inconsistent) # <<>> THEN Len(klauses) + 1 ELSE inconsistent
    /\ status' = 21
    /\ UNCHANGED <<trail, info, level, propagated, visited, queue, units, looked, wait, step>>

CoreOriginals == {c \in DOMAIN klauses : klauses[c].core /\ ~klauses[c].learned}
CoreLemmas == {c \in DOMAIN klauses : klauses[c].core /\ klauses[c].learned}

(* shuffle_unsigned_array exchanges each element with an earlier one. *)
Shuffles(s) ==
    FoldLeft(LAMBDA S, i : {Swapped(t, i, j) : t \in S, j \in 1 .. i - 1}, {s},
             [k \in 1 .. Len(s) - 1 |-> k + 1])

(* kitten_shrink_to_clausal_core, and kitten_shuffle right after it.       *)
(* shuffle_queue can make any order.  Levels, reasons and phases are kept. *)
ShrinkAndShuffle ==
    LET left == SelectSeq(klauses, LAMBDA k : k.core /\ ~k.learned)
    IN  /\ status = 21
        /\ klauses' = [i \in DOMAIN left |-> [left[i] EXCEPT !.core = FALSE]]
        /\ units' \in Shuffles(SelectSeq([i \in DOMAIN left |-> i],
                                         LAMBDA i : Len(left[i].lits) = 1))
        /\ inconsistent' = IF klauses[inconsistent].learned \/ Lits(inconsistent) # <<>> THEN 0
                           ELSE inconsistent
        /\ trail' = <<>>
        /\ \E order \in SetToSeqs(kvars) :
               queue' = [order |-> order, search |-> Last(order)]
        /\ level' = 0 /\ propagated' = 0 /\ visited' = {}
        /\ status' = 0 /\ step' = "idle"
        /\ UNCHANGED <<info, looked, wait>>

SolveStep ==
    \/ PropagateUnits \/ PropagateNext \/ RootConflict \/ Analyze \/ AllAssigned
    \/ Restart \/ Decide
=============================================================================
