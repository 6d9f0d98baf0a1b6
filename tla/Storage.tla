------------------------------ MODULE Storage ------------------------------
(***************************************************************************)
(* How CaDiCaL stores clauses: memory that is allocated, copied to an      *)
(* arena and freed (clause.cpp, arena.cpp, collect.cpp), the two watches   *)
(* of a clause with their blocking literals (watch.cpp, propagate.cpp),    *)
(* the reasons on the trail, and the renaming of the variables by          *)
(* compaction (compact.cpp).  All these hold references to clauses or      *)
(* names of variables that collection and compaction must change together. *)
(*                                                                         *)
(* A clause at an address is a record of the sequence lits, red and        *)
(* garbage.  Which clause is learned from a conflict is a choice among the *)
(* implied ones that analyze could derive; which redundant clauses reduce  *)
(* gives up is a choice, too.  The search for a replacement of a watch     *)
(* starts at the third literal: where the last one ended (pos) is left     *)
(* out.  Elimination is represented by pure variables.                     *)
(***************************************************************************)
EXTENDS Integers, Sequences, FiniteSets, SequencesExt

CONSTANTS
    Formulas,       \* records of the number vars of external variables, the sequence
                    \* clauses of sequences of literals, the sequence assumptions of
                    \* literals, the function frozen from variables to counters, and
                    \* the set implied of clauses, as sets, that the clauses imply
    Addresses,      \* 1 .. n: where clauses can be allocated
    MaxDecisions,   \* bound on the number of decisions
    MaxLearned,     \* bound on the number of learned clauses and units
    MaxCollections  \* bound on the number of collections

ASSUME StorageAssumption ==
    /\ MaxDecisions \in Nat /\ MaxLearned \in Nat /\ MaxCollections \in Nat
    /\ \A f \in Formulas : \A k \in DOMAIN f.clauses :
          /\ Len(f.clauses[k]) > 1
          /\ \A l \in ToSet(f.clauses[k]) : l \in 1 .. f.vars \/ -l \in 1 .. f.vars

VARIABLES
    formula,    \* the member of Formulas
    s,          \* the solver: a record of
                \*   mem        allocated clauses
                \*   watches    for each literal a set of records of clause, blit
                \*              and binary
                \*   arena      the addresses within the arena
                \*   trail      the assigned literals
                \*   level, reason    of each variable; reason 0 for none
                \*   status     of each variable: "active", "fixed" or "pure"
                \*   control    trail heights of the decision levels
                \*   propagated number of literals of the trail that are propagated
                \*   conflict   address or 0
                \*   frozentab  for each variable
    names,      \* a record of e2i, i2e, and the internal assumptions
    fresh,      \* stats.all.fixed > last.collect.fixed
    collections, learned, decisions, unsat,
    known       \* external literals that were fixed: not part of the solver

storage == <<formula, s, names, fresh, collections, learned, decisions, unsat, known>>

Vidx(l) == IF l < 0 THEN -l ELSE l
VarsOf(t) == DOMAIN t.status
LitsOf(t) == VarsOf(t) \cup {-v : v \in VarsOf(t)}

True(t, l) == \E k \in DOMAIN t.trail : t.trail[k] = l
False(t, l) == True(t, -l)
Level(t) == Len(t.control)
LevelOf(t, l) == t.level[Vidx(l)]
Complete(t) == t.conflict = 0 /\ t.propagated = Len(t.trail)

Highest(S) == IF S = {} THEN 0 ELSE CHOOSE n \in S : \A m \in S : m <= n
Lowest(S) == CHOOSE n \in S : \A m \in S : n <= m

-----------------------------------------------------------------------------
(* Clauses and watches *)

(* watch_literal *)
Watch(t, l, blit, c) ==
    [t EXCEPT !.watches[l] = @ \cup {[clause |-> c, blit |-> blit,
                                      binary |-> Len(t.mem[c].lits) = 2]}]

(* watch_clause *)
WatchClause(t, c) ==
    LET lits == t.mem[c].lits
    IN  Watch(Watch(t, lits[1], lits[2], c), lits[2], lits[1], c)

(* Memory that is neither allocated nor in the arena, where memory of      *)
(* deleted clauses stays until all is copied.                              *)
FreeMemory(t) == Addresses \ (DOMAIN t.mem \cup t.arena)

(* new_clause *)
NewClause(t, lits, red) ==
    LET c == Lowest(FreeMemory(t))
        u == [t EXCEPT !.mem = @ @@ (c :> [lits |-> lits, red |-> red, garbage |-> FALSE])]
    IN  WatchClause(u, c)

(* mark_garbage, for all clauses of S *)
MarkGarbage(t, S) ==
    [t EXCEPT !.mem = [c \in DOMAIN t.mem |->
        IF c \in S THEN [t.mem[c] EXCEPT !.garbage = TRUE] ELSE t.mem[c]]]

(* search_assign with the reason c, or 0: the level is the highest of the  *)
(* other literals.                                                         *)
Assign(t, l, c) ==
    LET n == IF c = 0 THEN 0
             ELSE Highest({LevelOf(t, k) : k \in ToSet(t.mem[c].lits) \ {l}})
    IN  [t EXCEPT !.trail = Append(@, l),
                  !.level[Vidx(l)] = n,
                  !.reason[Vidx(l)] = IF n = 0 THEN 0 ELSE c,
                  !.status[Vidx(l)] = IF n = 0 THEN "fixed" ELSE @]

(* One watch w of the false literal l in propagate.                        *)
Visit(t, l, w) ==
    LET lits == t.mem[w.clause].lits
        other == IF lits[1] = l THEN lits[2] ELSE lits[1]
        open == {k \in 3 .. Len(lits) : ~False(t, lits[k])}
        k == Lowest(open)
        Blit(b) == [t EXCEPT !.watches[l] = (@ \ {w}) \cup {[w EXCEPT !.blit = b]}]
        Moved == [t EXCEPT !.mem[w.clause].lits = [lits EXCEPT ![1] = other, ![2] = lits[k], ![k] = l],
                           !.watches[l] = @ \ {w}]
    IN  IF t.conflict # 0 \/ True(t, w.blit) THEN t
        ELSE IF w.binary
        THEN IF False(t, w.blit) THEN [t EXCEPT !.conflict = w.clause]
             ELSE Assign(t, w.blit, w.clause)
        ELSE IF t.mem[w.clause].garbage THEN [t EXCEPT !.watches[l] = @ \ {w}]
        ELSE IF True(t, other) THEN Blit(other)
        ELSE IF open # {}
        THEN IF True(t, lits[k]) THEN Blit(lits[k]) ELSE Watch(Moved, lits[k], l, w.clause)
        ELSE IF False(t, other) THEN [t EXCEPT !.conflict = w.clause]
        ELSE Assign(t, other, w.clause)

(* propagate, for the next literal of the trail *)
PropagateNext(t) ==
    LET l == -t.trail[t.propagated + 1]
        ws == SetToSeq(t.watches[l])
        upto[k \in Nat] == IF k = 0 THEN [t EXCEPT !.propagated = @ + 1]
                           ELSE Visit(upto[k - 1], l, ws[k])
    IN  upto[Len(ws)]

Propagated(t) ==
    LET after[k \in Nat] ==
            IF k = 0 THEN t
            ELSE IF Complete(after[k - 1]) \/ after[k - 1].conflict # 0 THEN after[k - 1]
            ELSE PropagateNext(after[k - 1])
    IN  after[Cardinality(VarsOf(t))]

(* backtrack: literals of lower levels stay on the trail and are           *)
(* propagated again.                                                       *)
Backtrack(t, n) ==
    IF n = Level(t) THEN t
    ELSE LET start == t.control[n + 1]
             kept == SelectSeq(SubSeq(t.trail, start + 1, Len(t.trail)),
                               LAMBDA l : LevelOf(t, l) <= n)
         IN  [t EXCEPT !.trail = SubSeq(t.trail, 1, start) \o kept,
                       !.control = SubSeq(@, 1, n),
                       !.propagated = IF @ > start THEN start ELSE @]

-----------------------------------------------------------------------------
(* Conflicts *)

ConflictLits(t) == t.mem[t.conflict].lits
ConflictLevel(t) == Highest({LevelOf(t, l) : l \in ToSet(ConflictLits(t))})

(* find_conflict_level moves a literal of the highest level among those    *)
(* from place i on to place i, which is watched.                           *)
HighestTo(t, i) ==
    LET lits == ConflictLits(t)
        n == Highest({LevelOf(t, lits[j]) : j \in i .. Len(lits)})
        j == Lowest({k \in i .. Len(lits) : LevelOf(t, lits[k]) = n})
        swapped == [t EXCEPT !.mem[t.conflict].lits = [lits EXCEPT ![i] = lits[j], ![j] = lits[i]]]
        unwatched == [swapped EXCEPT !.watches[lits[i]] = {w \in @ : w.clause # t.conflict}]
    IN  IF j = i THEN t
        ELSE IF j <= 2 THEN swapped
        ELSE Watch(unwatched, lits[j], lits[3 - i], t.conflict)

(* A single literal on the conflict level: the conflict is its reason.     *)
Forced(t) ==
    LET n == ConflictLevel(t)
    IN  {l \in ToSet(ConflictLits(t)) : LevelOf(t, l) = n}

DriveConflict(t, l) ==
    [Assign(Backtrack(t, ConflictLevel(t) - 1), l, t.conflict) EXCEPT !.conflict = 0]

(* The clauses analyze could learn: implied, false, with one literal of    *)
(* the conflict level.                                                     *)
Internal(e) == IF e < 0 THEN -names.e2i[-e] ELSE names.e2i[e]
Learnable(t) ==
    {C \in {{Internal(e) : e \in D} : D \in formula.implied} :
        /\ \A l \in C : l # 0 /\ False(t, l) /\ LevelOf(t, l) > 0
        /\ Cardinality({l \in C : LevelOf(t, l) = Level(t)}) = 1}

Driving(t, C) == CHOOSE l \in C : LevelOf(t, l) = Level(t)
Jump(t, C) == Highest({LevelOf(t, l) : l \in C \ {Driving(t, C)}})

(* Mutated form: any other literal comes second. *)
SecondLowest(t, C) ==
    LET n == Lowest({LevelOf(t, l) : l \in C \ {Driving(t, C)}})
    IN  CHOOSE l \in C \ {Driving(t, C)} : LevelOf(t, l) = n

(* The other watched literal is of the jump level. *)
Second(t, C) == CHOOSE l \in C \ {Driving(t, C)} : LevelOf(t, l) = Jump(t, C)

(* eagerly_subsume_recently_learned_clauses, for the clause at c: reasons   *)
(* become garbage, too.                                                    *)
EagerlySubsume(t, c) ==
    MarkGarbage(t, {d \in DOMAIN t.mem \ {c} :
        t.mem[d].red /\ ToSet(t.mem[c].lits) \subseteq ToSet(t.mem[d].lits)})

(* new_driving_clause, backtrack and search_assign_driving                 *)
Learn(t, C, n) ==
    LET uip == Driving(t, C)
        second == Second(t, C)
        u == NewClause(t, <<uip, second>> \o SetToSeq(C \ {uip, second}), TRUE)
        c == CHOOSE a \in DOMAIN u.mem : a \notin DOMAIN t.mem
        v == IF Cardinality(C) = 1 THEN Assign(Backtrack(t, n), uip, 0)
             ELSE EagerlySubsume(Assign(Backtrack(u, n), uip, c), c)
    IN  [v EXCEPT !.conflict = 0]

-----------------------------------------------------------------------------
(* Garbage collection *)

FixedTrue(t, l) == True(t, l) /\ LevelOf(t, l) = 0
FixedFalse(t, l) == FixedTrue(t, -l)

(* shrink_clause: the size changes, the watches do not. *)
Shrink(c, left) == [c EXCEPT !.lits = left]

(* mark_satisfied_clauses_as_garbage and remove_falsified_literals         *)
MarkSatisfied(t) ==
    LET Simplified(c) ==
            LET left == SelectSeq(c.lits, LAMBDA l : ~FixedFalse(t, l))
            IN  IF c.garbage THEN c
                ELSE IF \E l \in ToSet(c.lits) : FixedTrue(t, l) THEN [c EXCEPT !.garbage = TRUE]
                ELSE IF Len(left) < 2 THEN c ELSE Shrink(c, left)
    IN  [t EXCEPT !.mem = [a \in DOMAIN t.mem |-> Simplified(t.mem[a])]]

(* protect_reasons: the clauses that are not collected although they are   *)
(* garbage.                                                                *)
Protected(t) ==
    {t.reason[Vidx(l)] : l \in {k \in ToSet(t.trail) : t.status[Vidx(k)] = "active"}} \ {0}

(* copy_non_garbage_clauses: where each clause goes. *)
Copies(t, keep) ==
    LET free == FreeMemory(t)
        Rank(c, S) == Cardinality({d \in S : d < c})
    IN  [c \in keep |-> CHOOSE a \in free : Rank(a, free) = Rank(c, keep)]

(* flush_watches: the watches of collected clauses go, the others follow   *)
(* their clause and get its size and the other watched literal.            *)
Flushed(t, l, copy) ==
    {[clause |-> copy[w.clause],
      blit |-> LET lits == t.mem[w.clause].lits IN IF lits[1] = l THEN lits[2] ELSE lits[1],
      binary |-> Len(t.mem[w.clause].lits) = 2] :
        w \in {x \in t.watches[l] : x.clause \in DOMAIN copy}}

(* delete_garbage_clauses or copy_non_garbage_clauses, with                *)
(* flush_all_occs_and_watches and update_reason_references.                *)
Sweep(t, copying) ==
    LET keep == {c \in DOMAIN t.mem : ~t.mem[c].garbage} \cup (Protected(t) \cap DOMAIN t.mem)
        copy == IF copying THEN Copies(t, keep) ELSE [c \in keep |-> c]
        From(a) == CHOOSE c \in keep : copy[c] = a
    IN  [t EXCEPT
            !.mem = [a \in Range(copy) |-> t.mem[From(a)]],
            !.watches = [l \in DOMAIN t.watches |-> Flushed(t, l, copy)],
            !.reason = [v \in DOMAIN t.reason |->
                          IF (True(t, v) \/ True(t, -v)) /\ t.reason[v] \in keep
                          THEN copy[t.reason[v]] ELSE t.reason[v]],
            !.arena = IF copying THEN Range(copy) ELSE @]

Fixed(t) == {v \in VarsOf(t) : t.status[v] = "fixed"}

(* garbage_collection: memory is copied from the second one on (arenaing). *)
(* Clauses are simplified if variables were fixed since the last one.      *)
Collect(t) == Sweep(IF fresh \/ Fixed(t) # Fixed(s) THEN MarkSatisfied(t) ELSE t, collections > 0)

(* connect_watches, on the root level *)
ConnectWatches(t) ==
    LET live == {c \in DOMAIN t.mem : ~t.mem[c].garbage}
        Watches(l) ==
            {[clause |-> c,
              blit |-> IF t.mem[c].lits[1] = l THEN t.mem[c].lits[2] ELSE t.mem[c].lits[1],
              binary |-> Len(t.mem[c].lits) = 2] :
                c \in {d \in live : l \in {t.mem[d].lits[1], t.mem[d].lits[2]}}}
        Falsified(c) == {k \in DOMAIN t.trail : -t.trail[k] \in {c.lits[1], c.lits[2]}}
        again == UNION {Falsified(t.mem[c]) :
                          c \in {d \in live : /\ Len(t.mem[d].lits) > 2
                                             /\ ~True(t, t.mem[d].lits[1])
                                             /\ ~True(t, t.mem[d].lits[2])}}
    IN  [t EXCEPT !.watches = [l \in DOMAIN t.watches |-> Watches(l)],
                  !.propagated = Lowest({@} \cup {k - 1 : k \in again})]

-----------------------------------------------------------------------------
(* Compaction *)

Inactive(t) == {v \in VarsOf(t) : t.status[v] # "active"}
FirstFixed(t) == IF Fixed(t) = {} THEN 0 ELSE Lowest(Fixed(t))

(* Mapper: active variables and the first fixed one keep a name. *)
Mapped(t) == (VarsOf(t) \ Inactive(t)) \cup (IF Fixed(t) = {} THEN {} ELSE {FirstFixed(t)})
MapIdx(t, v) == IF v \in Mapped(t) THEN Cardinality({u \in Mapped(t) : u <= v}) ELSE 0
Unmapped(t, d) == CHOOSE v \in Mapped(t) : MapIdx(t, v) = d

(* Mutated form: the value of the first fixed variable is forgotten. *)
MapLitUnsigned(t, l) ==
    LET n == MapIdx(t, IF True(t, l) \/ False(t, l) THEN FirstFixed(t) ELSE Vidx(l))
    IN  IF l < 0 THEN -n ELSE n

(* map_lit: literals of fixed variables become the one that is kept, or    *)
(* its negation; other variables without a name become 0.                  *)
MapLit(t, l) ==
    LET n == MapIdx(t, Vidx(l))
        m == MapIdx(t, FirstFixed(t))
    IN  IF n # 0 THEN IF l < 0 THEN -n ELSE n
        ELSE IF ~(True(t, l) \/ False(t, l)) THEN 0
        ELSE IF True(t, l) = True(t, FirstFixed(t)) THEN m ELSE -m

(* frozentab: counters move down one after the other and are added to what *)
(* is there.                                                               *)
MapFrozen(t, tab) ==
    LET upto[v \in Nat] ==
            IF v = 0 THEN tab
            ELSE LET d == MapIdx(t, v)
                     f == upto[v - 1]
                 IN  IF d \in {0, v} THEN f ELSE [f EXCEPT ![d] = @ + f[v], ![v] = 0]
    IN  [d \in 1 .. Cardinality(Mapped(t)) |-> upto[Cardinality(VarsOf(t))][d]]

(* assume and reset_assumptions: assumed variables are frozen. *)
AssumeAll(tab, lits) ==
    LET upto[k \in Nat] ==
            IF k = 0 THEN [frozentab |-> tab, lits |-> << >>]
            ELSE LET a == upto[k - 1]
                 IN  IF lits[k] \in ToSet(a.lits) THEN a
                     ELSE [frozentab |-> [a.frozentab EXCEPT ![Vidx(lits[k])] = @ + 1],
                           lits |-> Append(a.lits, lits[k])]
    IN  upto[Len(lits)]

Melted(tab, lits) ==
    [v \in DOMAIN tab |-> tab[v] - Cardinality({k \in DOMAIN lits : Vidx(lits[k]) = v})]

MapNames(t) ==
    [e2i |-> [e \in DOMAIN names.e2i |-> IF names.e2i[e] = 0 THEN 0 ELSE MapLit(t, names.e2i[e])],
     i2e |-> [d \in 1 .. Cardinality(Mapped(t)) |-> names.i2e[Unmapped(t, d)]]]

Reassumed(t, e2i) ==
    LET lits == formula.assumptions
    IN  AssumeAll(MapFrozen(t, Melted(t.frozentab, names.assumptions)),
                  [k \in DOMAIN lits |-> IF lits[k] < 0 THEN -e2i[-lits[k]] ELSE e2i[lits[k]]])

MapSolver(t, tab) ==
    LET n == Cardinality(Mapped(t))
        Old(l) == IF l < 0 THEN -Unmapped(t, -l) ELSE Unmapped(t, l)
        Map(x) == MapLit(t, x)
        trail == SelectSeq(t.trail, LAMBDA l : MapIdx(t, Vidx(l)) # 0)
    IN  [t EXCEPT
            !.mem = [c \in DOMAIN t.mem |->
                       [t.mem[c] EXCEPT !.lits = [k \in DOMAIN @ |-> Map(@[k])]]],
            !.watches = [l \in (1 .. n) \cup {-d : d \in 1 .. n} |->
                           {[w EXCEPT !.blit = Map(@)] : w \in t.watches[Old(l)]}],
            !.trail = [k \in DOMAIN trail |-> Map(trail[k])],
            !.propagated = Len(trail),
            !.level = [d \in 1 .. n |-> t.level[Unmapped(t, d)]],
            !.reason = [d \in 1 .. n |-> t.reason[Unmapped(t, d)]],
            !.status = [d \in 1 .. n |-> t.status[Unmapped(t, d)]],
            !.frozentab = tab]

-----------------------------------------------------------------------------
(* Steps of cdcl_loop_with_inprocessing *)

ExternalLit(l) == IF l < 0 THEN -names.i2e[-l] ELSE names.i2e[l]

(* The solver becomes t; what is fixed is recorded. *)
Update(t) ==
    /\ s' = t
    /\ known' = known \cup {ExternalLit(l) : l \in {k \in ToSet(t.trail) : Vidx(k) \in Fixed(t) \ Fixed(s)}}

Search(t) ==
    /\ Update(t)
    /\ fresh' = (fresh \/ Fixed(t) # Fixed(s))
    /\ UNCHANGED <<formula, names, collections, unsat>>

Propagate ==
    /\ ~unsat /\ s.conflict = 0 /\ ~Complete(s)
    /\ Search(Propagated(s))
    /\ UNCHANGED <<learned, decisions>>

Decide(l) ==
    /\ ~unsat /\ Complete(s) /\ decisions < MaxDecisions
    /\ s.status[Vidx(l)] = "active" /\ ~True(s, l) /\ ~False(s, l)
    /\ Search([s EXCEPT !.control = Append(@, Len(s.trail)), !.trail = Append(@, l),
                        !.level[Vidx(l)] = Level(s) + 1, !.reason[Vidx(l)] = 0])
    /\ decisions' = decisions + 1
    /\ UNCHANGED learned

(* restart, to the level that reuse_trail returns *)
Restart(n) ==
    /\ ~unsat /\ Complete(s) /\ n < Level(s)
    /\ Search(Backtrack(s, n))
    /\ UNCHANGED <<learned, decisions>>

(* analyze *)
Analyze ==
    /\ s.conflict # 0 /\ ConflictLevel(s) > 0
    /\ \E t \in {HighestTo(HighestTo(s, 1), 2)} :
          \/ /\ \E l \in Forced(t) : Forced(t) = {l} /\ Search(DriveConflict(t, l))
             /\ UNCHANGED learned
          \/ /\ Cardinality(Forced(t)) > 1 /\ learned < MaxLearned
             /\ \E u \in {Backtrack(t, ConflictLevel(t))} : \E C \in Learnable(u) :
                   \E n \in Jump(u, C) .. Level(u) - 1 : Search(Learn(u, C, n))
             /\ learned' = learned + 1
    /\ UNCHANGED decisions

LearnEmpty ==
    /\ s.conflict # 0 /\ ConflictLevel(s) = 0 /\ ~unsat
    /\ unsat' = TRUE
    /\ UNCHANGED <<formula, s, names, fresh, collections, learned, decisions, known>>

(* A collection that leaves the solver t. *)
Collected(t) ==
    /\ Update(t)
    /\ fresh' = FALSE
    /\ collections' = collections + 1
    /\ UNCHANGED <<formula, learned, decisions, unsat>>

(* Mutated form: units assigned out of order wait for the next backtrack. *)
OutOfOrderLeft(t) == t

(* propagate_out_of_order_units *)
OutOfOrderDone(t) ==
    IF Level(t) > 0 /\ \E k \in t.control[1] + 1 .. Len(t.trail) : LevelOf(t, t.trail[k]) = 0
    THEN Propagated(Backtrack(t, 0)) ELSE t

Useless(t) == {c \in DOMAIN t.mem : t.mem[c].red /\ ~t.mem[c].garbage} \ Protected(t)

(* reduce *)
Reduce ==
    /\ ~unsat /\ Complete(s) /\ collections < MaxCollections
    /\ \E t \in {OutOfOrderDone(s)} :
          IF t.conflict # 0
          THEN Search(t) /\ UNCHANGED <<learned, decisions>>
          ELSE \E u \in {IF fresh \/ Fixed(t) # Fixed(s) THEN MarkSatisfied(t) ELSE t} :
                 /\ \E G \in SUBSET Useless(u) :
                       Collected(Collect(MarkGarbage(u, G)))
                 /\ UNCHANGED names

(* A pure variable that is not frozen is eliminated with its clauses; then *)
(* watches are connected again.                                            *)
Eliminate(v) ==
    /\ ~unsat /\ Complete(s) /\ Level(s) = 0
    /\ s.status[v] = "active" /\ s.frozentab[v] = 0
    /\ \E l \in {v, -v} : \A c \in DOMAIN s.mem : s.mem[c].garbage \/ l \notin ToSet(s.mem[c].lits)
    /\ LET S == {c \in DOMAIN s.mem : ToSet(s.mem[c].lits) \cap {v, -v} # {}}
       IN  Search(ConnectWatches(MarkGarbage([s EXCEPT !.status[v] = "pure"], S)))
    /\ UNCHANGED <<learned, decisions>>

(* compact, which collects first *)
Compact ==
    /\ ~unsat /\ Complete(s) /\ Level(s) = 0 /\ collections < MaxCollections
    /\ Inactive(s) # {}
    /\ \E t \in {Collect(s)} : \E new \in {MapNames(t)} : \E a \in {Reassumed(t, new.e2i)} :
          /\ s' = MapSolver(t, a.frozentab)
          /\ names' = [e2i |-> new.e2i, i2e |-> new.i2e, assumptions |-> a.lits]
    /\ fresh' = FALSE
    /\ collections' = collections + 1
    /\ UNCHANGED <<formula, learned, decisions, unsat, known>>

InitStorage ==
    /\ formula \in Formulas
    /\ \E a \in {AssumeAll(formula.frozen, formula.assumptions)} :
          /\ LET V == 1 .. formula.vars
                 empty == [mem |-> << >>, watches |-> [l \in V \cup {-v : v \in V} |-> {}], arena |-> {},
                           trail |-> << >>, level |-> [v \in V |-> 0], reason |-> [v \in V |-> 0],
                           status |-> [v \in V |-> "active"], control |-> << >>, propagated |-> 0,
                           conflict |-> 0, frozentab |-> a.frozentab]
                 upto[k \in Nat] == IF k = 0 THEN empty
                                    ELSE NewClause(upto[k - 1], formula.clauses[k], FALSE)
             IN  s = upto[Len(formula.clauses)]
          /\ names = [e2i |-> [e \in 1 .. formula.vars |-> e], i2e |-> [v \in 1 .. formula.vars |-> v],
                      assumptions |-> a.lits]
    /\ fresh = FALSE /\ collections = 0 /\ learned = 0 /\ decisions = 0 /\ unsat = FALSE /\ known = {}

NextStorage ==
    \/ Propagate \/ Analyze \/ LearnEmpty \/ Reduce \/ Compact
    \/ \E n \in 0 .. Level(s) - 1 : Restart(n)
    \/ \E l \in LitsOf(s) : Decide(l)
    \/ \E v \in VarsOf(s) : Eliminate(v)

-----------------------------------------------------------------------------
(* After every collection, whether it deletes or copies, and every         *)
(* renaming: a watch refers to an allocated clause that has the watched    *)
(* literal in one of its first two places and the blocking literal         *)
(* elsewhere, live clauses have exactly their two watches, and the reason  *)
(* of a literal is an allocated clause, garbage or not, that implies it.   *)
ReferencesValid ==
    /\ \A l \in DOMAIN s.watches : \A w \in s.watches[l] :
          /\ w.clause \in DOMAIN s.mem
          /\ LET lits == s.mem[w.clause].lits
             IN  /\ l \in {lits[1], lits[2]}
                 /\ w.blit \in ToSet(lits) \ {l}
                 /\ w.binary = (Len(lits) = 2)
    /\ \A c \in DOMAIN s.mem : s.mem[c].garbage \/
          \A l \in DOMAIN s.watches :
             Cardinality({w \in s.watches[l] : w.clause = c}) =
                IF l \in {s.mem[c].lits[1], s.mem[c].lits[2]} THEN 1 ELSE 0
    /\ \A l \in ToSet(s.trail) : s.reason[Vidx(l)] # 0 =>
          /\ s.reason[Vidx(l)] \in DOMAIN s.mem
          /\ LET lits == ToSet(s.mem[s.reason[Vidx(l)]].lits)
             IN  /\ l \in lits
                 /\ \A k \in lits \ {l} : False(s, k) /\ LevelOf(s, k) <= LevelOf(s, l)

(* Visiting only the watches finds every conflict and every unit: when     *)
(* propagation is complete each clause that is not garbage has a true      *)
(* literal or two unassigned ones, also after backtracking over literals   *)
(* that stay, and after clauses were shrunken or moved.                    *)
WatchesSuffice ==
    Complete(s) /\ ~unsat => \A c \in DOMAIN s.mem : s.mem[c].garbage \/
        \/ \E l \in ToSet(s.mem[c].lits) : True(s, l)
        \/ Cardinality({l \in ToSet(s.mem[c].lits) : ~False(s, l)}) > 1

(* Compaction changes no meaning: an external literal that was fixed is    *)
(* true under its new name for ever, active variables are the names of     *)
(* their external ones, frozen and assumed variables stay frozen if they   *)
(* are active, and no clause mentions a variable that lost its name.       *)
NamesKept ==
    /\ \A e \in known : True(s, Internal(e))
    /\ \A v \in VarsOf(s) : s.status[v] = "active" => names.e2i[names.i2e[v]] = v
    /\ \A e \in DOMAIN names.e2i :
          LET v == Vidx(names.e2i[e])
              held == formula.frozen[e] > 0 \/ e \in {Vidx(l) : l \in ToSet(formula.assumptions)}
          IN  /\ held => v # 0
              /\ held /\ s.status[v] = "active" => s.frozentab[v] > 0
    /\ {Internal(l) : l \in ToSet(formula.assumptions)} = ToSet(names.assumptions)
    /\ \A c \in DOMAIN s.mem : s.mem[c].garbage \/ \A l \in ToSet(s.mem[c].lits) :
          l # 0 /\ s.status[Vidx(l)] # "pure"
=============================================================================
