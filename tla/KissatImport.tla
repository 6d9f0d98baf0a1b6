---------------------------- MODULE KissatImport ----------------------------
(***************************************************************************)
(* How Kissat reads a formula and keeps it until gates are extracted: the  *)
(* parser and kissat_add (parse.c, internal.c, import.c), the propagation  *)
(* of units over watches with blocking literals (proplit.h), the vectors   *)
(* that hold the watches in one array of words (vector.c), the changes     *)
(* between watching and connecting all literals (dense.c), and the         *)
(* checker of a build with assertions (check.c).                           *)
(*                                                                         *)
(* All happens on decision level 0.  External literals are the integers of *)
(* the file; the variable with the internal index i - 1 is i here.  A word *)
(* of the array is a tuple: a watch of a binary clause, a blocking literal,*)
(* a reference, or free.  Clauses of size two exist only as watches.       *)
(* The characters of the file are left out, its numbers are given.         *)
(***************************************************************************)
EXTENDS Integers, Sequences, FiniteSets, Bags

CONSTANTS
    Files,      \* records of the mode strict, the header numbers vars and clauses,
                \* the option tumble and the sequence lits of literals and zeros
    MaxVar,     \* the largest variable in a file
    DefragSize, \* option defragsize: words below which vectors are not moved
    DefragLimit \* option defraglim, in percent

ASSUME KissatImportAssumption ==
    /\ MaxVar \in Nat /\ DefragSize \in Nat /\ DefragLimit \in 0 .. 100
    /\ \A f \in Files : /\ f.strict \in {"RELAXED", "NORMAL", "PEDANTIC"} /\ f.tumble \in BOOLEAN
                        /\ \A k \in DOMAIN f.lits : f.lits[k] \in -MaxVar .. MaxVar

VARIABLES
    dimacs,     \* the member of Files
    consumed,   \* numbers that were parsed
    exported,   \* the external variables of the internal ones: solver->export
    clause,     \* [lits, satisfied, trivial, shrink]: the clause that is added
    root,       \* the internal literals that are true
    trail, propagated,
    inconsistent,
    active,     \* variables with the flag active
    arena,      \* clauses with more than two literals: [lits, searched, garbage]
    vectors,    \* [stack, capacity, begin, end, usable]
    pending,    \* the pairs of literal and word that are pushed next
    visit,      \* [word, kept, delayed, conflict]: a literal that is propagated
    binaries,   \* binary clauses saved while local search needs the vectors
    checker,    \* [units, lines, inconsistent, aborted]
    stage

importer == <<dimacs, consumed, exported, clause, root, trail, propagated, inconsistent,
              active, arena, vectors, pending, visit, binaries, checker, stage>>

Db == INSTANCE ClauseDb
Seqs == INSTANCE SequencesExt

Idx(l) == IF l < 0 THEN -l ELSE l
Lits == {l \in -MaxVar .. MaxVar : l # 0}
(* The number of a literal, in which NOT changes the last bit. *)
Code(l) == 2 * Idx(l) + IF l < 0 THEN 1 ELSE 0
ByCode == [n \in 1 .. 2 * MaxVar |-> IF n % 2 = 1 THEN (n + 1) \div 2 ELSE -(n \div 2)]
Elements(q) == {q[k] : k \in DOMAIN q}

NoClause == [lits |-> << >>, satisfied |-> FALSE, trivial |-> FALSE, shrink |-> FALSE]
NoVisit == [word |-> 0, kept |-> << >>, delayed |-> << >>, conflict |-> FALSE]
NoVectors == [stack |-> << >>, capacity |-> 0, begin |-> [l \in Lits |-> 0],
              end |-> [l \in Lits |-> 0], usable |-> 0]
NoChecker == [units |-> {}, lines |-> EmptyBag, inconsistent |-> FALSE, aborted |-> FALSE]
InitKissatImport ==
    /\ dimacs \in Files
    /\ consumed = 0 /\ exported = << >> /\ clause = NoClause
    /\ root = {} /\ trail = << >> /\ propagated = 0 /\ inconsistent = FALSE /\ active = {}
    /\ arena = << >>
    /\ vectors = NoVectors
    /\ pending = << >> /\ visit = NoVisit /\ binaries = << >>
    /\ checker = NoChecker
    /\ stage = "parse"

-----------------------------------------------------------------------------
(* Vectors.  Positions are those of the words in the array, the first of   *)
(* which is not used; begin is 0 for a null pointer.                       *)
Free == << >>
Binary(l) == <<"binary", l>>
Blocking(l) == <<"blocking", l>>
Ref(n) == <<"reference", n>>

SizeOf(v, l) == v.end[l] - v.begin[l]
Words(v, l) == SubSeq(v.stack, v.begin[l], v.end[l] - 1)
Full(v) == Len(v.stack) = v.capacity

(* kissat_stack_enlarge, until n words are available. *)
Capacity(v, n) ==
    CHOOSE c \in {(IF v.capacity = 0 THEN 2 ELSE v.capacity) * 2 ^ k : k \in 0 .. 12} :
        /\ c - Len(v.stack) >= n
        /\ c = 2 \/ c = v.capacity \/ (c \div 2) - Len(v.stack) < n

(* Mutated form: the words that were left are not marked as free. *)
EnlargedDirty(v, l) ==
    LET n == SizeOf(v, l)
        m == IF n = 0 THEN 1 ELSE 2 * n
        last == Len(v.stack)
    IN  [v EXCEPT !.capacity = Capacity(v, m),
                  !.stack = @ \o Words(v, l) \o [k \in 1 .. m - n |-> Free],
                  !.begin[l] = last + 1, !.end[l] = last + 1 + n,
                  !.usable = @ + m]

(* kissat_enlarge_vector: a copy of twice the size at the end of the array. *)
Enlarged(v, l) ==
    LET n == SizeOf(v, l)
        m == IF n = 0 THEN 1 ELSE 2 * n
        last == Len(v.stack)
        left == [k \in 1 .. last |->
                    IF k \in v.begin[l] .. v.end[l] - 1 THEN Free ELSE v.stack[k]]
    IN  [v EXCEPT !.capacity = Capacity(v, m),
                  !.stack = left \o Words(v, l) \o [k \in 1 .. m - n |-> Free],
                  !.begin[l] = last + 1, !.end[l] = last + 1 + n,
                  !.usable = @ + m]

(* The word at the end of a vector, which is free. *)
Write(v, l, w) ==
    [v EXCEPT !.stack[v.end[l]] = w, !.end[l] = @ + 1, !.usable = @ - 1]

Extended(v, l, w) ==
    [v EXCEPT !.stack = Append(@, w), !.end[l] = Len(v.stack) + 2,
              !.begin[l] = IF @ = 0 THEN Len(v.stack) + 1 ELSE @]

(* kissat_push_vectors *)
Pushed(v, l, w) ==
    LET u == IF v.stack = << >> THEN [v EXCEPT !.stack = <<Free>>, !.capacity = Capacity(v, 1)]
             ELSE v
    IN  IF u.begin[l] = 0 \/ u.end[l] = Len(u.stack) + 1
        THEN IF Full(u) THEN Write(Enlarged(u, l), l, w) ELSE Extended(u, l, w)
        ELSE IF u.stack[u.end[l]] # Free THEN Write(Enlarged(u, l), l, w)
        ELSE Write(u, l, w)

(* SET_END_OF_WATCHES with kissat_resize_vector, after the words of each   *)
(* vector l were overwritten by those of kept[l].                          *)
Rewritten(v, kept) ==
    LET owner(k) == {l \in Lits : k \in v.begin[l] .. v.end[l] - 1}
    IN  [v EXCEPT
            !.stack = [k \in DOMAIN v.stack |->
                IF owner(k) = {} THEN v.stack[k]
                ELSE LET l == CHOOSE x \in owner(k) : TRUE
                         n == k - v.begin[l] + 1
                     IN  IF n <= Len(kept[l]) THEN kept[l][n] ELSE Free],
            !.end = [l \in Lits |-> v.begin[l] + Len(kept[l])],
            !.usable = @ + Cardinality({k \in DOMAIN v.stack : \E l \in owner(k) :
                                            k - v.begin[l] >= Len(kept[l])})]

(* kissat_defrag_vectors: the vectors keep the order of their positions    *)
(* and lose the gaps between them.                                         *)
Defragmented(v) ==
    LET used == {l \in Lits : SizeOf(v, l) > 0}
        kept(k) == \E l \in used : k \in v.begin[l] .. v.end[l] - 1
        place(k) == 1 + Cardinality({j \in 1 .. k : kept(j)})
        n == Cardinality({j \in DOMAIN v.stack : kept(j)})
    IN  IF Len(v.stack) < 2 THEN v
        ELSE [stack |-> [m \in 1 .. n + 1 |->
                            IF m = 1 THEN v.stack[1]
                            ELSE v.stack[CHOOSE k \in DOMAIN v.stack : kept(k) /\ place(k) = m]],
              capacity |-> CHOOSE c \in {2 ^ k : k \in 1 .. 12} : c >= n + 1 /\ (c = 2 \/ c < 2 * (n + 1)),
              begin |-> [l \in Lits |-> IF l \in used THEN place(v.begin[l]) ELSE 0],
              end |-> [l \in Lits |-> IF l \in used THEN place(v.begin[l]) + SizeOf(v, l) ELSE 0],
              usable |-> 0]

-----------------------------------------------------------------------------
(* The checker.  A line is a clause that is neither satisfied nor unit     *)
(* when it is added, with the number of its literals; literals are those   *)
(* of the file.                                                            *)
External(c) == {IF l < 0 THEN -exported[-l] ELSE exported[l] : l \in c}
Line(c, n) == [lits |-> c, size |-> n]
LineLits(k) == {x.lits : x \in BagToSet(k.lines)}
Tautology(c) == \E l \in c : -l \in c

(* insert_imported_if_not_simplified *)
CheckerInsert(k, c, n) ==
    LET live == Db!Live(k.units, c)
    IN  IF k.inconsistent \/ Tautology(c) \/ Db!Sat(k.units, c) THEN k
        ELSE IF live = {} THEN [k EXCEPT !.inconsistent = TRUE]
        ELSE IF Cardinality(live) = 1 THEN [k EXCEPT !.units = @ \cup live]
        ELSE [k EXCEPT !.lines = @ (+) SetToBag({Line(c, n)})]

(* checker_propagate on the root level. *)
CheckerPropagate(k) ==
    LET U == Db!Closure(LineLits(k), k.units)
    IN  IF Db!Conflict(LineLits(k), U) THEN [k EXCEPT !.inconsistent = TRUE]
        ELSE [k EXCEPT !.units = U]

(* check_line: the negated literals lead to a conflict. *)
CheckLine(k, c) ==
    LET p == CheckerPropagate(k)
        S == LineLits(p)
    IN  IF k.inconsistent THEN k
        ELSE IF \/ p.inconsistent \/ Db!Sat(p.units, c)
                \/ Db!Conflict(S, Db!Closure(S, p.units \cup Db!Neg(c)))
        THEN p ELSE [p EXCEPT !.aborted = TRUE]

CheckAndAdd(k, c, n) == CheckerInsert(CheckLine(k, c), c, n)

(* remove_line_if_not_redundant *)
CheckerRemove(k, c, n) ==
    LET p == CheckerPropagate(k)
    IN  IF p.inconsistent THEN p
        ELSE IF n < 2 THEN IF Db!Sat(p.units, c) THEN p ELSE [p EXCEPT !.aborted = TRUE]
        ELSE IF Db!Sat(p.units, c) \/ Tautology(c) THEN p
        ELSE IF Line(c, n) \in BagToSet(p.lines)
        THEN [p EXCEPT !.lines = @ (-) SetToBag({Line(c, n)})]
        ELSE [p EXCEPT !.aborted = TRUE]

CheckerRemoveAll(k, S) ==
    Db!FoldSet(LAMBDA c, j : CheckerRemove(j, External(c), Cardinality(c)), k, S)

-----------------------------------------------------------------------------
(* Parsing and adding *)
Current == LET zeros == {k \in 1 .. consumed : dimacs.lits[k] = 0}
               last == IF zeros = {} THEN 0 ELSE CHOOSE k \in zeros : \A j \in zeros : j <= k
           IN  SubSeq(dimacs.lits, last + 1, consumed)
ParsedClauses == Cardinality({k \in 1 .. consumed : dimacs.lits[k] = 0})
Parsing == stage = "parse" /\ pending = << >>

ParseError == stage' = "error"

(* kissat_import_literal: variables get internal ones in the order in      *)
(* which they occur, or without tumble all up to the largest so far.       *)
Imported(e) ==
    IF ~dimacs.tumble
    THEN IF e <= Len(exported) THEN exported ELSE [k \in 1 .. e |-> k]
    ELSE IF e \in Elements(exported) THEN exported ELSE Append(exported, e)

InternalLit(x, l) ==
    LET i == CHOOSE k \in DOMAIN x : x[k] = Idx(l) IN IF l < 0 THEN -i ELSE i

(* kissat_add with a literal: repeated and false literals are dropped. *)
AddedLit(l) ==
    IF l \in Elements(clause.lits) THEN [clause EXCEPT !.shrink = TRUE]
    ELSE IF -l \in Elements(clause.lits) THEN [clause EXCEPT !.trivial = TRUE]
    ELSE IF l \in root THEN [clause EXCEPT !.satisfied = TRUE]
    ELSE IF -l \in root THEN [clause EXCEPT !.shrink = TRUE]
    ELSE [clause EXCEPT !.lits = Append(@, l)]

ParseLit ==
    /\ Parsing /\ consumed < Len(dimacs.lits)
    /\ \E l \in {dimacs.lits[consumed + 1]} :
           /\ l # 0
           /\ IF dimacs.strict # "RELAXED" /\ Idx(l) > dimacs.vars
              THEN ParseError /\ UNCHANGED <<consumed, exported, clause>>
              ELSE /\ consumed' = consumed + 1
                   /\ exported' = Imported(Idx(l))
                   /\ clause' = AddedLit(InternalLit(exported', l))
                   /\ UNCHANGED stage
    /\ UNCHANGED <<dimacs, root, trail, propagated, inconsistent, active, arena, vectors,
                   pending, visit, binaries, checker>>

(* The watches of a clause: kissat_watch_binary, kissat_watch_reference. *)
Watches(lits, n) ==
    IF Len(lits) = 2
    THEN <<<<lits[1], Binary(lits[2])>>, <<lits[2], Binary(lits[1])>>>>
    ELSE <<<<lits[1], Blocking(lits[2])>>, <<lits[1], Ref(n)>>,
           <<lits[2], Blocking(lits[1])>>, <<lits[2], Ref(n)>>>>

(* kissat_add with a zero.  All literals of the clause are unassigned, so  *)
(* that kissat_sort_literals leaves them where they are.                   *)
AddEmpty ==
    /\ inconsistent' = TRUE
    /\ checker' = CheckAndAdd(CheckerInsert(checker, Elements(Current), Len(Current)), {}, 0)
    /\ stage' = "finish"
    /\ UNCHANGED <<root, trail, active, arena, pending>>

AddUnit ==
    /\ root' = root \cup {clause.lits[1]}
    /\ trail' = Append(trail, clause.lits[1])
    /\ checker' = CheckerInsert(checker, Elements(Current), Len(Current))
    /\ active' = active \ {Idx(clause.lits[1])}
    /\ stage' = "propagate"
    /\ UNCHANGED <<inconsistent, arena, pending>>

AddClause ==
    /\ arena' = IF Len(clause.lits) = 2 THEN arena
                ELSE Append(arena, [lits |-> clause.lits, searched |-> 3, garbage |-> FALSE])
    /\ pending' = Watches(clause.lits, Len(arena) + 1)
    /\ active' = active \cup {Idx(l) : l \in Elements(clause.lits)}
    /\ checker' = CheckerInsert(checker, Elements(Current), Len(Current))
    /\ stage' = "defrag"
    /\ UNCHANGED <<root, trail, inconsistent>>

SkipClause ==
    /\ checker' = CheckerInsert(checker, Elements(Current), Len(Current))
    /\ stage' = "finish"
    /\ UNCHANGED <<root, trail, inconsistent, active, arena, pending>>

ParseZero ==
    /\ Parsing /\ consumed < Len(dimacs.lits) /\ dimacs.lits[consumed + 1] = 0
    /\ IF dimacs.strict # "RELAXED" /\ ParsedClauses = dimacs.clauses
       THEN /\ ParseError
            /\ UNCHANGED <<consumed, root, trail, inconsistent, active, arena, pending, checker>>
       ELSE /\ UNCHANGED consumed
            /\ IF inconsistent \/ clause.satisfied \/ clause.trivial THEN SkipClause
               ELSE IF clause.lits = << >> THEN AddEmpty
               ELSE IF Len(clause.lits) = 1 THEN AddUnit
               ELSE AddClause
    /\ UNCHANGED <<dimacs, exported, clause, propagated, vectors, visit, binaries>>

(* The rest of kissat_add: the checker replaces a clause that was shrunken *)
(* and forgets one that is not needed.                                     *)
FinishClause ==
    /\ stage = "finish" /\ pending = << >>
    /\ LET c == Elements(Current)
           n == Len(Current)
       IN  checker' =
             IF clause.satisfied \/ clause.trivial THEN CheckerRemove(checker, c, n)
             ELSE IF ~inconsistent /\ clause.shrink
             THEN CheckerRemove(CheckAndAdd(checker, External(Elements(clause.lits)),
                                            Len(clause.lits)), c, n)
             ELSE checker
    /\ clause' = NoClause
    /\ consumed' = consumed + 1
    /\ stage' = "parse"
    /\ UNCHANGED <<dimacs, exported, root, trail, propagated, inconsistent, active, arena,
                   vectors, pending, visit, binaries>>

(* The end of the file, and kissat_parse_dimacs. *)
ParseEnd ==
    /\ Parsing /\ consumed = Len(dimacs.lits)
    /\ IF Current # << >> \/ (dimacs.strict # "RELAXED" /\ ParsedClauses < dimacs.clauses)
       THEN ParseError
       ELSE stage' = "parsed"
    /\ vectors' = IF inconsistent THEN vectors ELSE Defragmented(vectors)
    /\ UNCHANGED <<dimacs, consumed, exported, clause, root, trail, propagated, inconsistent,
                   active, arena, pending, visit, binaries, checker>>

-----------------------------------------------------------------------------
PushWatch ==
    /\ pending # << >>
    /\ vectors' = Pushed(vectors, pending[1][1], pending[1][2])
    /\ pending' = Tail(pending)
    /\ UNCHANGED <<dimacs, consumed, exported, clause, root, trail, propagated, inconsistent,
                   active, arena, visit, binaries, checker, stage>>

(* kissat_defrag_watches_if_needed *)
DefragIfNeeded ==
    /\ stage = "defrag" /\ pending = << >>
    /\ vectors' = IF /\ Len(vectors.stack) > DefragSize
                     /\ vectors.usable > (Len(vectors.stack) * DefragLimit) \div 100
                  THEN Defragmented(vectors) ELSE vectors
    /\ stage' = "finish"
    /\ UNCHANGED <<dimacs, consumed, exported, clause, root, trail, propagated, inconsistent,
                   active, arena, pending, visit, binaries, checker>>

(* Propagation visits the watches of a false literal one after the other.  *)
NotLit == -trail[propagated + 1]
Watched == Words(vectors, NotLit)
Visiting ==
    /\ stage = "propagate" /\ pending = << >>
    /\ propagated < Len(trail) /\ ~visit.conflict
    /\ visit.word < Len(Watched)
First == Watched[visit.word + 1]

(* kissat_assign on level 0 for a reason that is not a unit. *)
AssignRoot(l) ==
    /\ root' = root \cup {l}
    /\ trail' = Append(trail, l)
    /\ active' = active \ {Idx(l)}
    /\ checker' = CheckAndAdd(checker, External({l}), 1)
Unassigned == UNCHANGED <<root, trail, active, checker>>

VisitBinary ==
    /\ Visiting /\ First[1] = "binary"
    /\ LET l == First[2]
       IN  /\ visit' = [visit EXCEPT !.word = @ + 1, !.kept = Append(@, First), !.conflict = -l \in root]
           /\ IF l \in root \/ -l \in root THEN Unassigned ELSE AssignRoot(l)
    /\ UNCHANGED <<dimacs, consumed, exported, clause, propagated, inconsistent, arena, vectors,
                   pending, binaries, stage>>

(* The search for a literal that is not false goes on at searched. *)
Replacement(c) ==
    LET n == Len(c.lits)
        order == [k \in 1 .. n - 2 |-> ((k - 1 + c.searched - 3) % (n - 2)) + 3]
        open == {k \in DOMAIN order : -c.lits[order[k]] \notin root}
    IN  IF open = {} THEN 0 ELSE order[CHOOSE k \in open : \A j \in open : k <= j]

VisitLarge ==
    /\ Visiting /\ First[1] = "blocking"
    /\ \E tail \in {Watched[visit.word + 2]} : \E c \in {arena[tail[2]]} :
       \E other \in {IF c.lits[1] = NotLit THEN c.lits[2] ELSE c.lits[1]} :
       \E r \in {Replacement(c)} :
       LET Keep(b) == [visit EXCEPT !.word = @ + 2, !.kept = @ \o <<Blocking(b), tail>>]
           searched == [arena EXCEPT ![tail[2]].searched = r]
       IN  \/ /\ First[2] \in root
              /\ visit' = Keep(First[2]) /\ Unassigned /\ UNCHANGED arena
           \/ /\ First[2] \notin root /\ other \in root
              /\ visit' = Keep(other) /\ Unassigned /\ UNCHANGED arena
           \/ /\ First[2] \notin root /\ other \notin root
              /\ r # 0 /\ c.lits[r] \in root
              /\ visit' = Keep(c.lits[r]) /\ arena' = searched /\ Unassigned
           \/ /\ First[2] \notin root /\ other \notin root
              /\ r # 0 /\ c.lits[r] \notin root
              /\ visit' = [visit EXCEPT !.word = @ + 2,
                              !.delayed = @ \o <<<<c.lits[r], Blocking(other)>>, <<c.lits[r], tail>>>>]
              /\ arena' = [searched EXCEPT ![tail[2]].lits =
                              [c.lits EXCEPT ![1] = other, ![2] = c.lits[r], ![r] = NotLit]]
              /\ Unassigned
           \/ /\ First[2] \notin root /\ other \notin root /\ r = 0
              /\ visit' = [Keep(First[2]) EXCEPT !.conflict = -other \in root]
              /\ IF -other \in root THEN Unassigned ELSE AssignRoot(other)
              /\ UNCHANGED arena
    /\ UNCHANGED <<dimacs, consumed, exported, clause, propagated, inconsistent, vectors,
                   pending, binaries, stage>>

(* The end of the loop, or of a conflict: the watches that were not        *)
(* visited are kept, the new ones pushed.                                  *)
EndLiteral ==
    /\ stage = "propagate" /\ pending = << >>
    /\ propagated < Len(trail)
    /\ visit.conflict \/ visit.word = Len(Watched)
    /\ vectors' = Rewritten(vectors, [l \in Lits |->
           IF l = NotLit THEN visit.kept \o SubSeq(Watched, visit.word + 1, Len(Watched))
           ELSE Words(vectors, l)])
    /\ pending' = visit.delayed
    /\ visit' = [NoVisit EXCEPT !.conflict = visit.conflict]
    /\ propagated' = propagated + 1
    /\ stage' = IF visit.conflict THEN "conflict" ELSE stage
    /\ UNCHANGED <<dimacs, consumed, exported, clause, root, trail, inconsistent, active, arena,
                   binaries, checker>>

(* kissat_update_conflicts_and_trail *)
EndPropagation ==
    /\ pending = << >>
    /\ \/ /\ stage = "conflict"
          /\ inconsistent' = TRUE
          /\ checker' = CheckAndAdd(checker, {}, 0)
          /\ UNCHANGED <<trail, propagated>>
       \/ /\ stage = "propagate" /\ propagated = Len(trail)
          /\ trail' = << >> /\ propagated' = 0
          /\ UNCHANGED <<inconsistent, checker>>
    /\ visit' = NoVisit
    /\ stage' = "finish"
    /\ UNCHANGED <<dimacs, consumed, exported, clause, root, active, arena, vectors, pending,
                   binaries>>

-----------------------------------------------------------------------------
(* Dense mode: watches of large clauses are dropped, and all literals of   *)
(* the clauses connected instead.                                          *)
Assigned(l) == l \in root \/ -l \in root
OverLiterals(F(_)) == Seqs!FlattenSeq([n \in DOMAIN ByCode |-> F(ByCode[n])])
PairsOf(l) ==
    LET bin == SelectSeq(Words(vectors, l), LAMBDA w : w[1] = "binary")
    IN  [n \in DOMAIN bin |-> <<l, bin[n][2]>>]

(* flush_large_watches deletes binary clauses with an assigned literal. *)
AllPairs == SelectSeq(OverLiterals(PairsOf), LAMBDA p : Code(p[1]) < Code(p[2]))
OpenPairs == SelectSeq(AllPairs, LAMBDA p : ~Assigned(p[1]) /\ ~Assigned(p[2]))
DeletedBinaries == {{p[1], p[2]} : p \in Elements(AllPairs) \ Elements(OpenPairs)}
OpenBinaries(l) ==
    SelectSeq(Words(vectors, l), LAMBDA w : w[1] = "binary" /\ ~Assigned(l) /\ ~Assigned(w[2]))

RootSatisfied(c) == \E l \in Elements(c.lits) : l \in root
CollectSatisfied == [n \in DOMAIN arena |-> [arena[n] EXCEPT !.garbage = @ \/ RootSatisfied(arena[n])]]
NewGarbage == {Elements(arena[n].lits) : n \in {m \in DOMAIN arena :
                                                  ~arena[m].garbage /\ RootSatisfied(arena[m])}}

(* kissat_walk_initially, up to the local search, which has a counter for  *)
(* each clause: the references in the vectors are those of the counters.   *)
EnterWalk ==
    /\ stage = "parsed" /\ ~inconsistent
    /\ binaries' = OpenPairs
    /\ vectors' = Rewritten(vectors, [l \in Lits |-> << >>])
    /\ checker' = CheckerRemoveAll(checker, DeletedBinaries)
    /\ stage' = "counters"
    /\ UNCHANGED <<dimacs, consumed, exported, clause, root, trail, propagated, inconsistent,
                   active, arena, pending, visit>>

ConnectCounters ==
    /\ stage = "counters"
    /\ arena' = CollectSatisfied
    /\ checker' = CheckerRemoveAll(checker, NewGarbage)
    /\ LET large == SelectSeq([n \in DOMAIN arena |-> arena'[n]], LAMBDA c : ~c.garbage)
           lits == binaries \o [n \in DOMAIN large |-> SelectSeq(large[n].lits, LAMBDA l : ~Assigned(l))]
       IN  pending' = Seqs!FlattenSeq([n \in DOMAIN lits |->
                          [k \in DOMAIN lits[n] |-> <<lits[n][k], Ref(n)>>]])
    /\ stage' = "walk"
    /\ UNCHANGED <<dimacs, consumed, exported, clause, root, trail, propagated, inconsistent,
                   active, vectors, visit, binaries>>

(* kissat_sort_literals on the root level: unassigned literals are moved   *)
(* to the first two positions.                                             *)
ToFront(lits, n) ==
    LET open == {k \in n .. Len(lits) : ~Assigned(lits[k])}
        k == CHOOSE x \in open : \A y \in open : x <= y
    IN  IF open = {} THEN lits ELSE [lits EXCEPT ![n] = lits[k], ![k] = lits[n]]
Sorted(c) == [c EXCEPT !.lits = ToFront(ToFront(@, 1), 2), !.searched = 3]

(* kissat_resume_sparse_mode: large clauses are watched again.  There is   *)
(* nothing left to propagate.                                              *)
Resumed ==
    LET kept == [n \in DOMAIN arena |-> IF CollectSatisfied[n].garbage THEN CollectSatisfied[n]
                                        ELSE Sorted(arena[n])]
        saved == [n \in DOMAIN binaries |-> Watches(binaries[n], 0)]
        large == [n \in DOMAIN arena |-> IF kept[n].garbage THEN << >> ELSE Watches(kept[n].lits, n)]
    IN  /\ vectors' = Rewritten(vectors, [l \in Lits |->
                          SelectSeq(Words(vectors, l), LAMBDA w : w[1] = "binary")])
        /\ arena' = kept
        /\ pending' = Seqs!FlattenSeq(saved \o large)
        /\ checker' = CheckerRemoveAll(checker, NewGarbage)

EndWalk ==
    /\ stage = "walk" /\ pending = << >>
    /\ Resumed
    /\ binaries' = << >>
    /\ stage' = "walked"
    /\ UNCHANGED <<dimacs, consumed, exported, clause, root, trail, propagated, inconsistent,
                   active, visit>>

(* kissat_eliminate, up to the loop that extracts gates. *)
EnterEliminate ==
    /\ stage \in {"parsed", "walked"} /\ pending = << >>
    /\ vectors' = Rewritten(vectors, [l \in Lits |-> OpenBinaries(l)])
    /\ checker' = CheckerRemoveAll(checker, DeletedBinaries)
    /\ stage' = "connect"
    /\ UNCHANGED <<dimacs, consumed, exported, clause, root, trail, propagated, inconsistent,
                   active, arena, pending, visit, binaries>>

(* kissat_connect_irredundant_large_clauses *)
ConnectClauses ==
    /\ stage = "connect"
    /\ arena' = CollectSatisfied
    /\ checker' = CheckerRemoveAll(checker, NewGarbage)
    /\ pending' = Seqs!FlattenSeq([n \in DOMAIN arena |->
                      IF arena'[n].garbage THEN << >>
                      ELSE [k \in DOMAIN arena[n].lits |-> <<arena[n].lits[k], Ref(n)>>]])
    /\ stage' = "gates"
    /\ UNCHANGED <<dimacs, consumed, exported, clause, root, trail, propagated, inconsistent,
                   active, vectors, visit, binaries>>

EndEliminate ==
    /\ stage = "gates" /\ pending = << >>
    /\ IF inconsistent THEN UNCHANGED <<vectors, arena, pending, checker>> ELSE Resumed
    /\ stage' = "exit"
    /\ UNCHANGED <<dimacs, consumed, exported, clause, root, trail, propagated, inconsistent,
                   active, visit, binaries>>

NextKissatImport ==
    \/ ParseLit \/ ParseZero \/ FinishClause \/ ParseEnd
    \/ PushWatch \/ DefragIfNeeded
    \/ VisitBinary \/ VisitLarge \/ EndLiteral \/ EndPropagation
    \/ EnterWalk \/ ConnectCounters \/ EndWalk
    \/ EnterEliminate \/ ConnectClauses \/ EndEliminate

-----------------------------------------------------------------------------
(* The clauses that are given and those that are kept, in literals of the  *)
(* file.  Variables that were not imported are unconstrained.              *)
Given == {Elements(SubSeq(dimacs.lits, j, k - 1)) : <<j, k>> \in
             {p \in (1 .. consumed) \X (1 .. consumed) :
                 /\ p[1] <= p[2] /\ dimacs.lits[p[2]] = 0
                 /\ p[1] = 1 \/ dimacs.lits[p[1] - 1] = 0
                 /\ \A i \in p[1] .. p[2] - 1 : dimacs.lits[i] # 0}}
Kept == {External({l}) : l \in root}
        \cup {External({l, w[2]}) : <<l, w>> \in
                  {p \in UNION {{l} \X Elements(Words(vectors, l)) : l \in Lits} : p[2][1] = "binary"}}
        \cup {External({p[1], p[2]}) : p \in Elements(binaries)}
        \cup {External(Elements(arena[n].lits)) : n \in {m \in DOMAIN arena : ~arena[m].garbage}}
Models(S) == Db!Models(1 .. MaxVar, S)

(* What the code relies on between two clauses and later.                  *)
Settled == pending = << >> /\ stage \in {"parse", "parsed", "walk", "walked", "gates", "exit"}

(* kissat_check_vectors: vectors do not overlap, no word of a vector is    *)
(* free, and usable counts the words that are.                             *)
VectorsExact ==
    /\ \A l \in Lits : \A k \in vectors.begin[l] .. vectors.end[l] - 1 :
          /\ k \in 2 .. Len(vectors.stack) /\ vectors.stack[k] # Free
          /\ \A m \in Lits \ {l} : k \notin vectors.begin[m] .. vectors.end[m] - 1
    /\ vectors.usable = Cardinality({k \in 2 .. Len(vectors.stack) : vectors.stack[k] = Free})
    /\ Len(vectors.stack) <= vectors.capacity

(* Large clauses have two watches while they are watched, and one          *)
(* connection for each literal while gates are extracted.                  *)
RefsOf(n) == {l \in Lits : Ref(n) \in Elements(Words(vectors, l))}
Connected ==
    \A n \in {m \in DOMAIN arena : ~arena[m].garbage} :
        /\ stage \in {"parse", "parsed", "walked", "exit"} =>
              RefsOf(n) = {arena[n].lits[1], arena[n].lits[2]}
        /\ stage = "gates" => RefsOf(n) = Elements(arena[n].lits)

(* The clauses, units and watches that are kept have exactly the models of *)
(* the clauses that were parsed, whatever was dropped, shrunken, propagated *)
(* and moved on the way; a formula is inconsistent only if it has no model, *)
(* otherwise no unit is left to propagate.  The gates are extracted from   *)
(* the formula of the file.  The checker follows every step.               *)
ImportExact ==
    /\ VectorsExact
    /\ ~checker.aborted
    /\ Settled =>
          /\ inconsistent => Models(Given) = {}
          /\ ~inconsistent =>
                /\ Models(Kept) = Models(Given)
                /\ Db!Closure(Kept, External(root)) = External(root)
                /\ ~Db!Conflict(Kept, External(root))
                /\ Connected
                /\ active \cap {Idx(l) : l \in root} = {}
=============================================================================
