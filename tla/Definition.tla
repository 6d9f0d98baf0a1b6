----------------------------- MODULE Definition -----------------------------
(***************************************************************************)
(* kissat_find_definition: the clauses of a literal and of its negation,   *)
(* without the literal, go to Kitten.  If they are unsatisfiable, the      *)
(* clauses of a core define the literal; Kitten is asked several times,    *)
(* each time with the core of the time before in another order.  A core of *)
(* one polarity makes the literal a unit.  KissatGates uses the outcome:   *)
(* any unsatisfiable part of these clauses.                                *)
(***************************************************************************)
EXTENDS Kitten

CONSTANT Inputs   \* records [pos, neg, cores, proof]: sequences of the clauses of the literal
                  \* and of its negation, without it, and each a sequence of literals; the
                  \* option definitioncores; and whether a proof is written

LitsOf(i) == UNION {Range(c) : c \in Range(i.pos) \cup Range(i.neg)}

ASSUME DefinitionAssumption ==
    \A i \in Inputs : /\ i.cores \in Nat \ {0} /\ i.proof \in BOOLEAN
                      /\ LitsOf(i) \subseteq Int \ {0}
                      /\ \A c \in Range(i.pos) \cup Range(i.neg) : c # <<>>

VARIABLES
    input,
    exported,   \* how many clauses are exported; the next one gets this number as its id
    cores,      \* cores computed so far
    gates,      \* the gate clauses, as pairs of polarity and clause
    unit,       \* the polarities learned as units
    lemmas,     \* of a one-sided core: the lemmas that are handed to the proof
    result      \* "none" while the search goes on, "found" or "missing"

vars == <<kitten, input, exported, cores, gates, unit, lemmas, result>>

EnvVars(i) == {Abs(l) : l \in LitsOf(i)}

Init ==
    /\ input \in Inputs
    /\ Empty
    /\ exported = 0 /\ cores = 0 /\ gates = {} /\ unit = {} /\ lemmas = {}
    /\ result = "none"

(* The watches of the literal first, then those of its negation. *)
Watches == input.pos \o input.neg

Export ==
    /\ exported < Len(Watches)
    /\ AddKlause(exported, Watches[exported + 1])
    /\ exported' = exported + 1
    /\ UNCHANGED <<input, cores, gates, unit, lemmas, result>>

Solve ==
    /\ exported = Len(Watches) /\ result = "none"
    /\ StartSolve
    /\ UNCHANGED <<input, exported, cores, gates, unit, lemmas, result>>

Search ==
    /\ SolveStep
    /\ UNCHANGED <<input, exported, cores, gates, unit, lemmas, result>>

Missing ==
    /\ status = 10 /\ result = "none"
    /\ result' = "missing"
    /\ UNCHANGED <<kitten, input, exported, cores, gates, unit, lemmas>>

Core ==
    /\ ComputeClausalCore
    /\ cores' = cores + 1
    /\ UNCHANGED <<input, exported, gates, unit, lemmas, result>>

Again ==
    /\ status = 21 /\ cores < input.cores
    /\ ShrinkAndShuffle
    /\ UNCHANGED <<input, exported, cores, gates, unit, lemmas, result>>

(* traverse_definition_core: the id leads to a watch of the literal or of  *)
(* its negation.                                                           *)
Gate(id) == IF id < Len(input.pos) THEN <<1, input.pos[id + 1]>>
            ELSE <<-1, input.neg[id - Len(input.pos) + 1]>>

(* Mutated form: the first klauses are taken, whatever their ids. *)
GatesByPlace == {Gate(c - 1) : c \in CoreOriginals}

Gates == {Gate(klauses[c].id) : c \in CoreOriginals}
Polarities == {g[1] : g \in Gates}

(* Of a one-sided core the literal is learned; with a proof its lemmas     *)
(* come first, each with the literal.  The size that                       *)
(* traverse_one_sided_core_lemma gives them is one too large: a word       *)
(* behind the stack is taken for another literal.  It is the same here for *)
(* all of them, or one that occurs in none of the clauses (0).             *)
Extract ==
    /\ status = 21 /\ cores = input.cores /\ result = "none"
    /\ gates' = Gates
    /\ IF Cardinality(Polarities) = 1
       THEN /\ unit' = Polarities
            /\ \E behind \in LitsOf(input) \cup {0} :
                   lemmas' = IF ~input.proof THEN {}
                             ELSE {Range(Lits(c)) \cup {behind} :
                                      c \in {d \in CoreLemmas : Lits(d) # <<>>}}
       ELSE unit' = {} /\ lemmas' = {}
    /\ result' = "found"
    /\ UNCHANGED <<kitten, input, exported, cores>>

Done == result # "none" /\ UNCHANGED vars

Next == Export \/ Solve \/ Search \/ Missing \/ Core \/ Again \/ Extract \/ Done

Spec == Init /\ [][Next]_vars /\ WF_vars(Next)

-----------------------------------------------------------------------------
Assignments == [EnvVars(input) -> BOOLEAN]
Holds(s, c) == \E l \in c \ {0} : s[Abs(l)] = (l > 0)
Falsified(F) == \A s \in Assignments : \E c \in F : ~Holds(s, c)

(* Whatever is watched, no conflict is missed: when all variables have     *)
(* values every klause is satisfied; and whatever was resolved, the        *)
(* klauses of a core are unsatisfiable (kitten_solve, analyze,             *)
(* kitten_compute_clausal_core).                                           *)
KittenRight ==
    /\ status = 10 => \A c \in DOMAIN klauses : \E l \in Range(Lits(c)) : True(l)
    /\ status = 20 => Falsified({Range(Lits(c)) : c \in DOMAIN klauses})
    /\ status = 21 => Falsified({Range(Lits(c)) : c \in CoreOriginals})

(* The outcome of find_definition: "missing" only if the clauses leave the *)
(* literal open for some inputs; the gate clauses fix its value for all    *)
(* inputs; and a unit follows from clauses of its own polarity, with       *)
(* lemmas that follow one by one.                                          *)
DefinitionRight ==
    LET Of(s) == {Range(c) : c \in Range(s)}
    IN  /\ result = "missing" => ~Falsified(Of(input.pos) \cup Of(input.neg))
        /\ result = "found" => Falsified({Range(g[2]) : g \in gates})
        /\ \A u \in unit : Falsified(Of(IF u = 1 THEN input.pos ELSE input.neg))
        /\ \A c \in lemmas : \A s \in Assignments :
               (\A g \in gates : Holds(s, Range(g[2]))) => Holds(s, c)

(* The extraction comes to an end, in spite of restarts and of search      *)
(* pointers that move back: decide finds a variable as long as one is      *)
(* unassigned (kitten_solve, decide, update_search).                       *)
Terminates == <>(result # "none")
=============================================================================
