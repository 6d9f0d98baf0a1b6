---------------------------- MODULE KissatGates ----------------------------
(***************************************************************************)
(* The other detector: Kissat, changed to look for a gate definition of    *)
(* every variable and then exit, and the script at the other end of the    *)
(* pipe that decides which of the gates become auxiliary variables.        *)
(*                                                                         *)
(* Kissat looks at one variable after the other.  It eliminates nothing,   *)
(* so the clauses never change; but a definition that needs one polarity   *)
(* only makes Kissat learn a unit, and clauses are then looked at under    *)
(* the units known.  The order of watches and of the literals of a clause  *)
(* is abstracted to a choice.  Effort and size limits are far above the    *)
(* instances checked and are left out.  Literals are exported integers.    *)
(***************************************************************************)
EXTENDS Integers, SequencesExt, FiniteSetsExt

CONSTANTS Inputs, \* the formulas: sets of clauses, a clause a set of literals
          Scripts \* the scripts that may read the pipe

ASSUME KissatAssumption ==
  /\ \A F \in Inputs :
       /\ IsFiniteSet(F)
       /\ \A C \in F : /\ IsFiniteSet(C) /\ C \subseteq Int \ {0} /\ Cardinality(C) > 1
                       /\ \A l \in C : -l \notin C
  /\ Scripts \subseteq {"select_aux", "select_aux_graph"}

VARIABLES
  formula, \* the clauses
  script,  \* the script that reads the pipe
  todo,    \* variables still to try; they are tried from the smallest up
  values,  \* the literals that are true: the learned units
  pipe,    \* gates written by Kissat and not yet read by the script
  used,    \* USED, the clauses of all gates read so far
  edges,   \* DG, the graph of select_aux_graph.py
  aux      \* the variables written by the script, with their types

vars == <<formula, script, todo, values, pipe, used, edges, aux>>

Var(l) == IF l < 0 THEN -l ELSE l
Vars == {Var(l) : l \in UNION formula}

-----------------------------------------------------------------------------
(* Clauses as the gate extractors see them *)

\* Clauses connected to l: occurrences_literal flushes satisfied binary clauses.
Occurrences(l) == {C \in formula : l \in C /\ ~(Cardinality(C) = 2 /\ C \ {l} \subseteq values)}

Binaries(l) == {C \in Occurrences(l) : Cardinality(C) = 2}
Larges(l) == Occurrences(l) \ Binaries(l)

\* A satisfied large clause becomes garbage as soon as an extractor meets it.
Live(l) == {C \in Larges(l) : C \cap values = {}}

Unfalsified(C) == {l \in C : -l \notin values}

\* Clauses of l that are as strong as D: a binary one without looking at values.
Matches(l, D) ==
  {C \in Binaries(l) : C \subseteq D} \cup {C \in Live(l) : Unfalsified(C) \subseteq D}

-----------------------------------------------------------------------------
(* The extractors: for each the clause sets it can find for output l *)

Equivalences(l) ==
  {{p[1], p[2]} : p \in {q \in Binaries(l) \X Binaries(-l) :
                           q[2] \ {-l} = {-k : k \in q[1] \ {l}}}}

\* Mutated form: one marked literal makes a base clause.
AndsSome(l) ==
  LET bases == {B \in Live(-l) : \E k \in Unfalsified(B) \ {-l} : {l, -k} \in Binaries(l)}
      conjuncts(B) == {{l, -k} : k \in Unfalsified(B) \ {-l}} \cap formula
  IN IF Cardinality(Binaries(l)) < 2 THEN {}
     ELSE {{B} \cup conjuncts(B) : B \in bases}

\* The base clause is the first that only has negations of marked literals.
Ands(l) ==
  LET bases == {B \in Live(-l) : \A k \in Unfalsified(B) \ {-l} : {l, -k} \in Binaries(l)}
      conjuncts(B) == {{l, -k} : k \in Unfalsified(B) \ {-l}}
  IN IF Cardinality(Binaries(l)) < 2 THEN {}
     ELSE {{B} \cup conjuncts(B) : B \in bases}

\* The literal of a ternary clause that is neither the output nor the condition.
Branch(C, l, b) == CHOOSE k \in Unfalsified(C) : k \notin {l, b}

IfThenElses(l) ==
  LET ternary == {C \in Live(l) : Cardinality(Unfalsified(C)) = 3}
      found(C1, C2, b) ==
        {{C1, C2, M[1], M[2]} : M \in Matches(-l, {-l, b, -Branch(C1, l, b)})
                                       \X Matches(-l, {-l, -b, -Branch(C2, l, -b)})}
  IN UNION {found(p[1], p[2], p[3]) :
              p \in {q \in ternary \X ternary \X UNION ternary :
                       /\ q[1] # q[2] /\ q[3] # l
                       /\ q[3] \in Unfalsified(q[1]) /\ -q[3] \in Unfalsified(q[2])
                       /\ Var(Branch(q[1], l, q[3])) # Var(Branch(q[2], l, -q[3]))}}

\* Every even number of sign changes of the base clause must have its clause.
Xors(l) ==
  LET flip(C, S) == (C \ S) \cup {-k : k \in S}
      own(D) == IF l \in D THEN l ELSE -l
      even(C) == {S \in SUBSET Unfalsified(C) : S # {} /\ Cardinality(S) % 2 = 0}
      match(C, S) == LET D == flip(Unfalsified(C), S) IN Matches(own(D), D)
      choices(C) == {f \in [even(C) -> formula] : \A S \in even(C) : f[S] \in match(C, S)}
      bases == {C \in Live(l) : /\ Cardinality(Unfalsified(C)) > 2
                                /\ \A S \in even(C) : match(C, S) # {}}
  IN IF Cardinality(Larges(l)) < 2 \/ Cardinality(Larges(-l)) < 2 THEN {}
     ELSE UNION {{{C} \cup Range(f) : f \in choices(C)} : C \in bases}

\* Kitten, the sub-solver.
Satisfied(C, s) == \E k \in C : s[Var(k)] = (k > 0)
Unsatisfiable(F) == \A s \in [Vars -> BOOLEAN] : \E C \in F : ~Satisfied(C, s)

Environment(l, clauses) == {C \ {l, -l} : C \in clauses}

\* Whatever unsatisfiable part of the clauses of l and -l, without l, is the core.
Definitions(l) ==
  {K \in SUBSET (Occurrences(l) \cup Occurrences(-l)) : Unsatisfiable(Environment(l, K))}

\* Satisfied clauses may or may not have been flushed as garbage by then.
MayLackDefinition(l) ==
  LET live(k) == Binaries(k) \cup Live(k)
  IN ~Unsatisfiable(Environment(l, live(l) \cup live(-l)))

NoGate == [type |-> "NONE", clauses |-> {}]
Gates(type, Ks) == {[type |-> type, clauses |-> K] : K \in Ks}

\* The extractors are tried one after the other.  An if-then-else is missed when the
\* literals of its clauses are stored in the wrong order.
FindGates(l) ==
  IF Occurrences(l) = {} \/ Occurrences(-l) = {} THEN {NoGate}
  ELSE IF Equivalences(l) # {} THEN Gates("EQV", Equivalences(l))
  ELSE IF Ands(l) # {} THEN Gates("AND", Ands(l))
  ELSE IF Ands(-l) # {} THEN Gates("AND", Ands(-l))
  ELSE Gates("ITE", IfThenElses(l) \cup IfThenElses(-l))
       \cup (IF Xors(l) # {} THEN Gates("XOR", Xors(l))
             ELSE IF Xors(-l) # {} THEN Gates("XOR", Xors(-l))
             ELSE Gates("DEF", Definitions(l)) \cup (IF MayLackDefinition(l) THEN {NoGate} ELSE {}))

\* A core with one polarity only proves that literal.
Units(l, gate) ==
  IF gate.type # "DEF" THEN {}
  ELSE {k \in {l, -l} : \A C \in gate.clauses : k \in C}

-----------------------------------------------------------------------------
(* Kissat: eliminate_variables with kissat_generate_resolvents *)

Next_idx == Min(todo)

\* The literal with fewer occurrences.
Candidate(v) == IF Cardinality(Occurrences(v)) > Cardinality(Occurrences(-v)) THEN -v ELSE v

\* A binary clause is stored as the other literal only; the candidate is put back,
\* negated in the clauses of the second kind.
Printed(l, clauses) == {(C \ {l, -l}) \cup {IF l \in C THEN l ELSE -l} : C \in clauses}

TryVariable ==
  /\ todo # {}
  /\ todo' = todo \ {Next_idx}
  /\ LET l == Candidate(Next_idx)
     IN \E gate \in FindGates(l) :
          /\ pipe' = IF gate = NoGate THEN pipe
                     ELSE Append(pipe, [lit |-> Next_idx, type |-> gate.type,
                                        clauses |-> Printed(l, gate.clauses), whole |-> TRUE])
          /\ values' = values \cup Units(l, gate)
  /\ UNCHANGED <<formula, script, used, edges, aux>>

\* Kissat is killed, for instance by a time limit, possibly within a gate: the pipe then
\* holds some of its clauses and no endG.
Killed ==
  /\ todo # {}
  /\ todo' = {}
  /\ LET l == Candidate(Next_idx)
     IN \/ UNCHANGED pipe
        \/ \E gate \in FindGates(l) \ {NoGate} : \E part \in SUBSET Printed(l, gate.clauses) :
             pipe' = Append(pipe, [lit |-> Next_idx, type |-> gate.type,
                                   clauses |-> part, whole |-> FALSE])
  /\ UNCHANGED <<formula, script, values, used, edges, aux>>

-----------------------------------------------------------------------------
(* The scripts *)

\* select_aux.py: a gate that shares a clause with an earlier one is dropped, but its
\* clauses count as used all the same.
SelectUnused(g) ==
  /\ used' = used \cup g.clauses
  /\ aux' = IF g.clauses \cap used = {} THEN aux \cup {<<g.lit, g.type>>} ELSE aux
  /\ UNCHANGED edges

Cyclic(E) == \E D \in (SUBSET {e[1] : e \in E}) \ {{}} : \A x \in D : \E y \in D : <<y, x>> \in E

\* select_aux_graph.py: a gate that closes a cycle of dependencies is dropped.
SelectAcyclic(g) ==
  LET new == {<<Var(l), g.lit>> : l \in {l \in UNION g.clauses : Var(l) # g.lit}}
  IN /\ IF Cyclic(edges \cup new)
          THEN edges' = edges \ new /\ UNCHANGED aux
          ELSE edges' = edges \cup new /\ aux' = aux \cup {<<g.lit, g.type>>}
     /\ UNCHANGED used

\* Mutated form: the end of the input ends a gate.
EndsAtEnd(g) == TRUE

\* The loop over the clauses of a gate ends at endG; at the end of the input it reads
\* empty lines for ever.
Ends(g) == g.whole

ReadGate ==
  /\ pipe # <<>> /\ Ends(Head(pipe))
  /\ pipe' = Tail(pipe)
  /\ IF script = "select_aux_graph" THEN SelectAcyclic(Head(pipe)) ELSE SelectUnused(Head(pipe))
  /\ UNCHANGED <<formula, script, todo, values>>

\* Kissat has exited and the script has seen the end of its input, or reads for ever.
Done == todo = {} /\ ~(pipe # <<>> /\ Ends(Head(pipe))) /\ UNCHANGED vars

-----------------------------------------------------------------------------
Init ==
  /\ formula \in Inputs /\ script \in Scripts
  /\ todo = Vars
  /\ values = {} /\ pipe = <<>> /\ used = {} /\ edges = {} /\ aux = {}

Next == TryVariable \/ Killed \/ ReadGate \/ Done

Spec == Init /\ [][Next]_vars

-----------------------------------------------------------------------------
(* Properties *)

Aux == {a[1] : a \in aux}

\* A learned unit follows from the formula.
UnitsImplied ==
  \A u \in values : \A s \in [Vars -> BOOLEAN] :
    (\A C \in formula : Satisfied(C, s)) => s[Var(u)] = (u > 0)

\* The literals of the clauses that are unit or falsified under A.
Forced(A) == {l \in UNION formula : \E C \in formula : l \in C /\ \A k \in C \ {l} : -k \in A}

\* Unit propagation, which goes on until every variable has a value and one round longer.
Rounds == Cardinality(Vars) + 1
Propagated(A) ==
  LET round[n \in 0 .. Rounds] == IF n = 0 THEN A ELSE round[n - 1] \cup Forced(round[n - 1])
  IN round[Rounds]

\* Unit propagation after the variables outside of D got the values s.
Decides(s, D) ==
  LET A == Propagated({IF s[v] THEN v ELSE -v : v \in Vars \ D})
  IN (\E l \in A : -l \in A) \/ \A v \in Vars : v \in A \/ -v \in A

\* Every auxiliary variable by itself follows by unit propagation from all others,
\* or there is a conflict, although extractors ignore literals that learned units
\* make false.
EachForced == \A v \in Aux : \A s \in [Vars \ {v} -> BOOLEAN] : Decides(s, {v})

\* What the detector learns and prints is right, for every script that reads it.
DetectorRight == UnitsImplied /\ EachForced

\* With select_aux_graph.py, which looks for cycles, unit propagation leaves no auxiliary
\* variable without a value once all inputs have one, unless it runs into a conflict.
\* CaDiCaL, which branches on inputs only, relies on it.  Gates that select_aux.py lets
\* through may depend on each other.  An input that has the wrong value although its
\* literal was learned as a unit is left out: gates that ignore the false literal say
\* nothing then.
Agrees(s) == \A u \in values : Var(u) \notin Aux => s[Var(u)] = (u > 0)
InputsSuffice ==
  script = "select_aux_graph" =>
    \A s \in [Vars \ Aux -> BOOLEAN] : Agrees(s) => Decides(s, Aux)

-----------------------------------------------------------------------------
(* Why the detector is right: the inductive invariant. *)

VarsOf(K) == {Var(l) : l \in UNION K}

\* Where the units among the other variables of the clauses hold, one value of v at most
\* satisfies the clauses.
Fixes(v, K) ==
  \A s \in [Vars -> BOOLEAN] :
    (\A u \in values : Var(u) \in VarsOf(K) \ {v} => s[Var(u)] = (u > 0)) =>
      \E a \in BOOLEAN, C \in K : ~Satisfied(C, [s EXCEPT ![v] = a])

\* If v is a unit, the clauses are the core it was learned from.
CoreOf(v, K) ==
  \A u \in values : Var(u) = v => Unsatisfiable(Environment(u, K)) /\ \A C \in K : u \in C

GateRight(v, K) == v \in Vars \ todo /\ K \subseteq formula /\ Fixes(v, K) /\ CoreOf(v, K)

Sources(v, K) == {<<x, v>> : x \in VarsOf(K) \ {v}}

\* The types of gates, as they are written.
Types == {"EQV", "AND", "ITE", "XOR", "DEF"}

KissatTypeOK ==
  /\ formula \in Inputs /\ script \in Scripts /\ todo \subseteq Vars
  /\ pipe \in Seq([lit : Vars, type : Types, clauses : SUBSET (SUBSET Int), whole : BOOLEAN])
  /\ \A u \in values : u \in Int /\ u # 0 /\ Var(u) \in Vars \ todo
  /\ edges \subseteq Vars \X Aux

\* The gates to be read are right, and there is one for a variable at most.
PipeRight ==
  \A i \in DOMAIN pipe : Ends(pipe[i]) =>
    /\ pipe[i].lit \notin Aux /\ GateRight(pipe[i].lit, pipe[i].clauses)
    /\ \A j \in DOMAIN pipe : Ends(pipe[j]) /\ pipe[j].lit = pipe[i].lit => j = i

\* The auxiliary variables have a right gate, and the graph has its dependencies.
AuxRight ==
  \A v \in Aux : \E K \in SUBSET formula :
    GateRight(v, K) /\ (script = "select_aux_graph" => Sources(v, K) \subseteq edges)

KissatInv == KissatTypeOK /\ UnitsImplied /\ PipeRight /\ AuxRight /\ ~Cyclic(edges)
=============================================================================
