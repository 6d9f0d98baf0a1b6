------------------------------ MODULE MCKissat ------------------------------
(* Instances of KissatImport and KissatGates for TLC: how Kissat reads and *)
(* stores a formula, or how it finds gates.                                *)
EXTENDS KissatGates, KissatImport

CONSTANT MaxClauses  \* the largest number of clauses of the enumerated formulas

\* Clauses with at least two literals over the variables 1 .. 3.
AllClauses ==
  {C \in SUBSET ((1 .. 3) \cup {-v : v \in 1 .. 3}) :
     Cardinality(C) > 1 /\ \A v \in 1 .. 3 : ~({v, -v} \subseteq C)}

SmallFormulas ==
  LET upto[k \in Nat] ==
        IF k = 0 THEN {{}}
        ELSE upto[k - 1] \cup {F \cup {C} : F \in upto[k - 1], C \in AllClauses}
  IN upto[MaxClauses]

AndGate(o, a, b) == {{-o, a}, {-o, b}, {o, -a, -b}}
XorGate(o, a, b) == {{-o, a, b}, {-o, -a, -b}, {o, -a, b}, {o, a, -b}}
IteGate(o, c, a, b) == {{-o, -c, a}, {-o, c, b}, {o, -c, -a}, {o, c, -b}}

\* Two gates each, some of them overlapping or dependent on each other.
Circuits ==
  {AndGate(1, 2, 3) \cup AndGate(2, 1, 4), AndGate(4, 1, 2) \cup XorGate(3, 4, 1),
   XorGate(1, 2, 3) \cup AndGate(3, -2, 4), IteGate(4, 1, 2, 3), IteGate(1, 2, 3, 4) \cup AndGate(2, 3, 4),
   {{1, 2}, {1, -2}} \cup AndGate(3, 1, 2) \cup AndGate(2, -1, 4)}

FormulasAndCircuits == SmallFormulas \cup Circuits

(* Clauses with repeated, opposite and many literals, units, and the empty *)
(* clause, in files that do or do not agree with their header.             *)
Wide == {<<3, -1, 2, 0>>, <<-2, 1, 3, 4, 0>>, <<-3, -2, -4, 1, 0>>}
Short == {<<2, 1, 0>>, <<-2, 3, 0>>, <<1, 1, -3, 0>>, <<-1, -3, 0>>, <<4, -4, 2, 0>>}
Tails == {<<-3, 0>>, <<1, 0>>, <<2, -3, 0>>, <<3, 2, 3, 0>>}
File(strict, n, tumble, lits) ==
    [strict |-> strict, vars |-> 4, clauses |-> n, tumble |-> tumble, lits |-> lits]
MCFiles ==
    {File("NORMAL", 5, t, a \o b \o c \o d \o e) :
        t \in {TRUE}, a \in Wide, b \in Short, c \in Wide \cup Short, d \in Tails, e \in Tails}
    \cup {File("PEDANTIC", 5, FALSE, a \o b \o a \o d \o e) :
        a \in Wide, b \in Short, d \in Tails, e \in {<<-1, 0>>, <<2, 0>>, <<-2, 3, 0>>, <<0>>}}
    \cup {File(p, n, TRUE, <<1, 2, 0, 3>> \o a) :
        p \in {"NORMAL", "RELAXED"}, n \in {1, 2, 3}, a \in {<<0>>, <<5, 0>>, <<4>>}}

NoImport ==
    /\ dimacs = File("NORMAL", 0, TRUE, << >>)
    /\ consumed = 0 /\ exported = << >> /\ clause = NoClause
    /\ root = {} /\ trail = << >> /\ propagated = 0 /\ inconsistent = FALSE /\ active = {}
    /\ arena = << >> /\ vectors = NoVectors /\ pending = << >> /\ visit = NoVisit
    /\ binaries = << >> /\ checker = NoChecker /\ stage = "off"

(* The detector has no state of its own for this: it moves only when       *)
(* nothing is read.                                                        *)
NoGates == Init /\ formula = {} /\ script = "select_aux"

(* After an error in the file, with the empty clause, or at the end. *)
Stopped == \/ stage \in {"error", "exit"}
           \/ stage = "parsed" /\ inconsistent

KissatInit == \/ Init /\ NoImport
              \/ NoGates /\ InitKissatImport
KissatNext ==
    \/ /\ stage = "off"
       /\ Next /\ UNCHANGED importer
    \/ NextKissatImport /\ UNCHANGED vars
    \/ /\ Stopped
       /\ UNCHANGED <<vars, importer>>
KissatSpec == KissatInit /\ [][KissatNext]_<<vars, importer>>
=============================================================================
