--------------------------- MODULE MCGateAnalyzer ---------------------------
EXTENDS GateAnalyzer

CONSTANT MaxClauses  \* the largest number of clauses of the enumerated formulas

Pos(v) == 2 * v
Not(v) == 2 * v + 1

\* All nonempty clauses over the variables 1 .. n that are no tautologies.
AllClauses(n) == {C \in SUBSET (2 .. 2 * n + 1) \ {{}} : \A v \in 1 .. n : ~({Pos(v), Not(v)} \subseteq C)}

\* The formulas with at most MaxClauses of them, in some order, none repeated.
SmallFormulas ==
  LET upto[k \in Nat] ==
        IF k = 0 THEN {{}}
        ELSE upto[k - 1] \cup {F \cup {C} : F \in upto[k - 1], C \in AllClauses(3)}
  IN {SetToSeq(F) : F \in upto[MaxClauses]}

\* Gate encodings, with output o.
AndGate(o, a, b) == <<{Neg(o), a}, {Neg(o), b}, {o, Neg(a), Neg(b)}>>
OrGate(o, a, b) == <<{Neg(o), a, b}, {o, Neg(a)}, {o, Neg(b)}>>
XorGate(o, a, b) == <<{Neg(o), a, b}, {Neg(o), Neg(a), Neg(b)}, {o, Neg(a), b}, {o, a, Neg(b)}>>
IteGate(o, c, a, b) == <<{Neg(o), Neg(c), a}, {Neg(o), c, b}, {o, Neg(c), Neg(a)}, {o, c, Neg(b)}>>

\* Circuits of two or three gates under a root clause.
Circuits ==
  {<<{Pos(6)}>> \o XorGate(Pos(6), Pos(5), a) \o IteGate(Pos(5), b, Pos(2), Pos(3)) :
     a \in {Pos(4), Not(4)}, b \in {Pos(1), Pos(4), Not(1)}}
  \cup {<<{Pos(6), Pos(5)}>> \o IteGate(Pos(6), a, Pos(5), Pos(4)) \o AndGate(Pos(5), Pos(1), b) :
     a \in {Pos(2), Not(2)}, b \in {Pos(3), Not(4)}}
  \cup {<<{Pos(1)}>> \o AndGate(Pos(1), Pos(2), b) \o OrGate(Pos(2), Pos(4), Pos(5)) : b \in {Pos(3), Not(4)}}
  \cup {<<{Pos(6)}>> \o XorGate(Pos(6), Pos(5), Pos(1)) \o AndGate(Pos(5), a, Pos(2)) \o OrGate(Pos(4), Pos(1), Pos(3)) :
     a \in {Pos(4), Not(4)}}

\* Clauses that are there twice: the tool takes the first four for an equivalence,
\* although they do not constrain the output when 2 is true.
Repeated ==
  {<<{Pos(3)}>> \o F \o F : F \in {<<{Not(3), Pos(1), Pos(2)}, {Pos(3), Not(1), Pos(2)}>>,
                                  AndGate(Pos(3), Pos(1), Pos(2))}}

Formulas == SmallFormulas \cup Circuits \cup Repeated
=============================================================================
