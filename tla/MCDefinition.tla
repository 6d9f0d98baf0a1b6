---------------------------- MODULE MCDefinition ----------------------------
(* Environments over one to five variables, all clauses of one polarity    *)
(* or the binary ones of one and the others of the other.                   *)
EXTENDS Definition

Unsatisfiable == {
    <<<<2, 3>>, <<2, -3>>, <<-2, 4>>, <<-2, -4>>, <<3, 4>>>>,
    <<<<2>>, <<-2, 3>>, <<3>>, <<-4, -2>>, <<-3, 4>>>>,
    <<<<3, 2, 4>>, <<2, -3>>, <<-2, 3>>, <<2, -4>>, <<-2, -3>>>>}
Satisfiable == {
    <<<<2, 3>>, <<-2, 4>>, <<-3, -4>>>>,
    <<<<2>>, <<-2, 3>>, <<3>>, <<4, -3>>>>,
    <<<<2, 3, 4, 5, 6>>, <<-6, -4, 3>>, <<-6, -4, -3>>, <<6, -4, -2>>, <<2, -5>>>>,
    <<<<-2, -3, -4>>, <<-4, 3>>, <<-3, 2>>, <<4, -2, 3>>>>}
Splits(F) ==
    LET binary(c) == Len(c) = 2
        other(c) == Len(c) # 2
    IN  {[pos |-> F, neg |-> <<>>, cores |-> 2, proof |-> TRUE],
         [pos |-> SelectSeq(F, binary), neg |-> SelectSeq(F, other), cores |-> 2, proof |-> FALSE]}

(* An equivalence; exclusive-ors of two and three inputs, the second with  *)
(* enough conflicts for restarts; and an environment in which a learned    *)
(* klause can watch a literal below its highest level.                     *)
Equivalence == [pos |-> <<<<2>>>>, neg |-> <<<<-2>>>>, cores |-> 2, proof |-> FALSE]
Xor == [pos |-> <<<<-2, 3>>, <<2, -3>>>>, neg |-> <<<<2, 3>>, <<-2, -3>>>>,
        cores |-> 3, proof |-> FALSE]
Xor3 == [pos |-> <<<<-2, 3, 4>>, <<2, -3, 4>>, <<2, 3, -4>>, <<-2, -3, -4>>>>,
         neg |-> <<<<2, 3, 4>>, <<2, -3, -4>>, <<-2, 3, -4>>, <<-2, -3, 4>>>>,
         cores |-> 2, proof |-> FALSE]
Deep == [pos |-> <<<<-2, -3, -4, 5>>, <<-2, -3, -4, -5>>, <<2, 3>>, <<2, -3>>>>,
         neg |-> <<<<-2, 3, 5>>, <<-2, 3, -5>>, <<-2, 4, -3>>>>,
         cores |-> 2, proof |-> FALSE]

MCInputs == UNION {Splits(F) : F \in Unsatisfiable \cup Satisfiable} \cup {Equivalence, Xor, Xor3, Deep}
=============================================================================
