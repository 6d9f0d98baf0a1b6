--------------------------- MODULE MCStorageWalk ---------------------------
(* Instances of Storage, Walk and KissatWalk for TLC: how CaDiCaL stores   *)
(* clauses, or local search in one of the two solvers.                     *)
EXTENDS Storage, Walk, KissatWalk

(* A formula with the clauses of at most three literals that it implies. *)
Formula(n, clauses, assumptions, frozen) ==
    LET V == 1 .. n
        both == V \cup {-v : v \in V}
        total == {T \cup {-v : v \in V \ T} : T \in SUBSET V}
        models == {A \in total : \A k \in DOMAIN clauses : ToSet(clauses[k]) \cap A # {}}
        small == {C \in SUBSET both : Cardinality(C) \in 1 .. 3 /\ \A l \in C : -l \notin C}
    IN  [vars |-> n, clauses |-> clauses, assumptions |-> assumptions, frozen |-> frozen,
         implied |-> {C \in small : \A A \in models : C \cap A # {}}]

MCFormulas ==
    {Formula(4, <<<<1, 2, 3>>, <<-1, 2, 4>>, <<-2, 3>>, <<-3, 1, 4>>, <<-3, -4, 2>>>>, <<2>>, <<0, 0, 1, 0>>),
     Formula(4, <<<<1, 2, 4>>, <<1, -2>>, <<1, 2, -4>>, <<-3, -1>>, <<3, 4, 2>>>>, << >>, <<0, 0, 0, 1>>),
     Formula(2, <<<<1, 2>>, <<-1, 2>>, <<1, -2>>, <<-1, -2>>>>, << >>, <<0, 0>>)}

MCWalks ==
    {[vars |-> 1 .. 4, units |-> {5},
      calls |-> <<[clauses |-> {{1, 2}, {-1, 3, 4}, {-2, -3}, {-4, 1, -2}, {2, -3, -4}},
                   assumptions |-> t[1]],
                  [clauses |-> {{1, 2}, {-1, 3, 4}, {-2, -3}, {-4, -1}}, assumptions |-> <<2>>],
                  [clauses |-> {{1, 2, -3}, {-1, -2}}, assumptions |-> t[2]]>>] :
        t \in {<<<< >>, <<1, 2>>>>, <<<<5, 3>>, <<1, -5>>>>}}

MCKissatWalks ==
    {[vars |-> 4, clauses |-> <<{1, 2}, {-1, 3}, {-2, -3}, {4, -1}, {-4, -3, 2}, {1, 4}>>],
     [vars |-> 4, clauses |-> <<{1, 2}, {1, -2}, {-1, 3, 4}, {-3, 4}, {-4, 2}, {-2, -4}>>],
     [vars |-> 3, clauses |-> <<{1}, {2}, {3}, {-1, -2, -3}, {1, -3}>>]}

(* Storage has no state of its own for this: it moves only when the others are off. *)
NoStorage == InitStorage /\ formula = CHOOSE f \in Formulas : TRUE

NoWalk ==
    /\ work = CHOOSE w \in Walks : TRUE
    /\ call = 0 /\ round = 0 /\ vals = {} /\ watch = << >>
    /\ least = 0 /\ leastEver = -1 /\ saved = {} /\ prev = {} /\ flips = 0 /\ walkResult = 0
    /\ at = "off"

NoKissatWalk ==
    /\ input = CHOOSE p \in KissatWalks : TRUE
    /\ phases = {} /\ values = {} /\ count = << >>
    /\ stack = << >> /\ pos = << >> /\ minimum = 0 /\ initial = 0
    /\ flipTrail = << >> /\ best = 0 /\ steps = 0 /\ phase = "off"

Init == \/ InitStorage /\ NoWalk /\ NoKissatWalk
        \/ NoStorage /\ InitWalk /\ NoKissatWalk
        \/ NoStorage /\ NoWalk /\ InitKissatWalk
Next == \/ /\ at = "off" /\ phase = "off"
           /\ NextStorage /\ UNCHANGED <<walker, kissatWalker>>
        \/ NextWalk /\ UNCHANGED <<storage, kissatWalker>>
        \/ NextKissatWalk /\ UNCHANGED <<storage, walker>>
Spec == Init /\ [][Next]_<<storage, walker, kissatWalker>>
=============================================================================
