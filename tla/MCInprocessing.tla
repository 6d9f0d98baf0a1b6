--------------------------- MODULE MCInprocessing ---------------------------
(* Instances of Inprocessing for TLC.                                      *)
EXTENDS Inprocessing

Base == [vars |-> 1 .. 4, clauses |-> {}, more |-> {}, assume |-> {}, learn |-> {},
         aux |-> {}, frozen |-> {}, opts |-> {}, calls |-> 1]

ElimOpts == {"elim", "elimsubst", "elimbackward", "instantiate", "rounds"}

(* A variable with a gate, and clauses left for backward subsumption. *)
ElimProblem ==
    [Base EXCEPT !.clauses = {{-1, 2}, {-1, 3}, {1, -2, -3}, {1, 4, 2}, {-1, -4, 3}},
                 !.opts = ElimOpts, !.more = {{-1}, {1, 4}}, !.assume = {1}]

(* Elimination of auxiliary variables only: 1 and 4, of which 4 is frozen. *)
ElimAuxProblems ==
    {[Base EXCEPT !.clauses = {{-1, 2, 4}, {1, -2, 3}, {1, -4}, {-3, 4, 2}},
                  !.opts = {"elim", "elimaux", "elimbackward"} \cup o, !.aux = {1, 4}, !.frozen = {4}, !.calls = 2,
                  !.more = {{-1}, {1, 4}}, !.assume = {1, -3}] :
        o \in {{"restoreflush", "block", "subsume"}, {"restoreall", "cover"}}}

(* Auxiliary variables only, of which there are none: elim runs, without   *)
(* eliminating a variable, around the techniques under test.               *)
BlockProblem ==
    [Base EXCEPT !.clauses = {{1, 2}, {-1, -2, 3}, {1, 3, 4}, {-3, 2, 4}, {-4, -2, 1}},
                 !.opts = {"elim", "elimaux", "block", "cover"},
                 !.more = {{-1, -3}}, !.assume = {-2}, !.learn = {{-1, 3, 4}}]

ConditionProblem ==
    [Base EXCEPT !.vars = 1 .. 3, !.clauses = {{1, 2}, {-1, 3}, {-3, -2, 1}},
                 !.opts = {"condition", "decompose"}, !.more = {{-1, -3}}, !.assume = {-2},
                 !.learn = {{2, 3}}]

VivifyProblem ==
    [Base EXCEPT !.clauses = {{1, 2, 3}, {1, 2, -3, 4}, {-4, 1}, {-1, 3, 4}, {-1, -2, -3}},
                 !.opts = {"subsume", "vivify", "reduce"}, !.more = {{-1, -3}}, !.assume = {-2},
                 !.learn = {{1, 2}, {-1, -2, 4}, {1, 2, 4}}]

ProbeProblem ==
    [Base EXCEPT !.clauses = {{1, 2}, {-2, 3}, {-3, 4, 1}, {-1, 3, 4}, {-1, -2, -3}},
                 !.opts = {"probe", "probehbr", "ternary", "decompose", "deduplicate", "transred"},
                 !.more = {{-1, -3}}, !.assume = {-2},
                 !.learn = {{1, 3}}]

(* Without elimsubst, backward subsumption with {-4, 5} visits the list of *)
(* -4, which has four entries, the garbage clause {1, -4, 7, 8} included,  *)
(* against five of the list of 5.  It meets {3, -4, 6}, satisfied by the   *)
(* unit 3, before {-4, -6}.                                                *)
StickyProblems ==
    {[Base EXCEPT !.vars = 1 .. 9,
                  !.clauses = {{1, 2, 3}, {-1, 9, 3}, {2, -9}, {1, -2, 7, 8}, {-1, -2, 7, 8},
                               {7, -8}, {3, -4, 6}, {-4, -6}, {1, -4, 7, 8}, {-1, 5},
                               {5, 6}, {5, 7, 6}},
                  !.more = {{-7}}, !.aux = {1},
                  !.opts = {"elim", "elimaux", "elimbackward"}]}

MCProblems ==
    {ElimProblem, BlockProblem, ConditionProblem, VivifyProblem, ProbeProblem} \cup ElimAuxProblems

=============================================================================
