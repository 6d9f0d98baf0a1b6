------------------------------- MODULE MCCdcl -------------------------------
(* Instances of Presearch, and so of Cdcl, for TLC.                        *)
EXTENDS Presearch

(* Satisfiable, with chains of implications and conflicts at several       *)
(* decision levels.                                                        *)
Chain == {{-1, 2}, {-2, -3, 4}, {-2, -3, -4}, {1, 3, 4}, {-5, -3}}

(* Unsatisfiable, without unit clauses.                                    *)
Contradiction == {{1, 2, 3}, {1, -2}, {2, -3}, {3, -1}, {-1, -2, -3}, {4, 5}}

(* Satisfiable; a conflict of 1 and 2 skips the level of 5.  Chronological *)
(* backtracking keeps it, and the literals that -2 then implies out of     *)
(* order meet literals of the level of 5.                                  *)
Skip == {{-1, -2, 3}, {-1, -2, -3}, {2, 3}, {2, -5, 4}, {-3, -4}}

Base == [vars |-> 1 .. 5, clauses |-> {}, units |-> << >>, aux |-> {}, assumptions |-> << >>,
         constraint |-> << >>, opts |-> {"chrono", "minimize"}, shrink |-> 0, restarts |-> 1]

FreeProblems ==
    {[Base EXCEPT !.clauses = Chain],
     [Base EXCEPT !.clauses = Contradiction, !.opts = {"minimize", "walk"}],
     [Base EXCEPT !.clauses = Skip, !.shrink = 3, !.restarts = 0]}

(* After the assumptions 6 and 1 the learned clause has two literals that  *)
(* 1 implies, one of them with the help of 6, which the second formula     *)
(* has in the conflict.                                                    *)
ShrinkProblems ==
    {[Base EXCEPT !.vars = 1 .. 6, !.assumptions = <<6, 1>>, !.restarts = 0, !.shrink = s,
                  !.clauses = {{-1, 2}, {-1, -6, 3}, {-2, -3, -4, 5}, {-2, -3, -4, -5} \cup d},
                  !.opts = @ \ o] :
        s \in {0, 1, 3}, d \in {{}, {-6}}, o \in {{}, {"minimize"}}}

(* The Tseitin clauses of g = a AND b.                                     *)
And(g, a, b) == {{-g, a}, {-g, b}, {g, -a, -b}}

(* 4 = 1 AND 2 and 5 = -3 AND 6 are gates.  The first formula, which is    *)
(* satisfiable, has conflicts between the outputs and inputs of later      *)
(* levels, the second one is unsatisfiable, the third one has a conflict   *)
(* on the first level.                                                     *)
Gates == And(4, 1, 2) \cup And(5, -3, 6)
GateProblems ==
    {[Base EXCEPT !.vars = 1 .. 6, !.clauses = Gates \cup c, !.aux = {4, 5},
                  !.opts = {"uipaux", "chrono"}, !.restarts = 0] :
        c \in {{{-4, -3, 6}, {-4, -3, -6}, {4, 5, -2}, {-5, -1, 3}},
              {{4, 5}, {-4, -3, 6}, {-4, 3, -6}, {-4, 3, 6}, {-5, 1}, {-4, -5}, {-4, -3, -6},
               {-5, -1, 2}},
              {{2, 1}, {2, -1}, {-4, -5}}}}

(* Assumptions 4 and 6 and the constraint that -3 or 1 holds.  5 is only   *)
(* half defined, so that it may stay unassigned.  The formulas: free       *)
(* search, a refuted assumption, an implied one, a failing constraint.     *)
Assumed ==
    {[Base EXCEPT !.vars = 1 .. 7, !.clauses = c, !.aux = {5}, !.assumptions = <<4, 6>>,
                  !.constraint = <<-3, 1>>] :
        c \in {{{-1, -2, 3}, {-1, -2, -3}, {2, 3, -4}, {2, -7, 3}, {-3, -7, 2}, {-5, 1}, {-5, 2}},
              {{-6, -1, 2}, {-6, -1, -2}, {1, -6, 3, 2}, {1, -6, -3, 7}, {-5, 3}, {1, 2, -7},
               {1, -2, -7}, {7, 1, 2}},
              {{-4, 6}, {3, -1, 2, 7}, {-2, -3, 5}, {-2, -3, -5}, {-7, 2}},
              {{-4, 3}, {-4, -1, 2, 7}, {-6, -1, -2}, {-5, 2}, {-7, -1}}}}

(* Walk finds no phases when two assumptions falsify a clause, are          *)
(* opposite, or one is false on the root level; it may find some for the   *)
(* third list.  Other conflicts are met before.                            *)
FailingProblems ==
    {[Base EXCEPT !.opts = {"chrono", "minimize", "walk"}, !.restarts = 0,
                  !.clauses = {{-1, 4}, {-2, -3}, {-4, -2, 5}, {-4, -2, -5, 3}, {3, -5, 1}},
                  !.assumptions = a, !.units = u] :
        a \in {<<1, 2, 3>>, <<1, 2, -1>>, <<1, 3>>}, u \in {<< >>, <<-2>>}}

(* The first formula has a conflict on the root level with the unit 2, and *)
(* the others are solved by the strategies 1, 2, 6, 7 and 8 and by none.   *)
LuckyProblems ==
    {[Base EXCEPT !.vars = 1 .. 4, !.opts = {"chrono", "lucky"}, !.restarts = 0,
                  !.clauses = c, !.units = u] :
        u \in {<< >>, <<2>>},
        c \in {{{-2, 1, 3}, {-2, -1}, {1, -3, 4}, {-2, -4}},
              {{-3, 1, 2}, {-2, 3, 4}}, {{-2, 1, 3}, {2, 3}},
              {{-2, 3}, {-1, 3, 4}, {-3, 1, 2}, {1, 2, 3}, {-3, -2}},
              {{-4, 2}, {-4, -2}, {1, 2, 4}, {-2, 3, 4}, {-3, -2, -1}, {-1, 3, 4}, {-4, -3, 1}},
              {{-2, 1, 3}, {-3, 1, 2}, {1, 2, 3}, {-3, -2, -1}, {-2, -1, 3}, {-3, -1, 2},
               {-4, -2, 1}, {2, 4}},
              {{-4, 1}, {-3, 4}, {3, 4}, {-2, -1}, {-4, 2}}}}

MCProblems ==
    FreeProblems \cup ShrinkProblems \cup GateProblems \cup Assumed \cup FailingProblems \cup LuckyProblems

(* An auxiliary variable that is assumed.                                  *)
AssumedGate ==
    {[Base EXCEPT !.vars = 1 .. 3, !.clauses = {{-1, 2, 3}, {-1, 2, -3}, {3, 1}}, !.aux = {1},
                  !.assumptions = <<-2, 1>>, !.opts = {"uipaux", "chrono"}]}
=============================================================================
