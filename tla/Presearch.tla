----------------------------- MODULE Presearch -----------------------------
(***************************************************************************)
(* Internal::solve: what is tried before the CDCL loop runs, on the same   *)
(* trail.  Local search (Walk has the details) may find phases that        *)
(* satisfy the formula, which are then decided, or assumptions that fail,  *)
(* which are then decided until one is false.  Lucky phases are eight ways *)
(* to assign all variables, given up at the first conflict.  Preprocessing *)
(* is described in Inprocessing.                                           *)
(***************************************************************************)
EXTENDS Cdcl

VARIABLES
    task,   \* "solved": already_solved, "local": local_search, "saved":
            \* try_to_satisfy_formula_by_saved_phases, "failed":
            \* produce_failed_assumptions, "lucky": lucky_phases, "search":
            \* cdcl_loop_with_inprocessing
    lucky   \* the number of the lucky strategy, 0 before the first

solving == <<task, lucky>>
allvars == <<vars, solving>>

InitSolve == Init /\ task = "solved" /\ lucky = 0

Goto(t) == task' = t /\ UNCHANGED lucky

(* unlucky, and the end of try_to_satisfy_formula_by_saved_phases: back to *)
(* the root, the conflict is forgotten.                                    *)
GiveUp ==
    /\ trail' = Kept(0)
    /\ BacktrackControl(0)
    /\ conflict' = None
    /\ pc' = "loop"
    /\ UNCHANGED <<problem, learned, lev, reason, todo, analysis, unsat,
                   result, restarts>>

-----------------------------------------------------------------------------
(* already_solved: propagate on the root level *)
AlreadySolved ==
    /\ task = "solved"
    /\ \/ PropagateSteps /\ UNCHANGED solving
       \/ /\ pc = "analyze"
          /\ unsat' = TRUE
          /\ pc' = "loop"
          /\ Goto("search")
          /\ UNCHANGED <<problem, learned, assignment, todo, conflict, analysis,
                         result, restarts>>
       \/ /\ pc = "loop"
          /\ Goto("local")
          /\ UNCHANGED vars

(* What walk_round finds without flipping: an assumption is false on the   *)
(* root level or by another one, or a clause is falsified by the root      *)
(* level and the assumptions.                                              *)
AssumedTrue == RootLiterals \cup {Assumptions[k] : k \in 1 .. Len(Assumptions)}
WalkFails == \/ \E l \in AssumedTrue : -l \in AssumedTrue
             \/ \E c \in formula : \A l \in c : -l \in AssumedTrue

(* local_search.  The saved phases are a choice: a round saves the phases  *)
(* only below the least number of broken clauses of all rounds so far, so  *)
(* that a round that finds a model may leave older phases.                 *)
LocalSearch ==
    /\ task = "local"
    /\ IF "walk" \in problem.opts /\ Constraint = << >>
       THEN \/ WalkFails /\ Goto("failed")
            \/ ~WalkFails /\ Goto("saved")
            \/ ~WalkFails /\ Goto("lucky")
       ELSE Goto("lucky")
    /\ UNCHANGED vars

TrySavedPhases ==
    /\ task = "saved"
    /\ \/ (PropagateSteps \/ AnswerSat \/ DecideSteps) /\ UNCHANGED solving
       \/ pc = "analyze" /\ GiveUp /\ Goto("lucky")

(* produce_failed_assumptions returns 20 as walk_round did. *)
ProduceFailed ==
    /\ task = "failed"
    /\ UNCHANGED solving
    /\ PropagateSteps \/ AnalyzeSteps \/ AnswerUnsat \/ (~unsat /\ DecideSteps)

-----------------------------------------------------------------------------
(* lucky_phases *)

Positive(l) == l > 0

(* Strategy 1 sets all variables to false, 2 all to true, 3 and 4 to true  *)
(* and false from the first variable on, 5 and 6 to false and true from    *)
(* the last variable on, 7 the positive literals that the clauses need,    *)
(* then the rest to false, and 8 with the opposite signs.                  *)
FirstPositive == lucky \in {2, 3, 6, 7}
RestPositive == lucky \in {2, 3, 6, 8}
Backward == lucky \in {5, 6}
Horn == lucky \in {7, 8}

Unsatisfied == {c \in formula : \A l \in c : ~IsTrue(l)}
Wanted(c) == {l \in c : IsUnassigned(l) /\ Positive(l) = FirstPositive}

(* The clause has no unassigned literal of the wanted sign. *)
UnluckyClause(c) == Wanted(c) = {}

Unlucky ==
    /\ GiveUp
    /\ IF lucky = 8 THEN task' = "search" /\ lucky' = 0
       ELSE lucky' = lucky + 1 /\ UNCHANGED task

FreeVars == {v \in Vars : IsUnassigned(v)}

NextLuckyVariable ==
    CHOOSE v \in FreeVars : \A w \in FreeVars : IF Backward THEN w <= v ELSE v <= w

LuckyDecide ==
    \/ /\ Horn /\ Unsatisfied # {}
       /\ \E c \in Unsatisfied :
             \/ UnluckyClause(c) /\ Unlucky
             \/ ~UnluckyClause(c) /\ UNCHANGED solving
                /\ \E l \in Wanted(c) : AssumeDecision(l)
    \/ /\ Horn => Unsatisfied = {}
       /\ UNCHANGED solving
       /\ IF FreeVars = {} THEN Answer(10)
          ELSE AssumeDecision(IF RestPositive THEN NextLuckyVariable ELSE -NextLuckyVariable)

(* The first two strategies look at all clauses before they decide. *)
LuckyCheckFails == lucky \in {1, 2} /\ level = 0 /\ \E c \in Unsatisfied : UnluckyClause(c)

LuckyPhases ==
    /\ task = "lucky"
    /\ \/ PropagateSteps /\ UNCHANGED solving
       \/ pc = "analyze" /\ Unlucky
       \/ /\ pc = "loop" /\ lucky = 0
          /\ UNCHANGED vars
          /\ IF "lucky" \in problem.opts /\ Assumptions = << >> /\ Constraint = << >>
             THEN lucky' = 1 /\ UNCHANGED task
             ELSE Goto("search")
       \/ pc = "loop" /\ lucky > 0 /\ LuckyCheckFails /\ Unlucky
       \/ pc = "loop" /\ lucky > 0 /\ ~LuckyCheckFails /\ LuckyDecide

-----------------------------------------------------------------------------
Search == task = "search" /\ Next /\ UNCHANGED solving

Finished == pc = "done" /\ UNCHANGED allvars

NextSolve ==
    \/ AlreadySolved \/ LocalSearch \/ TrySavedPhases \/ ProduceFailed \/ LuckyPhases
    \/ Search \/ Finished

SolveSpec == InitSolve /\ [][NextSolve]_allvars /\ WF_allvars(NextSolve)

-----------------------------------------------------------------------------
(* produce_failed_assumptions (internal.cpp:511) loops until decide fails:  *)
(* what walk_round takes for failing assumptions does fail, after no more  *)
(* decisions than the assumptions.                                         *)
FailedAssumptionsFail == task = "failed" => level <= Len(Assumptions)

(* The answers of the main loop and of the searches before it are right.   *)
AnswerRight == AnswerCorrect /\ FailedAssumptionsFail
=============================================================================
