----------------------------- MODULE SatService -----------------------------
(***************************************************************************)
(* What incremental solving promises to its user, without a word about how *)
(* it is done: clauses are added, literals are assumed for the next solve  *)
(* only, and solve answers with a model of all the clauses added so far    *)
(* and of the assumptions, or says that there is none.                     *)
(***************************************************************************)
EXTENDS ClauseDb

CONSTANTS
    Clauses,    \* the clauses that may be added
    Literals    \* the literals that may be assumed

VARIABLES
    original,   \* the clauses added so far
    assumed,    \* the assumptions of this or of the next solve
    state,      \* "adding", "solving", "sat" or "unsat"
    model       \* the model as a set of literals, {} unless state is "sat"

service == <<original, assumed, state, model>>

Query(S, L) == S \cup {{l} : l \in L}
Unsatisfiable(S) == Models(UNION {VarsOf(c) : c \in S}, S) = {}

Init ==
    /\ original \in SUBSET Clauses
    /\ assumed = {}
    /\ state = "adding"
    /\ model = {}

(* The assumptions, and the answer, are gone with the next call. *)
StillAssumed == IF state = "adding" THEN assumed ELSE {}

Add(c) ==
    /\ state # "solving"
    /\ original' = original \cup {c}
    /\ assumed' = StillAssumed
    /\ state' = "adding"
    /\ model' = {}

Assume(l) ==
    /\ state # "solving"
    /\ assumed' = StillAssumed \cup {l}
    /\ state' = "adding"
    /\ model' = {}
    /\ UNCHANGED original

Solve ==
    /\ state # "solving"
    /\ assumed' = StillAssumed
    /\ state' = "solving"
    /\ model' = {}
    /\ UNCHANGED original

AnswerSat ==
    /\ state = "solving"
    /\ state' = "sat"
    /\ \A l \in model' : -l \notin model'
    /\ \A c \in Query(original, assumed) : Sat(model', c)
    /\ UNCHANGED <<original, assumed>>

AnswerUnsat ==
    /\ state = "solving"
    /\ state' = "unsat"
    /\ Unsatisfiable(Query(original, assumed))
    /\ UNCHANGED <<original, assumed, model>>

Next ==
    \/ \E c \in Clauses : Add(c)
    \/ \E l \in Literals : Assume(l)
    \/ Solve \/ AnswerSat \/ AnswerUnsat

Spec == Init /\ [][Next]_service
=============================================================================
