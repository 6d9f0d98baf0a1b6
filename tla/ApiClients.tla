---------------------------- MODULE ApiClients ----------------------------
(***************************************************************************)
(* The programs that drive the library:                                    *)
(*   "tester"   the traces that mobical generates and executes             *)
(*   "app"      the stand-alone solver: it reads the auxiliary variables   *)
(*              and a DIMACS file, which may list cubes, and prints a      *)
(*              verdict                                                    *)
(*   "user"     a program that interleaves calls as it likes, with the     *)
(*              care described at User                                     *)
(* Next to each of them another thread may call terminate.                 *)
(*                                                                         *)
(* The variable given is what the client knows it gave for the next call   *)
(* of solve, and last what it gave for the call that was started last.     *)
(***************************************************************************)
EXTENDS SolverApi

CONSTANTS
    Clients,        \* the clients to run
    AddLits, AssumeLits, ConstrainLits, FreezeVars, LimitCalls,
                    \* arguments of calls; a limit call is <<name, number>>
    MaxClauses,     \* bound on the clauses that are added
    MaxPhases,      \* bound on the phases of a trace
    AuxFiles,       \* sequences of <<name, well formed>>
    CnfFiles        \* records [inc, vars, clauses, lits, cubes]: whether the header is
                    \* 'p inccnf', what a header 'p cnf' says, literals and zeros, and cubes

ASSUME ClientAssumption ==
    /\ Clients \subseteq {"tester", "app", "user"}
    /\ MaxClauses \in Nat /\ MaxPhases \in Nat
    /\ AddLits \cup AssumeLits \cup ConstrainLits \subseteq LitsOver(Vars) /\ FreezeVars \subseteq Vars
    /\ \A c \in LimitCalls : c[1] \in DOMAIN NoLimits /\ c[2] \in Int
    /\ \A f \in AuxFiles : f \in Seq({f[i] : i \in DOMAIN f})
    /\ \A f \in CnfFiles : f.lits \in Seq(LitsOver(Vars) \cup {0}) /\ f.cubes \in Seq(Seq(LitsOver(Vars)))

VARIABLES
    client,
    turn,       \* what the client does next
    phases,     \* of the tester: phases begun
    given,      \* [assumptions, constraint, limited]
    last,
    called,     \* terminate was called since solve last cleared the flag
    app         \* [aux, file, cnf, pos, limit, cube, res, inconclusive, witness] of the stand-alone solver

clientVars == <<client, turn, phases, app>>
ghosts == <<given, last, called>>
vars == <<core, job, async, clientVars, ghosts>>

Nothing == [assumptions |-> {}, constraint |-> {}, open |-> {}, limited |-> FALSE]

ClientInit ==
    /\ Init
    /\ client \in Clients
    /\ turn = CASE client = "tester" -> "add" [] client = "app" -> "limits" [] OTHER -> "user"
    /\ phases = 1
    /\ given = Nothing /\ last = Nothing /\ called = FALSE
    /\ app \in IF client = "app"
               THEN [aux : {{}}, file : AuxFiles, cnf : CnfFiles, pos : {1}, limit : {{}}, cube : {1},
                     res : {0}, inconclusive : {FALSE}, witness : {{}}]
               ELSE {[aux |-> {}, file |-> <<>>, cnf |-> <<>>,
                      pos |-> 1, limit |-> {}, cube |-> 1, res |-> 0, inconclusive |-> FALSE,
                      witness |-> {}]}

-----------------------------------------------------------------------------
(* Calls, with what the client remembers of them.                          *)
Quietly(call) == call /\ UNCHANGED ghosts

CallAssume(l) ==
    /\ Assume(l)
    /\ given' = [given EXCEPT !.assumptions = @ \cup {l}]
    /\ UNCHANGED <<last, called>>

CallConstrain(l) ==
    /\ ConstrainLit(l)
    /\ given' = [given EXCEPT !.open = @ \cup {l}]
    /\ UNCHANGED <<last, called>>

CallConstrainZero ==
    /\ ConstrainZero
    /\ given' = [given EXCEPT !.constraint = {given.open}, !.open = {}]
    /\ UNCHANGED <<last, called>>

CallLimit(name, n) ==
    /\ SetLimit(name, n)
    /\ given' = [given EXCEPT !.limited = TRUE]
    /\ UNCHANGED <<last, called>>

CallSolve(pre, rounds) ==
    /\ StartSolve(pre, rounds)
    /\ last' = given
    /\ UNCHANGED <<given, called>>

CallLookahead ==
    /\ Lookahead
    /\ called' = FALSE
    /\ UNCHANGED <<given, last>>

CallCubes(depth) ==
    /\ GenerateCubes(depth)
    /\ called' = (called /\ forced')
    /\ given' = [given EXCEPT !.limited = FALSE]
    /\ UNCHANGED last

-----------------------------------------------------------------------------
(* Trace::generate: in each phase clauses, a constraint, assumptions, melt *)
(* and freeze calls, limits, one processing call, and queries, which       *)
(* ValCall and FailedCall only pass on in the right state.                 *)
Turn(s) == turn' = s
Goes(from, to) == turn = from /\ Turn(to)
KeepsTurn(s) == turn = s /\ UNCHANGED turn

(* The tester keeps at least one clause for each phase that is left.       *)
MayAdd == Cardinality(formula) < MaxClauses + phases - MaxPhases
TesterAdd ==
    \/ /\ KeepsTurn("add")
       /\ MayAdd
       /\ \E l \in AddLits : VarsOf({l}) \cap VarsOf(original) = {} /\ Quietly(AddLit(l))
    \/ /\ turn = "add" /\ turn' \in {"add", "constrain"}
       /\ MayAdd
       /\ Quietly(AddZero)
TesterConstrain ==
    \/ /\ KeepsTurn("constrain")
       /\ \E l \in ConstrainLits : l \notin given.open /\ CallConstrain(l)
    \/ Goes("constrain", "assume") /\ CallConstrainZero
TesterAssume ==
    /\ KeepsTurn("assume")
    /\ \E l \in AssumeLits : l \notin given.assumptions /\ CallAssume(l)
TesterMelt == KeepsTurn("melt") /\ \E v \in FreezeVars : Quietly(MeltVar(v))
TesterFreeze == Goes("freeze", "limit") /\ \E v \in FreezeVars : Quietly(FreezeVar(v))
TesterLimit ==
    /\ Goes("limit", "process")
    /\ \E c \in LimitCalls : CallLimit(c[1], c[2])
TesterProcess ==
    \/ Goes("process", "query") /\ CallSolve(FALSE, 0)
    \/ Goes("process", "query") /\ \E n \in 0 .. 1 : CallSolve(TRUE, n)
    \/ Goes("process", "query") /\ CallLookahead
    \/ Goes("process", "query") /\ CallCubes(0)
TesterQuery == KeepsTurn("query") /\ Quietly(QueryFailed)

(* Most of the calls are made with some probability. *)
TesterSkips ==
    /\ \/ original = {} /\ Goes("add", "constrain")
       \/ Goes("assume", "melt") \/ Goes("melt", "freeze") \/ Goes("freeze", "limit")
       \/ Goes("limit", "process")
       \/ state # "SOLVING" /\ phases < MaxPhases /\ Goes("query", "add")
       \/ state # "SOLVING" /\ Goes("query", "done")
    /\ phases' = IF turn = "query" /\ turn' = "add" THEN phases + 1 ELSE phases
    /\ UNCHANGED <<core, job, async, ghosts, client, app>>

Tester ==
    /\ client = "tester"
    /\ \/ /\ \/ TesterAdd \/ TesterConstrain \/ TesterAssume \/ TesterMelt \/ TesterFreeze
             \/ TesterLimit \/ TesterProcess \/ TesterQuery
          /\ UNCHANGED <<client, phases, app>>
       \/ TesterSkips

-----------------------------------------------------------------------------
(* App::main.  An error ends the program with what was read left behind.   *)
AppStep(from) == client = "app" /\ turn = from /\ UNCHANGED <<client, phases>>

(* The limits of the command line; with -t a terminator is connected. *)
AppLimits ==
    /\ AppStep("limits")
    /\ \/ terminator = "none" /\ Quietly(ConnectTerminator) /\ UNCHANGED <<turn, app>>
       \/ \E c \in LimitCalls \ app.limit :
              CallLimit(c[1], c[2]) /\ app' = [app EXCEPT !.limit = @ \cup {c}] /\ UNCHANGED turn
       \/ Turn("open_aux") /\ UNCHANGED <<core, job, async, ghosts, app>>

(* Solver::read_aux and Solver::read_dimacs, if there is such a file. *)
AppOpen(from, to) ==
    /\ AppStep(from)
    /\ state = "CONFIGURING"
    /\ turn' \in {to, "error"}
    /\ UNCHANGED <<core, job, async, ghosts, app>>
AppOpens == AppOpen("open_aux", "read_aux") \/ AppOpen("open_dimacs", "read_header")

(* Mutated form: main goes on after an error in the auxiliary file. *)
ReadAuxGoesOn ==
    /\ AppStep("read_aux")
    /\ IF app.pos > Len(app.file) \/ (app.pos > 1 /\ ~app.file[app.pos - 1][2])
       THEN Turn("open_dimacs") /\ app' = [app EXCEPT !.pos = 1]
       ELSE /\ app' = [app EXCEPT !.aux = @ \cup {app.file[app.pos][1]}, !.pos = @ + 1]
            /\ Turn("read_aux")
    /\ UNCHANGED <<core, job, async, ghosts>>

(* Parser::parse_aux stores a name before it looks at its gate type. *)
ReadAux ==
    /\ AppStep("read_aux")
    /\ IF app.pos > Len(app.file)
       THEN Turn("open_dimacs") /\ app' = [app EXCEPT !.pos = 1]
       ELSE /\ app' = [app EXCEPT !.aux = @ \cup {app.file[app.pos][1]}, !.pos = @ + 1]
            /\ Turn(IF app.file[app.pos][2] THEN "read_aux" ELSE "error")
    /\ UNCHANGED <<core, job, async, ghosts>>

(* Parser::parse_dimacs: the number of variables in a header 'p cnf' is    *)
(* reserved, and bounds the literals; 'p inccnf' bounds nothing.           *)
ReadHeader ==
    /\ AppStep("read_header") /\ Turn("read_dimacs")
    /\ IF app.cnf.inc THEN UNCHANGED <<core, job, async, ghosts>> ELSE Quietly(Reserve(app.cnf.vars))
    /\ UNCHANGED app

(* It adds what it reads, the zero of a clause too many as well.           *)
ParsedBefore(n) == Cardinality({i \in 1 .. n - 1 : app.cnf.lits[i] = 0})
ReadLit ==
    LET lit == app.cnf.lits[app.pos]
    IN  /\ AppStep("read_dimacs")
        /\ app.pos <= Len(app.cnf.lits)
        /\ \/ /\ ~app.cnf.inc /\ Var(lit) > app.cnf.vars
              /\ Turn("error")
              /\ UNCHANGED <<core, job, async, ghosts, app>>
           \/ /\ app.cnf.inc \/ Var(lit) <= app.cnf.vars
              /\ Quietly(IF lit = 0 THEN AddZero ELSE AddLit(lit))
              /\ app' = [app EXCEPT !.pos = @ + 1]
              /\ Turn(IF ~app.cnf.inc /\ lit = 0 /\ ParsedBefore(app.pos) >= app.cnf.clauses
                      THEN "error" ELSE "read_dimacs")

(* The cubes come last.  Without any the file is solved as one formula.    *)
ReadEnd ==
    LET n == Len(app.cnf.lits)
    IN  /\ AppStep("read_dimacs")
        /\ app.pos > n
        /\ Turn(IF \/ n > 0 /\ app.cnf.lits[n] # 0
                   \/ ~app.cnf.inc /\ ParsedBefore(n + 1) < app.cnf.clauses THEN "error"
                ELSE IF app.cnf.cubes = <<>> THEN "solve" ELSE "cube")
        /\ UNCHANGED <<core, job, async, ghosts, app>>
ReadDimacs == ReadLit \/ ReadEnd

(* Without cubes there is one call; a cube is assumed literal by literal,  *)
(* the last literal first.                                                 *)
AppSolve ==
    /\ AppStep("solve")
    /\ CallSolve(FALSE, 0)
    /\ Turn("solved")
    /\ UNCHANGED app

Cube == app.cnf.cubes[app.cube]
AppAssume ==
    LET todo == {i \in 1 .. Len(Cube) : Cube[i] \notin given.assumptions}
    IN  /\ AppStep("cube")
        /\ IF todo # {} THEN CallAssume(Cube[Max(todo)]) /\ UNCHANGED turn
           ELSE Turn("cube_limit") /\ UNCHANGED <<core, job, async, ghosts>>
        /\ UNCHANGED app

(* The limit on conflicts is given for each cube anew (one on decisions,   *)
(* which SolverApi does not tell apart from it, too).                      *)
AppCubeLimit ==
    /\ AppStep("cube_limit") /\ Turn("solve")
    /\ IF app.cube > 1 /\ \E c \in app.limit : c[1] = "conflicts"
       THEN \E c \in app.limit : c[1] = "conflicts" /\ CallLimit(c[1], c[2])
       ELSE UNCHANGED <<core, job, async, ghosts>>
    /\ UNCHANGED app

(* After a cube: stop when it is satisfied or time is up, and add a clause *)
(* over the failed assumptions when it is not satisfiable.                 *)
Incremental == app.cnf.cubes # <<>>
LastCube == app.cube >= Len(app.cnf.cubes)
NextCube == IF LastCube THEN "verdict" ELSE "cube"
AppSolved ==
    /\ AppStep("solved")
    /\ state # "SOLVING"
    /\ \/ /\ ~Incremental \/ result = 10
          /\ Turn("verdict") /\ app' = [app EXCEPT !.res = result]
          /\ UNCHANGED <<core, job, async, ghosts>>
       \/ /\ Incremental /\ result = 20
          /\ Turn("add_failed") /\ app' = [app EXCEPT !.res = 20]
          /\ Quietly(QueryFailed)
       \/ /\ Incremental /\ result = 0
          /\ Turn(IF terminator = "up" THEN "verdict" ELSE NextCube)
          /\ app' = [app EXCEPT !.res = 0, !.inconclusive = TRUE, !.cube = @ + 1]
          /\ UNCHANGED <<core, job, async, ghosts>>

(* The failed assumptions are collected before the first add resets them.  *)
AppAddFailed ==
    /\ AppStep("add_failed")
    /\ state \in VALID
    /\ Become("UNKNOWN", KeptAssumptions, KeptConstraint, KeptCounters)
    /\ formula' = formula \cup {Neg(failed)}
    /\ root' = [root EXCEPT !.unsat = @ \/ failed = {}]
    /\ trail' = NoTrail
    /\ Turn(NextCube)
    /\ app' = [app EXCEPT !.cube = @ + 1]
    /\ UNCHANGED <<adding, original, known, limits, job, async, ghosts>>

(* print_witness, which asks val for all variables. *)
Witness == IF app.res = 10 THEN trail.model ELSE {}

AppVerdict ==
    /\ AppStep("verdict")
    /\ app' = [app EXCEPT !.res = IF @ = 20 /\ app.inconclusive THEN 0 ELSE @,
                          !.witness = Witness]
    /\ Turn("done")
    /\ UNCHANGED <<core, job, async, ghosts>>

App ==
    \/ AppLimits \/ AppOpens \/ ReadAux \/ ReadHeader \/ ReadDimacs \/ AppSolve \/ AppAssume \/ AppCubeLimit
    \/ AppSolved \/ AppAddFailed \/ AppVerdict

-----------------------------------------------------------------------------
(* A program that keeps its calls apart: it ends a clause or a constraint  *)
(* before it does anything else, drops the constraint itself if solve gave *)
(* up, and asks for cubes only before it has an answer.                    *)
Free == turn = "user" /\ ~adding.clause /\ ~adding.constraint
UserAdd ==
    /\ KeepsTurn("user") /\ ~adding.constraint
    /\ Cardinality(formula) < MaxClauses
    /\ \/ \E l \in AddLits : l \notin original /\ Quietly(AddLit(l))
       \/ Quietly(AddZero)
UserConstrain ==
    /\ KeepsTurn("user") /\ ~adding.clause
    /\ (\E l \in ConstrainLits : l \notin given.open /\ CallConstrain(l)) \/ CallConstrainZero
UserAssume == Free /\ UNCHANGED turn /\ \E l \in AssumeLits : CallAssume(l)
UserReserve == Free /\ UNCHANGED turn /\ \E n \in Vars : Quietly(Reserve(n))
UserResets ==
    /\ Free /\ UNCHANGED turn
    /\ \/ ResetAssumptions /\ given' = [given EXCEPT !.assumptions = {}]
       \/ ResetConstraint /\ given' = [given EXCEPT !.constraint = {}]
    /\ UNCHANGED <<last, called>>
UserTerminator ==
    Free /\ UNCHANGED turn /\ (Quietly(ConnectTerminator) \/ Quietly(DisconnectTerminator))
UserSolve == Free /\ Turn("solved") /\ CallSolve(FALSE, 0)
UserSolved ==
    /\ Goes("solved", "user") /\ state # "SOLVING"
    /\ IF state = "UNKNOWN" THEN ResetConstraint ELSE UNCHANGED <<core, job, async>>
    /\ UNCHANGED ghosts
UserQuery == Free /\ UNCHANGED turn /\ Quietly(QueryFailed)
UserCubes == Free /\ UNCHANGED turn /\ ~Answered /\ CallCubes(1)

User ==
    /\ client = "user" /\ UNCHANGED <<client, phases, app>>
    /\ \/ UserAdd \/ UserConstrain \/ UserAssume \/ UserReserve \/ UserResets
       \/ UserTerminator \/ UserSolve \/ UserSolved \/ UserQuery \/ UserCubes

-----------------------------------------------------------------------------
(* solve, and the thread next to it. *)
Solver ==
    /\ SolverStep
    /\ called' = (called /\ ~(stage = "clear" \/ (stage = "reset" /\ ~forced)))
    /\ given' = IF stage = "return" THEN Nothing ELSE given
    /\ UNCHANGED <<last, clientVars>>

Thread ==
    \/ client # "app" /\ Terminate /\ called' = TRUE /\ UNCHANGED <<given, last, clientVars>>
    \/ TerminatorAsks /\ UNCHANGED <<ghosts, clientVars>>

Done == turn \in {"done", "error"} /\ UNCHANGED vars

ClientNext == Tester \/ App \/ User \/ Solver \/ Thread \/ Done

(* The thread that runs solve is scheduled, and its stages come to an end, *)
(* but nothing is assumed about the search: it may go on for ever.         *)
Progress ==
    \/ AlreadySolved \/ Preprocess \/ LocalSearch \/ LuckyPhases
    \/ SearchTerminated \/ ResetSolving \/ ClearForced \/ Return

ClientSpec == ClientInit /\ [][ClientNext]_vars /\ WF_vars(Progress /\ Solver)

-----------------------------------------------------------------------------
(* An answer is an answer to what the client gave for this call and to     *)
(* nothing else: the model that val reads satisfies the clauses, the       *)
(* assumptions and the constraint, and otherwise there is no such model    *)
(* (transition_to_unknown_state, call_external_solve_and_check_results).   *)
TheQuestion == formula \cup Units(last.assumptions) \cup last.constraint
AnswerFits ==
    /\ state = "SATISFIED" =>
           /\ VarsOf(trail.model) = known
           /\ \A c \in TheQuestion : Sat(trail.model, c)
    /\ state = "UNSATISFIED" => Unsat(TheQuestion)
    /\ ~(state = "ABORTED" /\ result = 10)

(* What failed and constraint_failed say is a core: the failed assumptions *)
(* and, if it failed, the constraint contradict the clauses.  So does      *)
(* check_failing find, which builds its question from the solver's data.   *)
CoreFits ==
    /\ state = "UNSATISFIED" =>
        /\ failed \subseteq last.assumptions
        /\ Unsat(formula \cup Units(failed) \cup IF constraint.unsat THEN last.constraint ELSE {})
    /\ ~(state = "ABORTED" /\ result = 20)

(* Answer, model and core belong to the call they are given for.           *)
AnswerForGiven == AnswerFits /\ CoreFits

(* Every reason for which a variable must stay is counted: the counter of  *)
(* the internal variable is the user's plus one for each assumption and    *)
(* each literal of the constraint, until a counter reaches UINT_MAX, where *)
(* it stays (freeze and melt of Internal and External).                    *)
Needed(v) == Occurrences(assumptions, v)
           + (IF constraint.closed THEN Occurrences(constraint.lits, v) ELSE 0)
FrozenCounted ==
    \A v \in Vars :
        /\ frozen.internal[v] < UIntMax => frozen.internal[v] = frozen.user[v] + Needed(v)
        /\ frozen.user[v] + Needed(v) > 0 => frozen.internal[v] > 0

(* solve gives up only if a limit was given for this very call or someone  *)
(* asked for termination since the last call cleared its request           *)
(* (reset_limits, reset_solving).                                          *)
UnknownHasCause ==
    /\ stage = "reset" /\ result = 0 /\ ~simplifying =>
           last.limited \/ called \/ terminator = "up"
    /\ forced /\ state # "SOLVING" => called

(* A request for termination ends the call it meets, whatever the search   *)
(* would do (terminated_asynchronously in the search loop).                *)
TerminateEnds == (state = "SOLVING" /\ forced) ~> (state # "SOLVING")

(* The exit code of the stand-alone solver is right for the file it read:  *)
(* 10 with a model, 20 if no cube, or without cubes the formula, can be    *)
(* satisfied; and it never gets that far with only a part of the           *)
(* auxiliary file.                                                         *)
LastZero(n) == Max({0} \cup {j \in 1 .. n - 1 : app.cnf.lits[j] = 0})
OpenClause(n) == {app.cnf.lits[k] : k \in LastZero(n) + 1 .. n - 1}
ClausesBefore(n) == {OpenClause(i) : i \in {j \in 1 .. n - 1 : app.cnf.lits[j] = 0}}
CnfClauses == ClausesBefore(Len(app.cnf.lits) + 1)
CubeLits(i) == {app.cnf.cubes[i][j] : j \in 1 .. Len(app.cnf.cubes[i])}
CubeSets == {CubeLits(i) : i \in 1 .. Len(app.cnf.cubes)}
AppRight ==
    /\ client = "app" /\ turn = "done" =>
           /\ app.res = 10 => \A c \in CnfClauses : Sat(app.witness, c)
           /\ app.res = 20 => IF ~Incremental THEN Unsat(CnfClauses)
                              ELSE \A c \in CubeSets : Unsat(CnfClauses \cup Units(c))
    /\ client = "app" /\ turn \notin {"limits", "open_aux", "read_aux", "error"} =>
           app.aux = {app.file[i][1] : i \in 1 .. Len(app.file)}

-----------------------------------------------------------------------------
(* What every step preserves, for FrozenCounted and UnknownHasCause.       *)
Stages == {"idle", "already_solved", "preprocess", "local_search", "lucky_phases", "search",
           "reset", "clear", "return"}

Givens == [assumptions : SUBSET LitsOver(Vars), constraint : SUBSET SUBSET LitsOver(Vars),
           open : SUBSET LitsOver(Vars), limited : BOOLEAN]

(* The cube that the stand-alone solver assumes next is one of its file.   *)
Reading == {"limits", "open_aux", "read_aux", "open_dimacs", "read_header", "read_dimacs"}
CubeInFile ==
    /\ {"cnf", "limit", "cube", "pos"} \subseteq DOMAIN app
    /\ app.cnf \in CnfFiles /\ app.limit \subseteq LimitCalls
    /\ app.cube \in Nat \ {0} /\ app.pos \in Nat \ {0}
    /\ turn \in Reading => app.cube = 1
    /\ turn = "cube" => app.cube <= Len(app.cnf.cubes)

(* The types of what the two properties and their proofs speak about.      *)
ApiTypes ==
    /\ client \in {"tester", "app", "user"}
    /\ client = "app" => CubeInFile
    /\ state \in VALID \cup {"SOLVING", "ABORTED"}
    /\ adding \in [clause : BOOLEAN, constraint : BOOLEAN]
    /\ assumptions \subseteq LitsOver(Vars)
    /\ constraint \in [lits : SUBSET LitsOver(Vars), all : SUBSET LitsOver(Vars),
                       closed : BOOLEAN, unsat : BOOLEAN]
    /\ frozen \in [user : [Vars -> 0 .. UIntMax], internal : [Vars -> 0 .. UIntMax]]
    /\ limits \in [DOMAIN NoLimits -> Int]
    /\ stage \in Stages /\ result \in {0, 10, 20}
    /\ simplifying \in BOOLEAN /\ forced \in BOOLEAN /\ called \in BOOLEAN
    /\ given \in Givens /\ last \in Givens

(* Other calls than terminate meet no call of solve.                       *)
OneCall == stage # "idle" <=> state = "SOLVING"

(* A constraint that is not complete, whose literals are not frozen yet,   *)
(* is the one the client is giving: an answer never takes it along.        *)
OpenConstraint ==
    /\ constraint.lits # {} /\ ~constraint.closed => adding.constraint
    /\ adding.constraint =>
           /\ state = "ADDING"
           /\ <<client, turn>> \in {<<"tester", "constrain">>, <<"user", "user">>}

(* A limit that can stop the search was given for the next call of solve,  *)
(* or for the one that runs.                                               *)
LimitsGiven ==
    limits.conflicts >= 0 \/ limits.terminate > 0 =>
        IF stage = "idle" THEN given.limited ELSE last.limited

(* The flag has a cause from the start of solve to its end, where it is    *)
(* cleared together with what is left of requests for termination.         *)
Cause == last.limited \/ called \/ terminator = "up"
FlagHasCause ==
    /\ stage \in {"idle", "return"} /\ forced => called
    /\ stage \notin {"idle", "return", "clear"} /\ forced => Cause
    /\ stage = "reset" /\ result = 0 /\ ~simplifying => Cause

ApiInv ==
    /\ ApiTypes /\ OneCall /\ OpenConstraint /\ LimitsGiven /\ FlagHasCause
    /\ FrozenCounted

-----------------------------------------------------------------------------
(* What every step preserves besides, for AnswerForGiven.  The solver      *)
(* knows the variables of all that it was given or has found out.          *)
AnswerTypes ==
    /\ known \subseteq Vars /\ formula \subseteq SUBSET LitsOver(known)
    /\ original \cup assumptions \cup constraint.all \cup failed \subseteq LitsOver(known)
    /\ root \in [units : SUBSET LitsOver(known), unsat : BOOLEAN]
    /\ trail \in [model : SUBSET LitsOver(known), core : SUBSET LitsOver(known)]

(* What is known on the root level follows from the clauses.               *)
RootSound ==
    /\ \A m \in Models(Vars, formula) : root.units \subseteq m
    /\ root.unsat => Models(Vars, formula) = {}

(* What is left of a constraint c that is complete says the same as all of *)
(* it under the clauses S, and nothing is left when it is true or false.   *)
ConstraintSays(c, S) ==
    /\ c.lits \subseteq c.all
    /\ ~c.closed => ~c.unsat /\ c.lits = c.all
    /\ c.closed =>
           \A m \in Models(Vars, S) :
               IF c.lits = {} THEN Sat(m, c.all) <=> ~c.unsat ELSE Sat(m, c.all) => Sat(m, c.lits)
ConstraintSound == ConstraintSays(constraint, formula)

(* A model or a core is right for the data of the solver.                  *)
ClosedConstraint == IF constraint.closed THEN {constraint.all} ELSE {}
ModelFits == trail.model \in Models(known, formula \cup Units(assumptions) \cup ClosedConstraint)
TrailCoreFits ==
    /\ trail.core \subseteq assumptions
    /\ Unsat(formula \cup Units(trail.core) \cup IF constraint.unsat THEN ClosedConstraint ELSE {})

(* The trail of an answer is right, and before there is one nothing is     *)
(* above the root level if that is all there is to answer.                 *)
TrailFits ==
    /\ root.unsat => trail = NoTrail
    /\ constraint.unsat /\ state # "UNSATISFIED" /\ stage \in {"idle", "already_solved"} =>
           trail = NoTrail /\ constraint.lits = {}
    /\ stage \in {"preprocess", "local_search", "lucky_phases", "search"} =>
           trail = NoTrail /\ ~root.unsat /\ ~constraint.unsat
    /\ stage \in {"reset", "clear", "return"} =>
           /\ result = 10 => ModelFits
           /\ IF result = 20 THEN TrailCoreFits ELSE ~constraint.unsat
    /\ state = "SATISFIED" => ModelFits
    /\ state = "UNSATISFIED" => TrailCoreFits /\ failed = trail.core

(* In which states a client makes its calls.  After a limit or a request   *)
(* for termination the constraint is still there: the tester gives another *)
(* one before it assumes anything, and the user drops it.                  *)
BeforeProcess == {"assume", "melt", "freeze", "limit", "process"}
TurnFits ==
    /\ state # "ABORTED"
    /\ stage # "idle" => turn = IF client = "tester" THEN "query" ELSE "solved"
    /\ client = "app" => ~constraint.closed
    /\ client = "tester" /\ turn \in BeforeProcess => ~Answered
    /\ client = "user" /\ turn = "solved" =>
           state \in {"SOLVING", "SATISFIED", "UNSATISFIED", "UNKNOWN"}
    /\ client = "user" => turn \in {"user", "solved"}

(* The data of the solver are what the client gave for this call, but for  *)
(* a constraint that is left from an earlier call.                         *)
HasGiven ==
    \/ client = "app"
    \/ client = "tester" /\ turn \in BeforeProcess
    \/ client = "user" /\ turn = "user" /\ ~adding.constraint
GivenHeld ==
    stage = "idle" =>
        /\ given.assumptions = KeptAssumptions
        /\ given.open = IF KeptConstraint.closed THEN {} ELSE KeptConstraint.all
        /\ HasGiven => given.constraint = IF Answered THEN {} ELSE ClosedConstraint
        /\ client = "user" /\ turn = "solved" => given.constraint = {}
LastHeld ==
    stage # "idle" \/ Answered =>
        last.assumptions = assumptions /\ last.constraint = ClosedConstraint

AnswerInv ==
    /\ ApiInv
    /\ AnswerTypes /\ RootSound /\ ConstraintSound /\ TrailFits
    /\ TurnFits /\ GivenHeld /\ LastHeld

-----------------------------------------------------------------------------
(* What every step preserves of the stand-alone solver, for AppRight.      *)
AppTypes ==
    /\ {"aux", "file", "res", "inconclusive", "witness"} \subseteq DOMAIN app
    /\ app.file \in AuxFiles
    /\ app.res \in {0, 10, 20} /\ app.inconclusive \in BOOLEAN

(* The auxiliary file is read to its end before anything else happens.     *)
AuxBefore(n) == {app.file[i][1] : i \in 1 .. n - 1}
AuxRead ==
    /\ turn \in {"limits", "open_aux"} => app.aux = {} /\ app.pos = 1
    /\ turn = "read_aux" => app.pos <= Len(app.file) + 1 /\ app.aux = AuxBefore(app.pos)
    /\ turn \notin {"limits", "open_aux", "read_aux", "error"} =>
           app.aux = AuxBefore(Len(app.file) + 1)

(* While the file is read the clauses in the solver are those before the   *)
(* position, but for tautologies.                                          *)
CnfRead ==
    /\ turn \in Reading \ {"read_dimacs"} => formula = {} /\ original = {}
    /\ turn \in {"open_dimacs", "read_header"} => app.pos = 1
    /\ turn \in Reading => assumptions = {}
    /\ turn = "read_dimacs" =>
           /\ app.pos <= Len(app.cnf.lits) + 1
           /\ original = OpenClause(app.pos)
           /\ UNION ClausesBefore(app.pos) \subseteq LitsOver(known)
           /\ Models(Vars, formula) = Models(Vars, ClausesBefore(app.pos))

(* Later they still have the models of the file; and no cube that a        *)
(* conclusive answer was given for has any.                                *)
Solving == {"cube", "cube_limit", "solve", "solved", "add_failed", "verdict", "done"}
Refuted(S) == Models(Vars, CnfClauses \cup S) = {}
FileSolved ==
    turn \in Solving =>
        /\ UNION CnfClauses \subseteq LitsOver(known)
        /\ Models(Vars, formula) = Models(Vars, CnfClauses)
        /\ turn \notin {"verdict", "done"} =>
              IF Incremental
              THEN /\ app.cube <= Len(app.cnf.cubes)
                   /\ assumptions \subseteq CubeLits(app.cube)
              ELSE assumptions = {} /\ turn \in {"solve", "solved"}
        /\ Incremental /\ ~app.inconclusive =>
              \A i \in 1 .. Len(app.cnf.cubes) : i < app.cube => Refuted(Units(CubeLits(i)))

(* The verdict is the last answer, or that of all the cubes.               *)
VerdictFits ==
    /\ turn = "solved" /\ stage = "idle" =>
           /\ result = 0 => assumptions = {}
           /\ result = 10 => state = "SATISFIED"
           /\ result = 20 => state = "UNSATISFIED"
    /\ turn = "add_failed" => state = "UNSATISFIED" /\ app.res = 20
    /\ turn = "verdict" =>
           /\ app.res = 10 => state = "SATISFIED"
           /\ app.res = 20 => IF Incremental THEN app.inconclusive \/ app.cube > Len(app.cnf.cubes)
                              ELSE Refuted({})
    /\ turn = "done" =>
           /\ app.res = 10 => \A c \in CnfClauses : Sat(app.witness, c)
           /\ app.res = 20 => IF Incremental THEN \A c \in CubeSets : Refuted(Units(c)) ELSE Refuted({})

AppFile == AppTypes /\ AuxRead /\ CnfRead /\ FileSolved /\ VerdictFits
AppInv == AnswerInv /\ (client = "app" => AppFile)
=============================================================================
