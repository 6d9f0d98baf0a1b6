--------------------------- MODULE MCApiClients ---------------------------
(* The clients of the library on two variables, and its tester, which      *)
(* reduces traces of calls: an instance with three options, two of which   *)
(* depend on another, two rounds of calls over three variables, and        *)
(* failures that need up to two calls.                                     *)
EXTENDS ApiClients, Mobical

MCAddLits == {1, 2}
MCAssumeLits == {-1}
MCConstrainLits == {-2}
MCAuxFiles == {<<>>, <<<<1, FALSE>>, <<2, TRUE>>>>, <<<<1, TRUE>>, <<2, TRUE>>>>}
Cnf(n, m, lits) == [inc |-> FALSE, vars |-> n, clauses |-> m, lits |-> lits, cubes |-> <<>>]
IncCnf(lits, cubes) == [inc |-> TRUE, vars |-> 0, clauses |-> 0, lits |-> lits, cubes |-> cubes]
MCCnfFiles == {
    Cnf(2, 2, <<1, 2, 0, -1, 2, 0>>),
    Cnf(2, 2, <<1, 0, -1, 0>>),
    Cnf(2, 2, <<1, 2, 0, 1>>),
    Cnf(2, 1, <<1, 0, 2, 0>>),
    Cnf(1, 2, <<1, 0>>),
    Cnf(1, 1, <<1, 2, 0>>),
    IncCnf(<<-2, 0>>, <<>>),
    IncCnf(<<1, 2, 0>>, <<<<2, -1>>, <<-1, -2>>>>),
    IncCnf(<<1, 2, 0, 1, -2, 0>>, <<<<-1>>, <<-1, 2>>>>)}
MCLimitCalls == {<<"conflicts", 0>>, <<"localsearch", 1>>}

MCOptionOrder == <<"elim", "elimrounds", "terminateint">>
MCOption ==
    [elim |-> [lo |-> 0, hi |-> 1, def |-> 1, ignored |-> FALSE, prefixes |-> {}],
     elimrounds |-> [lo |-> 1, hi |-> 512, def |-> 2, ignored |-> FALSE, prefixes |-> {"elim"}],
     terminateint |-> [lo |-> 0, hi |-> 10000, def |-> 10, ignored |-> TRUE, prefixes |-> {}]]
MCOptionChoices == {<<<<"elimrounds", 6>>>>}

Phase(clauses, assume, freeze, bounds, process, values) ==
    [queries |-> <<>>, clauses |-> clauses, constraint |-> <<>>, assume |-> assume, melt |-> TRUE,
     freeze |-> freeze, limits |-> bounds, process |-> process,
     values |-> values, failed |-> <<>>, frozen |-> <<>>]

MCPhaseChoices ==
    {Phase(<<<<1, -3>>, <<3>>>>, <<-1>>, <<3>>, <<>>, Plain("solve"), <<3>>),
     [Phase(<<<<4>>>>, <<>>, <<>>, <<Call("optimize", 0, "", 12)>>, Lit("simplify", 1), <<>>)
         EXCEPT !.constraint = <<4>>, !.failed = <<1>>]}

Failure(need, unless, least, top, sat) ==
    [need |-> need, unless |-> unless, least |-> least, top |-> top, sat |-> sat, slow |-> 0]

MCFailures(t) ==
    IF Len(t) < 16
    THEN {Failure({a, b}, <<>>, 0, 0, TRUE) : a \in 2 .. Len(t), b \in {4, 7, Len(t)}}
           \cup {Failure({a}, <<>>, n, 4, FALSE) : a \in {2, 6, 8, Len(t)}, n \in {2, 5}}
           \cup {Failure({a}, <<b, c>>, 0, 3, TRUE) :
                    a \in {3, 5}, b \in {2, 4, 6}, c \in {5, 12}}
           \cup {[Failure({a}, <<>>, 0, 0, TRUE) EXCEPT !.slow = 1] : a \in {4}}
    ELSE {Failure({a, Len(t) - 1}, <<>>, 0, 0, TRUE) : a \in 2 .. Len(t)}

-----------------------------------------------------------------------------
(* A behaviour is one of a client or one of the tester. *)
NoTester ==
    /\ mode = "off" /\ donot = {} /\ pc = "off" /\ traces = 0 /\ calls = <<>>
    /\ fail = <<>> /\ pass = "none" /\ previous = "none" /\ success = FALSE
    /\ delta = NoDelta /\ value = NoValue
    /\ files = <<>> /\ counts = [failed |-> 0, ok |-> 0, spurious |-> 0] /\ cuts = 0 /\ replay = "none"

NoClient ==
    /\ Init
    /\ client = "none" /\ turn = "done" /\ phases = 1
    /\ given = Nothing /\ last = Nothing /\ called = FALSE /\ app = <<>>

Client == mode = "off" /\ ClientNext /\ UNCHANGED testing
Test == mode # "off" /\ NextTest /\ UNCHANGED vars
Finished == pc = "finish" /\ UNCHANGED <<vars, testing>>

MCSpec ==
    /\ (ClientInit /\ NoTester) \/ (NoClient /\ InitTester)
    /\ [][Client \/ Test \/ Finished]_<<vars, testing>>
    /\ WF_vars(mode = "off" /\ Progress /\ Solver /\ UNCHANGED testing)
    /\ WF_testing(Test)
=============================================================================
