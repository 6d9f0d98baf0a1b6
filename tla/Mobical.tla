------------------------------ MODULE Mobical ------------------------------
(***************************************************************************)
(* The model based tester of CaDiCaL: it generates a trace of interface    *)
(* calls, executes it in a child process, and when that fails reduces the  *)
(* trace by delta debugging: chunks of calls are removed and values are    *)
(* lowered as long as the execution of what remains fails as before.  The  *)
(* reduced trace is written to a file which is then read and replayed.     *)
(*                                                                         *)
(* A call is a record.  The field id is not in the code: it is the place   *)
(* of the call in the generated trace, by which a failure says which calls *)
(* it depends on.  A failure is any record of                              *)
(*   need   the calls that have to have an effect,                         *)
(*   unless <<x, y>>: the failure is masked if x has an effect and y not,  *)
(*   least  what the values of the needed calls have to reach,             *)
(*   top    a variable index that has to be reached,                       *)
(*   sat    what the solver answers,                                       *)
(*   slow   how many executions hit a resource limit.                      *)
(* A needed call fails only where it does something: a query of a value    *)
(* without a model is skipped by its execute function.                     *)
(***************************************************************************)
EXTENDS Integers, Sequences, FiniteSets, SequencesExt

CONSTANTS
    OptionOrder,    \* the names in the option table, in its order
    Option,         \* name -> [lo, hi, def, ignored, prefixes]
    OptionChoices,  \* the SET calls generate_options may pick, as <<name, value>> sequences
    PhaseChoices,   \* what one round of generate may pick
    MaxRounds,      \* bound on the rounds of generate
    Failures(_),    \* the failures to consider for a generated trace
    DoNots,         \* the sets of '--do-not-...' options to consider
    Limit           \* '-L': the traces generated in random mode

ASSUME MobicalAssumption ==
    /\ \A o \in {OptionOrder[i] : i \in DOMAIN OptionOrder} :
           Option[o].lo <= Option[o].def /\ Option[o].def <= Option[o].hi
    /\ {MaxRounds, Limit} \subseteq Nat

VARIABLES
    mode,     \* "random", or "output": one trace is written to a given file
    donot,
    pc,       \* where main is
    traces,   \* generated so far
    calls,    \* of the trace at hand
    fail,     \* what fails in the solver under test
    pass,     \* the shrinking function that runs
    previous, \* l: the one that succeeded last
    success,  \* s: one succeeded in this iteration
    delta,    \* [items, removed, gran, l] of shrink_segments and shrink_disable
    value,    \* [i, stage, next, gran, changed] of reduce_values
    files,    \* [bug, red]: what was written
    counts,   \* [failed, ok, spurious]
    cuts,     \* executions that hit a resource limit
    replay    \* what came of calling the tester with the written trace

testing == <<mode, donot, pc, traces, calls, fail, pass, previous, success, delta,
          value, files, counts, cuts, replay>>

--------------------------------------------------------------------------
(* Calls and their types *)

Call(type, arg, name, val) ==
    [type |-> type, arg |-> arg, name |-> name, val |-> val, id |-> 0]
Plain(type) == Call(type, 0, "", 0)
Lit(type, lit) == Call(type, lit, "", 0)

ALWAYS == {"vars", "freeze", "frozen", "melt", "limit", "optimize", "reserve", "fixed"}
CONFIG == {"init", "set", "configure"} \cup ALWAYS
BEFORE == {"add", "constrain", "assume"} \cup ALWAYS
PROCESS == {"solve", "simplify", "lookahead"}
AFTER == {"val", "failed"} \cup ALWAYS

has_lit_arg_type(c) ==
    c.type \in {"add", "constrain", "assume", "freeze", "melt", "frozen", "val",
                "fixed", "failed", "reserve"}
is_basic(c) == c.type \in (PROCESS \cup ALWAYS \cup {"assume", "val", "failed"})

Abs(n) == IF n < 0 THEN -n ELSE n
VarsIn(t) == LET all == {Abs(t[i].arg) : i \in DOMAIN t}
             IN CHOOSE m \in all : \A n \in all : n <= m
Ascending(S) == LET top == CHOOSE m \in S \cup {0} : \A n \in S : n <= m
                IN SelectSeq([i \in 1 .. top |-> i], LAMBDA i : i \in S)
Descending(S) == Reverse(Ascending(S))
Keep(t, drop) == LET stay == Ascending(DOMAIN t \ drop)
                 IN [k \in DOMAIN stay |-> t[stay[k]]]

(* The SET calls right after INIT, and those of them that name an option. *)
last_option(t) ==
    CHOOSE n \in 1 .. Len(t) : /\ \A i \in 1 .. n : t[i].type \in {"init", "set"}
                               /\ n < Len(t) => t[n + 1].type \notin {"init", "set"}
find_option_by_name(t, o) == {i \in 2 .. last_option(t) : t[i].name = o}

(* An option is irrelevant if another one, whose name is a prefix of its   *)
(* name, is switched off; the shortest prefix found decides.               *)
ignore_option(t, o) ==
    \/ Option[o].ignored
    \/ LET set == {i \in 2 .. last_option(t) : t[i].name \in Option[o].prefixes}
           first == CHOOSE i \in set :
                       \A j \in set \ {i} :
                           \/ t[i].name \in Option[t[j].name].prefixes
                           \/ t[i].name = t[j].name /\ j < i
       IN set # {} /\ t[first].val = 0

--------------------------------------------------------------------------
(* What the solver under test does with a trace: states of class Solver    *)
(* and the contracts of its functions (see SolverApi).                     *)

(* The calls among the first n of a type in T, and the last of them. *)
Among(t, n, T) == {i \in 1 .. n : t[i].type \in T}
LastOf(S) == {i \in S : \A j \in S : j <= i}

Open(t, n, type) == \E i \in LastOf(Among(t, n, {type})) : t[i].arg # 0
Leaves == {"add", "constrain", "assume", "reserve", "solve", "simplify"}
ApiState(t, n, sat) ==
    IF Among(t, n, Leaves) = {} THEN "CONFIGURING"
    ELSE IF Open(t, n, "add") \/ Open(t, n, "constrain") THEN "ADDING"
    ELSE IF \A i \in LastOf(Among(t, n, Leaves)) : t[i].type \notin {"solve", "simplify"}
         THEN "UNKNOWN"
         ELSE IF sat THEN "SATISFIED" ELSE "UNSATISFIED"

(* A call is refused: options have to be set first, clause and constraint  *)
(* to be complete.                                                         *)
Aborts(t) ==
    \E i \in DOMAIN t :
        \/ t[i].type \in {"set", "configure"} /\ ApiState(t, i - 1, TRUE) # "CONFIGURING"
        \/ t[i].type \in {"solve", "simplify"} /\ ApiState(t, i - 1, TRUE) = "ADDING"

(* Its variable is frozen when a melt call is reached: melting what is not *)
(* frozen is skipped and leaves the counter at zero.                       *)
Frozen(t, n, v) ==
    LET of(type, k) == Cardinality({i \in k .. n : t[i].type = type /\ Abs(t[i].arg) = v})
    IN \E k \in 1 .. n : of("freeze", k) > of("melt", k)

(* The execute functions skip a query that the contract forbids. *)
Effective(t, sat) ==
    {t[i].id : i \in {j \in DOMAIN t :
        /\ t[j].type = "val" => ApiState(t, j - 1, sat) = "SATISFIED"
        /\ t[j].type = "failed" => ApiState(t, j - 1, sat) = "UNSATISFIED"
        /\ t[j].type = "melt" => Frozen(t, j - 1, Abs(t[j].arg))}}

Fails(t, f) ==
    /\ VarsIn(t) >= f.top
    /\ \A i \in DOMAIN t : t[i].id \in f.need /\ t[i].type \in {"set", "limit", "optimize"}
                               => t[i].val >= f.least
    /\ \E e \in {Effective(t, f.sat)} :
           /\ f.need \subseteq e
           /\ f.unless = <<>> \/ f.unless[1] \notin e \/ f.unless[2] \in e

(* fork_and_execute: 1 if the child is killed by a signal, which it is by  *)
(* an abort too, and 0 if it exits or is stopped at a resource limit.      *)
fork_and_execute(t) == IF Aborts(t) \/ Fails(t, fail) THEN 1 ELSE 0
Results(t) == {fork_and_execute(t)} \cup (IF cuts < fail.slow THEN {0} ELSE {})
CountCut(t, res) == cuts' = IF res # fork_and_execute(t) THEN cuts + 1 ELSE cuts

--------------------------------------------------------------------------
(* Reader::parse: whether a trace is accepted with contracts enforced.     *)

parse(t) ==
    LET states == {"add", "assume", "val", "failed"} \cup PROCESS
    IN \A i \in DOMAIN t :
        /\ (t[i].type = "init") = (i = 1)
        /\ t[i].type = "reset" => i = Len(t)
        /\ Open(t, i - 1, "add") => t[i].type \in {"add", "reset"}
        /\ Open(t, i - 1, "constrain") => t[i].type \in {"constrain", "reset"}
        /\ t[i].type \in {"set", "configure"} => Among(t, i - 1, states) = {}
        /\ t[i].type \in {"val", "failed"} =>
               \E j \in LastOf(Among(t, i - 1, states)) : t[j].type \notin {"add", "assume"}

--------------------------------------------------------------------------
(* Trace::generate.  A phase choice p fixes what the random generator      *)
(* picks in one round; melting depends on what the trace has frozen.       *)

Lits(type, lits) == [k \in DOMAIN lits |-> Lit(type, lits[k])]
generate_options(choice) ==
    [k \in DOMAIN choice |-> Call("set", 0, choice[k][1], choice[k][2])]
generate_clause(c) == Lits("add", c) \o <<Lit("add", 0)>>
generate_constraint(c) == Lits("constrain", c) \o <<Lit("constrain", 0)>>
generate_melt(t, p) ==
    LET frozen == {v \in 1 .. VarsIn(t) :
                      Cardinality({i \in DOMAIN t : t[i].type = "freeze" /\ Abs(t[i].arg) = v})
                    # Cardinality({i \in DOMAIN t : t[i].type = "melt" /\ Abs(t[i].arg) = v})}
    IN IF p.melt THEN Lits("melt", Ascending(frozen)) ELSE <<>>
generate_clauses(t, p) ==
    t \o p.queries \o FlattenSeq([k \in DOMAIN p.clauses |-> generate_clause(p.clauses[k])])
      \o generate_constraint(p.constraint) \o Lits("assume", p.assume)
generate_rest(p) ==
    Lits("freeze", p.freeze) \o p.limits \o <<p.process>> \o Lits("val", p.values)
      \o Lits("failed", p.failed) \o Lits("frozen", p.frozen)
generate_phase(t, p) ==
    CHOOSE r \in {u \o generate_melt(u, p) \o generate_rest(p) : u \in {generate_clauses(t, p)}} :
        TRUE

generate(opts, phases) ==
    FoldLeft(generate_phase, <<Plain("init")>> \o generate_options(opts), phases)
      \o <<Plain("reset")>>
Numbered(t) == [i \in DOMAIN t |-> [t[i] EXCEPT !.id = i]]

--------------------------------------------------------------------------
(* The shrinking functions: which calls belong together, and what a        *)
(* candidate is.                                                           *)

Singles(seq) == [k \in DOMAIN seq |-> {seq[k]}]

\* the first call from i on whose type is not in T
Run(t, T, i) == CHOOSE j \in i .. Len(t) + 1 :
                    /\ \A k \in i .. j - 1 : t[k].type \in T
                    /\ j > Len(t) \/ t[j].type \notin T

PhaseEnd(t, l) ==
    LET b == Run(t, BEFORE, l)
        p == IF b <= Len(t) /\ t[b].type \in PROCESS THEN b + 1 ELSE b
    IN Run(t, AFTER, p)

shrink_phases(t) ==
    LET from[l \in 1 .. Len(t) + 1] ==
            IF l > Len(t) THEN <<>>
            ELSE IF PhaseEnd(t, l) > l
                 THEN <<l .. PhaseEnd(t, l) - 1>> \o from[PhaseEnd(t, l)]
                 ELSE (IF t[l].type \in CONFIG THEN <<>> ELSE <<{l}>>) \o from[l + 1]
    IN from[Run(t, CONFIG, 2)]

shrink_clauses(t) ==
    LET ends == Descending({z \in 2 .. Len(t) : t[z].type = "add" /\ t[z].arg = 0})
        inside(i, z) == \A j \in i .. z - 1 : t[j].type = "add" /\ t[j].arg # 0
    IN [k \in DOMAIN ends |-> {i \in 2 .. ends[k] : inside(i, ends[k])}]

\* Mutated form: a literal of value zero is taken for one that can go.
shrink_literals_zero(t) ==
    Singles(Descending({i \in 2 .. Len(t) : t[i].type = "add"}))

shrink_literals(t) ==
    Singles(Descending({i \in 2 .. Len(t) : t[i].type = "add" /\ t[i].arg # 0}))

shrink_basic(t) == Singles(Descending({i \in 2 .. Len(t) : is_basic(t[i])}))
shrink_options(t) == Singles(Ascending({i \in DOMAIN t : t[i].type = "set"}))
shrink_disable(t) ==
    Singles(Ascending({i \in 2 .. last_option(t) :
                            ~ignore_option(t, t[i].name) /\ t[i].val # Option[t[i].name].lo}))

Items(t, p) == CASE p = "phases" -> shrink_phases(t)
                 [] p = "clauses" -> shrink_clauses(t)
                 [] p = "literals" -> shrink_literals(t)
                 [] p = "basic" -> shrink_basic(t)
                 [] p = "disable" -> shrink_disable(t)
                 [] p = "options" -> shrink_options(t)

Lower(t, set) == [i \in DOMAIN t |->
                    IF i \in set THEN [t[i] EXCEPT !.val = Option[t[i].name].lo] ELSE t[i]]
Candidate(removed) ==
    LET set == UNION {delta.items[k] : k \in removed}
    IN IF pass = "disable" THEN Lower(calls, set) ELSE Keep(calls, set)

add_options(t) ==
    LET n == last_option(t)
        add(ext, o) == IF \/ find_option_by_name(t, o) # {}
                          \/ ignore_option(t, o) \/ ignore_option(ext, o)
                       THEN ext
                       ELSE Append(ext, Call("set", 0, o, Option[o].def))
    IN FoldLeft(add, SubSeq(t, 1, n), OptionOrder) \o SubSeq(t, n + 1, Len(t))

(* map_variables: the variables in use are numbered from one on; with gaps *)
(* one index is left out where there were some.                            *)
Used(t) == {Abs(t[i].arg) : i \in {j \in DOMAIN t : has_lit_arg_type(t[j])}} \ {0}
Mapped(t, gaps) ==
    LET used == Used(t)
        starts == {v \in used : v > 1 /\ v - 1 \notin used}
        index(v) == Cardinality({u \in used : u <= v})
                      + (IF gaps THEN Cardinality({u \in starts : u <= v}) ELSE 0)
        sign(n) == IF n < 0 THEN -1 ELSE 1
    IN [i \in DOMAIN t |->
           IF has_lit_arg_type(t[i]) /\ t[i].arg # 0
           THEN [t[i] EXCEPT !.arg = sign(@) * index(Abs(@))] ELSE t[i]]
HasGaps(t) == \E v \in Used(t) : v > 1 /\ v - 1 \notin Used(t)

ValueRange(c) ==
    CASE c.type = "set" -> {[lo |-> Option[c.name].lo, hi |-> Option[c.name].hi]}
      [] c.type = "limit" /\ c.name \in {"conflicts", "decisions"} ->
            {[lo |-> -1, hi |-> 2147483647]}
      [] c.type = "limit" /\ c.name = "preprocessing" -> {[lo |-> 0, hi |-> 2147483647]}
      [] c.type = "limit" /\ c.name = "localsearch" -> {[lo |-> 0, hi |-> c.val]}
      [] c.type = "optimize" -> {[lo |-> 0, hi |-> 9]}
      [] OTHER -> {}

--------------------------------------------------------------------------
NoDelta == [items |-> <<>>, removed |-> {}, gran |-> 0, l |-> 0]
NoValue == [i |-> 0, stage |-> "lo", next |-> 0, gran |-> 0, changed |-> FALSE, any |-> FALSE]

InitTester ==
    /\ mode \in {"random", "output"} /\ donot \in DoNots
    /\ pc = "generate" /\ traces = 0
    /\ calls = <<>> /\ fail = [sat |-> TRUE, slow |-> 0]
    /\ pass = "none" /\ previous = "none" /\ success = FALSE
    /\ delta = NoDelta /\ value = NoValue
    /\ files = [bug |-> <<>>, red |-> <<>>]
    /\ counts = [failed |-> 0, ok |-> 0, spurious |-> 0]
    /\ cuts = 0 /\ replay = "none"

ShrinkUnchanged == UNCHANGED <<pass, previous, success, delta, value>>
MainUnchanged == UNCHANGED <<mode, donot, traces, fail, files, counts, replay>>

Generate ==
    /\ pc = "generate"
    /\ traces < (IF mode = "random" THEN Limit ELSE 1)
    /\ \E opts \in OptionChoices, n \in 1 .. MaxRounds :
       \E phases \in [1 .. n -> PhaseChoices] :
       \E raw \in {generate(opts, phases)} : \E t \in {Numbered(raw)} :
       \E f \in Failures(t) :
           calls' = t /\ fail' = f
    /\ traces' = traces + 1 /\ pc' = "execute"
    /\ UNCHANGED <<mode, donot, files, counts, cuts, replay>> /\ ShrinkUnchanged

\* the trace is fine: counted, and written as it is if a file was given
Fine(c) == /\ counts' = c /\ files' = files
           /\ pc' = IF mode = "random" THEN "generate" ELSE "write"
           /\ pass' = "none"

Execute ==
    /\ pc = "execute"
    /\ \E res \in Results(calls) :
           /\ CountCut(calls, res)
           /\ IF res = 1
              THEN pc' = "rerun" /\ UNCHANGED <<counts, files, pass>>
              ELSE Fine([counts EXCEPT !.ok = @ + 1])
    /\ UNCHANGED <<mode, donot, traces, calls, fail, previous, success, delta, value, replay>>

Rerun ==
    /\ pc = "rerun"
    /\ \E res \in Results(calls) :
           /\ CountCut(calls, res)
           /\ IF res = 1
              THEN /\ counts' = [counts EXCEPT !.failed = @ + 1]
                   /\ files' = IF mode = "random" THEN [files EXCEPT !.bug = calls] ELSE files
                   /\ pc' = IF mode = "random" /\ "atall" \in donot THEN "write" ELSE "shrink"
                   /\ pass' = IF pc' = "shrink" THEN "add" ELSE "none"
              ELSE Fine([counts EXCEPT !.spurious = @ + 1, !.ok = @ + 1])
    /\ UNCHANGED <<mode, donot, traces, calls, fail, previous, success, delta, value, replay>>

--------------------------------------------------------------------------
(* Trace::shrink: all functions in turn, but for the one that succeeded    *)
(* last, until none succeeds.                                              *)

expected == 1
Loop == <<"phases", "clauses", "literals", "basic", "disable", "values">>
NextOf(p) == Loop[1 + CHOOSE k \in DOMAIN Loop : Loop[k] = p]

Returns(ok) ==
    /\ delta' = NoDelta /\ value' = NoValue
    /\ previous' = IF ok THEN pass ELSE previous
    /\ IF pass = "options" THEN pc' = "write" /\ pass' = "none" /\ success' = FALSE
       ELSE /\ pc' = pc
            /\ IF pass # "values" THEN pass' = NextOf(pass) /\ success' = (success \/ ok)
               ELSE pass' = (IF success \/ ok THEN "phases" ELSE "map") /\ success' = FALSE

Skipped == pass \in donot \/ (pass = previous /\ pass # "options")

AddOptions ==
    /\ pc = "shrink" /\ pass = "add"
    /\ \E t \in {add_options(calls)} : \E res \in Results(t) :
           IF "add" \in donot THEN UNCHANGED <<calls, cuts>>
           ELSE CountCut(t, res) /\ calls' = IF res = expected THEN t ELSE calls
    /\ pass' = "phases" /\ success' = FALSE /\ previous' = "none"
    /\ UNCHANGED <<pc, delta, value>> /\ MainUnchanged

Begin ==
    /\ pc = "shrink" /\ pass \in {"phases", "clauses", "literals", "basic", "disable", "options"}
    /\ delta = NoDelta
    /\ \E items \in {IF Skipped THEN <<>> ELSE Items(calls, pass)} :
           IF items = <<>> THEN Returns(FALSE)
           ELSE /\ delta' = [items |-> items, removed |-> {}, gran |-> Len(items), l |-> 0]
                /\ UNCHANGED <<pc, pass, previous, success, value>>
    /\ UNCHANGED <<calls, cuts>> /\ MainUnchanged

Upto == IF delta.l + delta.gran > Len(delta.items) THEN Len(delta.items) ELSE delta.l + delta.gran

Chunk ==
    /\ delta # NoDelta /\ delta.l < Len(delta.items)
    /\ \E tried \in {delta.removed \cup (delta.l + 1 .. Upto)} :
           IF tried = delta.removed
           THEN delta' = [delta EXCEPT !.l = Upto] /\ UNCHANGED cuts
           ELSE \E t \in {Candidate(tried)} : \E res \in Results(t) :
                   /\ CountCut(t, res)
                   /\ delta' = [delta EXCEPT !.l = Upto,
                                             !.removed = IF res = expected THEN tried ELSE @]
    /\ UNCHANGED <<pc, calls, pass, previous, success, value>> /\ MainUnchanged

Round ==
    /\ delta # NoDelta /\ delta.l = Len(delta.items)
    /\ IF delta.gran = 1
       THEN calls' = Candidate(delta.removed) /\ Returns(delta.removed # {})
       ELSE /\ delta' = [delta EXCEPT !.gran = (@ + 1) \div 2, !.l = 0]
            /\ UNCHANGED <<pc, calls, pass, previous, success, value>>
    /\ UNCHANGED cuts /\ MainUnchanged

--------------------------------------------------------------------------
(* reduce_values: the lowest value first, then a binary search.            *)

WithValue(n) == [calls EXCEPT ![value.i].val = n]
NextCall == [value EXCEPT !.i = @ + 1, !.stage = "lo"]
Search(v, old, lo, cur) ==
    LET g == ((old - lo) + 1) \div 2
    IN [v EXCEPT !.stage = "search", !.gran = g, !.next = cur - g]

BeginValues ==
    /\ pc = "shrink" /\ pass = "values" /\ value = NoValue
    /\ IF Skipped THEN Returns(FALSE)
       ELSE value' = [NoValue EXCEPT !.i = 1] /\ UNCHANGED <<pc, pass, previous, success, delta>>
    /\ UNCHANGED <<calls, cuts>> /\ MainUnchanged

TryValue(n, accepted, rejected) ==
    \E t \in {WithValue(n)} : \E res \in Results(t) :
        /\ CountCut(t, res)
        /\ IF res = expected
           THEN calls' = t /\ value' = [accepted EXCEPT !.changed = TRUE]
           ELSE calls' = calls /\ value' = rejected

ReduceValue ==
    /\ value.i \in DOMAIN calls
    /\ \E c \in {calls[value.i]} :
           IF \E r \in ValueRange(c) : value.stage # "lo" \/ c.val # r.lo
           THEN \E r \in ValueRange(c) :
                  CASE value.stage = "lo" ->
                         TryValue(r.lo, NextCall,
                                  IF c.val > r.hi THEN [value EXCEPT !.stage = "hi"]
                                  ELSE Search(value, c.val, r.lo, c.val))
                    [] value.stage = "hi" ->
                         TryValue(r.hi, Search(value, c.val, r.lo, r.hi), NextCall)
                    [] value.stage = "search" ->
                         IF value.next > r.lo
                         THEN \E v \in {[value EXCEPT !.next = @ - value.gran]} :
                                 TryValue(value.next, v, v)
                         ELSE value' = NextCall /\ UNCHANGED <<calls, cuts>>
           ELSE value' = NextCall /\ UNCHANGED <<calls, cuts>>
    /\ UNCHANGED <<pc, pass, previous, success, delta>> /\ MainUnchanged

\* Mutated form: that something changed is not forgotten.
EndValuesChanged ==
    /\ value.i > Len(calls)
    /\ IF value.changed
       THEN /\ value' = [NoValue EXCEPT !.i = 1, !.any = TRUE, !.changed = TRUE]
            /\ UNCHANGED <<pc, pass, previous, success, delta>>
       ELSE Returns(value.any)
    /\ UNCHANGED <<calls, cuts>> /\ MainUnchanged

EndValues ==
    /\ value.i > Len(calls)
    /\ IF value.changed
       THEN /\ value' = [NoValue EXCEPT !.i = 1, !.any = TRUE]
            /\ UNCHANGED <<pc, pass, previous, success, delta>>
       ELSE Returns(value.any)
    /\ UNCHANGED <<calls, cuts>> /\ MainUnchanged

MapVariables ==
    /\ pc = "shrink" /\ pass \in {"map", "gaps"}
    /\ \E gaps \in {pass = "gaps"} :
       \E t \in {Mapped(calls, gaps)} : \E res \in Results(t) :
           IF "map" \in donot \/ ~HasGaps(calls)
           THEN pass' = "options" /\ UNCHANGED <<calls, cuts>>
           ELSE /\ CountCut(t, res)
                /\ calls' = IF res = expected THEN t ELSE calls
                /\ pass' = IF res = expected \/ gaps THEN "options" ELSE "gaps"
    /\ UNCHANGED <<pc, previous, success, delta, value>> /\ MainUnchanged

--------------------------------------------------------------------------
Write ==
    /\ pc = "write"
    /\ files' = [files EXCEPT !.red = calls]
    /\ pc' = IF mode = "random" THEN "generate" ELSE "finish"
    /\ UNCHANGED <<mode, donot, traces, calls, fail, counts, cuts, replay>> /\ ShrinkUnchanged

FinishTests ==
    /\ pc = "generate" /\ mode = "random" /\ traces = Limit
    /\ pc' = "finish"
    /\ UNCHANGED <<mode, donot, traces, calls, fail, files, counts, cuts, replay>>
    /\ ShrinkUnchanged

(* The tester is called again with the written trace as single argument:   *)
(* it is read with contracts enforced and executed in this process.        *)
Replay ==
    /\ pc = "finish" /\ files.red # <<>> /\ replay = "none"
    /\ replay' = IF ~parse(files.red) THEN "rejected"
                 ELSE IF fork_and_execute(files.red) = 1 THEN "failed" ELSE "ok"
    /\ UNCHANGED <<mode, donot, pc, traces, calls, fail, files, counts, cuts>>
    /\ ShrinkUnchanged

Shrink == AddOptions \/ Begin \/ Chunk \/ Round \/ BeginValues \/ ReduceValue
            \/ EndValues \/ MapVariables

NextTest == Generate \/ Execute \/ Rerun \/ Shrink \/ Write \/ FinishTests \/ Replay

--------------------------------------------------------------------------
(* A failure that only goes away when calls are removed or lowered. *)
Monotone(f) == f.unless = <<>>

(* Removals that were tried one by one. *)
Single(t) == {{i} : i \in {j \in 2 .. Len(t) :
                \/ is_basic(t[j]) /\ "basic" \notin donot
                \/ t[j].type = "set" \/ (t[j].type = "add" /\ t[j].arg # 0)}}
             \cup {shrink_clauses(t)[k] : k \in DOMAIN shrink_clauses(t)}

(* mobical.cpp 1541-2168: a generated trace keeps the contracts of the     *)
(* interface and is accepted by the reader; no candidate of a shrinking    *)
(* function breaks a contract, so that the abort of a wrong sequence of    *)
(* calls is never taken for the failure that is reduced; between two       *)
(* shrinking functions the trace at hand fails, and so does the written    *)
(* one, which is minimal and can be read again unless the failure comes    *)
(* and goes with calls or an execution was cut off by a resource limit.    *)
ReductionRight ==
    /\ calls # <<>> => ~Aborts(calls)
    /\ delta # NoDelta /\ delta.l < Len(delta.items) =>
           ~Aborts(Candidate(delta.removed \cup (delta.l + 1 .. Upto)))
    /\ pc = "execute" => parse(calls)
    /\ pc = "shrink" => Fails(calls, fail) /\ (mode = "random" => Fails(files.bug, fail))
    /\ pc = "write" /\ counts.failed > 0 =>
           /\ Fails(calls, fail)
           /\ Monotone(fail) /\ cuts = 0 /\ "atall" \notin donot =>
                  /\ parse(calls)
                  /\ \A drop \in Single(calls) : ~Fails(Keep(calls, drop), fail)

(* mobical.cpp 2114-2146: shrinking ends, whatever fails. *)
ShrinkTerminates == pc = "generate" ~> pc = "finish"

=============================================================================
