------------------------------ MODULE Schedule ------------------------------
(***************************************************************************)
(* When CaDiCaL does what: the loop cdcl_loop_with_inprocessing, which in  *)
(* each iteration takes the first of its techniques that is due, the       *)
(* limits that make them due (limit.hpp, init_preprocessing_limits,        *)
(* init_search_limits), the change between stable and unstable mode with   *)
(* its two sets of averages (restart.cpp, averages.cpp, ema.cpp), and the  *)
(* reluctant doubling of restarts in stable mode (reluctant.hpp).  What    *)
(* the techniques do to clauses is in Cdcl, Inprocessing and Storage; here *)
(* they are what they leave of limits and counters.                        *)
(*                                                                         *)
(* An average is a fraction: after n updates in a window w its biased      *)
(* value is num / w^n, its exp is (w - 1)^n / w^n, and its value therefore *)
(* num / (w^n - (w - 1)^n).                                                *)
(***************************************************************************)
EXTENDS Integers, Sequences, FiniteSets, FiniteSetsExt

CONSTANT Plans  \* records of options and bounds, see the fields below

ASSUME ScheduleAssumption ==
    \A p \in Plans :
        /\ \A f \in {"reluctant", "reluctantmax", "maxConflicts", "maxLevel", "maxCalls"} : p[f] \in Nat
        /\ p.rounds \in Nat /\ p.bounds \subseteq Nat
        /\ \A f \in {"restartint", "stabilizeint", "stabilizefactor", "stabilizemaxint", "interval",
                     "fast", "slow"} : p[f] \in Nat \ {0}
        /\ p.glues \cup p.factors \subseteq Nat \ {0} /\ p.techniques \subseteq STRING
        /\ {p.stabilize, p.stabilizeonly, p.chrono} \subseteq BOOLEAN

VARIABLES
    plan,       \* never changes
    stats,      \* conflicts, and how often each technique was called
    lim,        \* of Limit: the number of conflicts from which on a technique is due
    incr,       \* of Inc: [stabilize, flush]
    last,       \* of Last: [reduce, probe, subsumephases, fresh]
    stable,
    averages,   \* [current, saved, swapped]
    reluctant,  \* [period, u, v, countdown, trigger]
    depth,      \* the decision level
    running,    \* "off", "idle", "simplify" or "preprocess", "search", or "unsat"
    rounds,     \* preprocessing rounds left
    ran,        \* the techniques called since the last conflict or decision, in order
    glues,      \* glues of learned clauses by mode
    quiet       \* [n, since]: number of the interval between reluctant restarts, and
                \* clauses learned in stable mode since the last of them

scheduling == <<plan, stats, lim, incr, last, stable, averages, reluctant, depth, running,
                rounds, ran, glues, quiet>>

Techniques == <<"restart", "rephase", "reduce", "probe", "subsume", "elim", "compact", "condition">>
On(t) == t \in plan.techniques

-----------------------------------------------------------------------------
(* Averages. *)
Ema(w) == [w |-> w, n |-> 0, num |-> 0]
Divisor(a) == IF a.n = 0 THEN 1 ELSE a.w ^ a.n - (IF a.w = 1 THEN 0 ELSE (a.w - 1) ^ a.n)
Updated(a, y) == [a EXCEPT !.n = @ + 1, !.num = (a.w - 1) * @ + y * a.w ^ a.n]

NewAverages == [fast |-> Ema(plan.fast), slow |-> Ema(plan.slow)]

(* Mutated form: the averages stay where they are after the first time. *)
SwappedOnce(a) ==
    IF a.swapped > 0 THEN a
    ELSE [current |-> NewAverages, saved |-> a.current, swapped |-> 1]

(* swap_averages: the first time there is nothing to swap in.  That it is  *)
(* not the first time is all that is told apart of later counts.           *)
Swapped(a) ==
    [current |-> IF a.swapped = 0 THEN NewAverages ELSE a.saved,
     saved |-> a.current, swapped |-> 1]

-----------------------------------------------------------------------------
(* Reluctant doubling. *)
LowBit(u) == Max({p \in {2 ^ i : i \in 0 .. 5} : u % p = 0})

Enabled == [period |-> IF plan.stabilize THEN plan.reluctant ELSE 0, u |-> 1, v |-> 1,
            countdown |-> plan.reluctant, trigger |-> FALSE]

(* The next pair (u, v), which starts over if v reaches the limit. *)
Doubled(r) ==
    LET u == IF LowBit(r.u) = r.v THEN r.u + 1 ELSE r.u
        v == IF LowBit(r.u) = r.v THEN 1 ELSE 2 * r.v
    IN  IF plan.reluctantmax > 0 /\ v >= plan.reluctantmax
        THEN [r EXCEPT !.u = 1, !.v = 1] ELSE [r EXCEPT !.u = u, !.v = v]

Tick(r) ==
    IF r.period = 0 \/ r.trigger THEN r
    ELSE IF r.countdown > 1 THEN [r EXCEPT !.countdown = @ - 1]
    ELSE LET d == Doubled(r) IN [d EXCEPT !.countdown = d.v * d.period, !.trigger = TRUE]

-----------------------------------------------------------------------------
(* scale: intervals are longer if there are many clauses per variable. *)
Scaled(n) == {f * n : f \in plan.factors}

NoCalls == [t \in {Techniques[i] : i \in 1 .. Len(Techniques)} |-> 0]

InitSchedule ==
    /\ plan \in Plans
    /\ stats = [conflicts |-> 0, calls |-> 0, done |-> NoCalls]
    /\ lim = [initialized |-> FALSE, conflicts |-> -1, stabilize |-> 0, flush |-> 0, elimbound |-> 0,
              at |-> NoCalls]
    /\ incr = [stabilize |-> 0, flush |-> 0]
    /\ last = [reduce |-> 0, probe |-> 0, subsumephases |-> 0, fresh |-> FALSE]
    /\ stable = FALSE
    /\ averages = [current |-> NewAverages, saved |-> NewAverages, swapped |-> 0]
    /\ reluctant = [Enabled EXCEPT !.period = 0]
    /\ depth = 0 /\ running = "idle" /\ rounds = 0 /\ ran = << >>
    /\ glues = [mode \in BOOLEAN |-> << >>]
    /\ quiet = [n |-> 1, since |-> 0]

(* init_preprocessing_limits.  Techniques other than rephase and restart   *)
(* keep their limits from the second call with a search on.                *)
From(n) == stats.conflicts + n
PreprocessingLimits(s, e) ==
    LET first == ~lim.initialized
    IN  [lim.at EXCEPT !["subsume"] = IF first THEN From(s) ELSE @,
                       !["elim"] = IF first THEN From(e) ELSE @,
                       !["compact"] = IF first THEN From(plan.interval) ELSE @,
                       !["probe"] = IF first THEN From(plan.interval) ELSE @,
                       !["condition"] = IF first THEN From(plan.interval) ELSE @]

(* init_search_limits: a call starts in unstable mode unless that is       *)
(* switched off, with the averages of that mode, and with a new sequence   *)
(* of reluctant restarts.                                                  *)
Always == plan.stabilize /\ plan.stabilizeonly
StartMode == IF lim.initialized /\ ~Always THEN FALSE ELSE Always
StartAverages == IF lim.initialized /\ ~Always /\ stable THEN Swapped(averages) ELSE averages

SearchLimits(at) ==
    [at EXCEPT !["rephase"] = From(plan.interval),
               !["restart"] = From(plan.restartint),
               !["reduce"] = IF lim.initialized THEN @ ELSE From(plan.interval)]

StartCall(pre, n, bound) ==
    /\ running = "idle"
    /\ stats.calls < plan.maxCalls
    /\ stats' = [stats EXCEPT !.calls = @ + 1]
    /\ running' = IF pre THEN "simplify" ELSE "preprocess"
    /\ rounds' = n
    /\ \E s \in Scaled(plan.interval), e \in Scaled(plan.interval) :
        \E at \in {PreprocessingLimits(s, e)} :
            lim' = IF pre THEN [lim EXCEPT !.at = at, !.elimbound = 0]
                   ELSE [initialized |-> TRUE,
                         conflicts |-> IF bound < 0 THEN -1 ELSE From(bound),
                         stabilize |-> From(plan.stabilizeint),
                         flush |-> IF lim.initialized THEN lim.flush ELSE plan.interval,
                         elimbound |-> 0,
                         at |-> SearchLimits(at)]
    /\ last' = [last EXCEPT !.fresh = @ \/ ~lim.initialized,
                            !.reduce = IF pre \/ lim.initialized THEN @ ELSE -1]
    /\ IF pre THEN UNCHANGED <<incr, stable, averages, reluctant, quiet>>
       ELSE /\ incr' = [stabilize |-> plan.stabilizeint,
                        flush |-> IF lim.initialized THEN incr.flush ELSE plan.interval]
            /\ stable' = StartMode
            /\ averages' = StartAverages
            /\ reluctant' = Enabled
            /\ quiet' = [n |-> 1, since |-> 0]
    /\ depth' = 0 /\ ran' = << >>
    /\ UNCHANGED <<plan, glues>>

(* probe, elim with the subsumption before it, and what they count. An     *)
(* elimination that completes raises its bound and makes all variables     *)
(* candidates again; one that is cut short leaves candidates or not.       *)
BoundMax == 2
Raised(b) == IF b >= BoundMax THEN b ELSE IF b = 0 THEN 1 ELSE Min({2 * b, BoundMax})
ElimSubsumes == last.subsumephases = stats.done["subsume"]
AfterElim(done) ==
    [done EXCEPT !["elim"] = @ + 1, !["subsume"] = @ + IF ElimSubsumes THEN 1 ELSE 0]

(* preprocess: rounds that leave the limits alone, until one removes no    *)
(* variable and does not raise the bound either.                           *)
PreprocessRound(complete, removed) ==
    /\ running \in {"simplify", "preprocess"} /\ rounds > 0
    /\ \E done \in {AfterElim(stats.done)} :
        /\ stats' = [stats EXCEPT !.done = [done EXCEPT !["probe"] = @ + 1, !["condition"] = @ + 1]]
        /\ last' = [last EXCEPT !.subsumephases = done["subsume"], !.fresh = complete]
    /\ lim' = [lim EXCEPT !.elimbound = IF complete THEN Raised(@) ELSE @]
    /\ rounds' = IF removed \/ lim'.elimbound > lim.elimbound THEN rounds - 1 ELSE 0
    /\ UNCHANGED <<plan, incr, stable, averages, reluctant, depth, running, ran, glues, quiet>>

StartSearch ==
    /\ running \in {"simplify", "preprocess"} /\ rounds = 0
    /\ running' = IF running = "simplify" THEN "idle" ELSE "search"
    /\ UNCHANGED <<plan, stats, lim, incr, last, stable, averages, reluctant, depth, rounds, ran,
                   glues, quiet>>

-----------------------------------------------------------------------------
(* analyze, after propagate has counted the conflict.  It learns a clause  *)
(* and backtracks: with opts.chrono not always as far as the clause says,  *)
(* so that a unit is found above level 0.                                  *)
Conflict(glue, back, unit) ==
    /\ running = "search"
    /\ depth > 0 /\ stats.conflicts < plan.maxConflicts
    /\ back = 0 => unit
    /\ unit /\ back > 0 => plan.chrono
    /\ stats' = [stats EXCEPT !.conflicts = @ + 1]
    /\ averages' = [averages EXCEPT !.current.fast = Updated(@, glue),
                                    !.current.slow = Updated(@, glue)]
    /\ glues' = [glues EXCEPT ![stable] = Append(@, glue)]
    /\ depth' = back
    /\ last' = [last EXCEPT !.fresh = @ \/ unit]
    /\ reluctant' = IF stable THEN Tick(reluctant) ELSE reluctant
    /\ quiet' = IF stable THEN [quiet EXCEPT !.since = @ + 1] ELSE quiet
    /\ ran' = << >>
    /\ UNCHANGED <<plan, lim, incr, stable, running, rounds>>

(* The conflict has a single literal on its highest level: analyze forces  *)
(* that literal, at level 0 if the others are there, and returns.  No      *)
(* clause is learned, no average updated, and reluctant does not tick.     *)
ForcedConflict(back, unit) ==
    /\ running = "search" /\ plan.chrono
    /\ depth > 0 /\ stats.conflicts < plan.maxConflicts
    /\ stats' = [stats EXCEPT !.conflicts = @ + 1]
    /\ depth' = back
    /\ last' = [last EXCEPT !.fresh = @ \/ unit]
    /\ ran' = << >>
    /\ UNCHANGED <<plan, lim, incr, stable, averages, reluctant, running, rounds, glues, quiet>>

(* An empty clause, in propagation or in one of the techniques. *)
Contradiction ==
    /\ running \in {"preprocess", "search"}
    /\ running' = "unsat"
    /\ UNCHANGED <<plan, stats, lim, incr, last, stable, averages, reluctant, depth, rounds, ran,
                   glues, quiet>>

(* A model, a failed assumption, a limit, or termination. *)
LimitHit == lim.conflicts >= 0 /\ stats.conflicts >= lim.conflicts
EndCall ==
    /\ running = "search"
    /\ running' = "idle"
    /\ UNCHANGED <<plan, stats, lim, incr, last, stable, averages, reluctant, depth, rounds, ran,
                   glues, quiet>>

-----------------------------------------------------------------------------
(* stabilizing, which restarting calls first, may change the mode. *)
Asked == On("restart") /\ depth >= 2
Switch ==
    /\ Asked /\ plan.stabilize
    /\ ~(stable /\ plan.stabilizeonly)
    /\ stats.conflicts >= lim.stabilize
ModeNow == IF Switch THEN ~stable ELSE stable
AveragesNow == IF Switch THEN Swapped(averages) ELSE averages
Stretched == Min({(incr.stabilize * plan.stabilizefactor) \div 100, plan.stabilizemaxint})
LimNow ==
    IF Switch THEN [lim EXCEPT !.stabilize = Max({From(Stretched), From(1)})] ELSE lim

(* restarting: in unstable mode by the averages of the mode. *)
GlueHigh ==
    \E a \in {AveragesNow.current} :
        110 * a.slow.num * Divisor(a.fast) <= 100 * a.fast.num * Divisor(a.slow)
Reluctantly == plan.stabilize /\ ModeNow
Restarting ==
    /\ Asked
    /\ IF Reluctantly THEN reluctant.trigger
       ELSE stats.conflicts > lim.at["restart"] /\ GlueHigh

(* rephasing, reducing, ... conditioning.  The facts are about clauses and *)
(* variables: there are redundant clauses, enough variables are inactive,  *)
(* and the assignment is worth a try to condition on.                      *)
Facts == {"redundant", "inactive", "conditionable"}
Reached(t) == stats.conflicts >= lim.at[t]
Due(t, facts) ==
    CASE t = "restart" -> Restarting
      [] t = "rephase" -> stats.conflicts > lim.at["rephase"]
      [] t = "reduce" -> Reached(t) /\ "redundant" \in facts
      [] t = "probe" -> Reached(t) /\ ~(stats.done["probe"] > 0 /\ last.probe = stats.done["reduce"])
      [] t = "subsume" -> Reached(t) /\ (On("reduce") => stats.conflicts = last.reduce)
      [] t = "elim" -> stats.conflicts > lim.at["elim"] /\ last.fresh
      [] t = "compact" -> Reached(t) /\ depth = 0 /\ "inactive" \in facts
      [] t = "condition" -> Reached(t) /\ depth > 0 /\ "conditionable" \in facts

(* The first technique that is due. *)
Chosen(t, facts) ==
    \E i \in 1 .. Len(Techniques) :
        /\ Techniques[i] = t /\ On(t) /\ Due(t, facts)
        /\ \A j \in 1 .. i - 1 : ~(On(Techniques[j]) /\ Due(Techniques[j], facts))

(* An iteration calls a technique or decides. *)
Iteration(t) ==
    /\ stable' = ModeNow
    /\ averages' = AveragesNow
    /\ incr' = [stabilize |-> IF Switch THEN Stretched ELSE incr.stabilize,
                flush |-> IF t = "flush" THEN 3 * incr.flush ELSE incr.flush]
    /\ UNCHANGED <<plan, running, rounds, glues>>

Takes(t) ==
    /\ running = "search" /\ ~LimitHit
    /\ \E facts \in SUBSET Facts : Chosen(t, facts)
    /\ ran' = Append(ran, t)

Counted(t) == [stats EXCEPT !.done[t] = @ + 1]
NextAt(t, delta) == [LimNow EXCEPT !.at[t] = From(delta)]
Interval(t) == plan.interval * (stats.done[t] + 2)

Restart(n) ==
    /\ Takes("restart") /\ Iteration("restart")
    /\ lim' = NextAt("restart", plan.restartint)
    /\ depth' = n
    /\ reluctant' = IF Reluctantly THEN [reluctant EXCEPT !.trigger = FALSE] ELSE reluctant
    /\ quiet' = IF Reluctantly THEN [n |-> quiet.n + 1, since |-> 0] ELSE quiet
    /\ UNCHANGED <<stats, last>>

Rephase ==
    /\ Takes("rephase") /\ Iteration("rephase")
    /\ stats' = Counted("rephase")
    /\ lim' = NextAt("rephase", Interval("rephase"))
    /\ depth' = 0
    /\ UNCHANGED <<last, reluctant, quiet>>

(* reduce, which flushes now and then. *)
Flushing == On("flush") /\ stats.conflicts >= lim.flush
Reduce ==
    /\ Takes("reduce") /\ Iteration(IF Flushing THEN "flush" ELSE "reduce")
    /\ stats' = Counted("reduce")
    /\ \E next \in {NextAt("reduce", Interval("reduce"))} :
        lim' = IF Flushing THEN [next EXCEPT !.flush = From(3 * incr.flush)] ELSE next
    /\ last' = [last EXCEPT !.reduce = stats.conflicts]
    /\ UNCHANGED <<depth, reluctant, quiet>>

Probe(units) ==
    /\ Takes("probe") /\ Iteration("probe")
    /\ stats' = Counted("probe")
    /\ lim' = NextAt("probe", Interval("probe"))
    /\ last' = [last EXCEPT !.probe = stats.done["reduce"], !.fresh = @ \/ units]
    /\ depth' = 0
    /\ UNCHANGED <<reluctant, quiet>>

(* Mutated form: the limit is what it was. *)
SubsumeAgain(marked) ==
    /\ Takes("subsume") /\ Iteration("subsume")
    /\ stats' = Counted("subsume")
    /\ lim' = LimNow
    /\ last' = [last EXCEPT !.fresh = @ \/ marked]
    /\ depth' = 0
    /\ UNCHANGED <<reluctant, quiet>>

Subsume(marked) ==
    /\ Takes("subsume") /\ Iteration("subsume")
    /\ stats' = Counted("subsume")
    /\ \E delta \in Scaled(Interval("subsume")) : lim' = NextAt("subsume", delta)
    /\ last' = [last EXCEPT !.fresh = @ \/ marked]
    /\ depth' = 0
    /\ UNCHANGED <<reluctant, quiet>>

Elim(complete) ==
    /\ Takes("elim") /\ Iteration("elim")
    /\ \E done \in {AfterElim(stats.done)} :
        /\ stats' = [stats EXCEPT !.done = done]
        /\ last' = [last EXCEPT !.subsumephases = done["subsume"], !.fresh = complete]
    /\ \E d \in Scaled(Interval("elim")), e \in Scaled(Interval("subsume")) :
        lim' = [NextAt("elim", d) EXCEPT
                    !.at["subsume"] = IF ElimSubsumes THEN From(e) ELSE @,
                    !.elimbound = IF complete THEN Raised(@) ELSE @]
    /\ depth' = 0
    /\ UNCHANGED <<reluctant, quiet>>

Compact ==
    /\ Takes("compact") /\ Iteration("compact")
    /\ stats' = Counted("compact")
    /\ lim' = NextAt("compact", Interval("compact"))
    /\ UNCHANGED <<last, depth, reluctant, quiet>>

Condition ==
    /\ Takes("condition") /\ Iteration("condition")
    /\ stats' = Counted("condition")
    /\ lim' = NextAt("condition", Interval("condition"))
    /\ UNCHANGED <<last, depth, reluctant, quiet>>

Decide ==
    /\ running = "search" /\ ~LimitHit
    /\ \E facts \in SUBSET Facts : \A t \in plan.techniques \ {"flush"} : ~Due(t, facts)
    /\ Iteration("decide")
    /\ depth < plan.maxLevel
    /\ depth' = depth + 1
    /\ lim' = LimNow
    /\ ran' = << >>
    /\ UNCHANGED <<stats, last, reluctant, quiet>>

NextSchedule ==
    \/ \E pre \in BOOLEAN, n \in 0 .. plan.rounds, bound \in {-1} \cup plan.bounds : StartCall(pre, n, bound)
    \/ \E complete, removed \in BOOLEAN : PreprocessRound(complete, removed)
    \/ StartSearch
    \/ \E back \in 0 .. depth - 1, unit \in BOOLEAN :
           (\E glue \in plan.glues : Conflict(glue, back, unit)) \/ ForcedConflict(back, unit)
    \/ Contradiction \/ EndCall
    \/ \E n \in 0 .. depth : Restart(n)
    \/ Rephase \/ Reduce
    \/ \E found \in BOOLEAN : Probe(found) \/ Subsume(found) \/ Elim(found)
    \/ Compact \/ Condition \/ Decide

-----------------------------------------------------------------------------
(* Between two conflicts or decisions no technique is called twice: none   *)
(* leaves a limit behind that makes it, or one before it in the loop, due  *)
(* again at the same number of conflicts, so that the search goes on       *)
(* (cdcl_loop_with_inprocessing).                                          *)
NoTechniqueTwice == \A i, j \in 1 .. Len(ran) : ran[i] = ran[j] => i = j

(* The sequence of Luby et al., cut off before its first term that reaches *)
(* the limit and then repeated.                                            *)
Luby[i \in 1 .. 31] ==
    LET k == Max({j \in 0 .. 4 : 2 ^ j <= i})
    IN  IF i = 2 ^ (k + 1) - 1 THEN 2 ^ k ELSE Luby[i + 1 - 2 ^ k]
Term(n) ==
    IF plan.reluctantmax = 0 THEN Luby[n]
    ELSE LET cut == Min({i \in 1 .. 31 : Luby[i] >= plan.reluctantmax}) - 1
         IN  Luby[((n - 1) % Max({cut, 1})) + 1]

(* reluctant.hpp:6 "Donald Knuth's version of the Luby restart sequence":  *)
(* in stable mode a restart is pending if and only if as many clauses were *)
(* learned in that mode since the last one as the sequence says, however   *)
(* long it took until the restart could be made, and whatever conflicts    *)
(* only forced a literal meanwhile (analyze.cpp:799 "Reluctant has its own *)
(* 'conflict' counter").                                                   *)
LubyIntervals ==
    running = "search" /\ plan.stabilize /\ plan.reluctant > 0 =>
        (reluctant.trigger <=> quiet.since >= plan.reluctant * Term(quiet.n))

(* Each mode has averages of its own: those in use are the means of the    *)
(* glues learned in this mode, in all calls so far, with geometrically     *)
(* growing weights, and those of the other mode are kept aside.            *)
Weight(w, n, i) == w ^ (i - 1) * (IF n = i THEN 1 ELSE (w - 1) ^ (n - i))
MeanOf(a, s) ==
    /\ a.n = Len(s)
    /\ a.num = FoldSet(LAMBDA i, x : x + s[i] * Weight(a.w, Len(s), i), 0, 1 .. Len(s))
    /\ a.n > 0 => Divisor(a) = FoldSet(LAMBDA i, x : x + Weight(a.w, Len(s), i), 0, 1 .. Len(s))
Means(a, s) == MeanOf(a.fast, s) /\ MeanOf(a.slow, s)
ModesApart ==
    running = "search" =>
        /\ Means(averages.current, glues[stable])
        /\ IF averages.swapped = 0 THEN glues[~stable] = << >>
           ELSE Means(averages.saved, glues[~stable])

(* Restarts are decided by the averages of their own mode, and in stable   *)
(* mode at the intervals of the sequence.                                  *)
RestartsRight == LubyIntervals /\ ModesApart

-----------------------------------------------------------------------------
(* Why no technique is called twice: the inductive invariant. *)
ScheduleSpec == InitSchedule /\ [][NextSchedule]_scheduling

TechniqueNames == DOMAIN NoCalls

ScheduleTypeOK ==
    /\ plan \in Plans /\ stable \in BOOLEAN /\ ran \in Seq(TechniqueNames)
    /\ stats \in [conflicts : Nat, calls : Nat, done : [TechniqueNames -> Nat]]
    /\ lim \in [initialized : BOOLEAN, conflicts : Int, stabilize : Nat, flush : Nat, elimbound : Nat,
                at : [TechniqueNames -> Nat]]
    /\ incr \in [stabilize : Nat, flush : Nat]
    /\ reluctant \in [period : Nat, u : Nat, v : Nat, countdown : Nat, trigger : BOOLEAN]

(* The mode does not change before the next conflict. *)
ModeSettled ==
    \/ ~plan.stabilize \/ (stable /\ plan.stabilizeonly)
    \/ stats.conflicts < lim.stabilize

(* A technique that was called is not due before the next conflict; a      *)
(* restart neither by the limit of unstable mode nor by reluctant doubling. *)
Exhausted(t) ==
    /\ lim.at[t] > stats.conflicts
    /\ t = "restart" => ModeSettled /\ ~(plan.stabilize /\ stable /\ reluctant.trigger)

ScheduleInv ==
    /\ ScheduleTypeOK
    /\ \A i \in 1 .. Len(ran) : Exhausted(ran[i])
    /\ NoTechniqueTwice
=============================================================================
