# A verification project for ignore_gates

The repository asks whether a SAT solver does better when it ignores gate
literals. Gate outputs ("auxiliary variables") are found by a detector and handed
to a modified CaDiCaL, which may eliminate only them (`ELIMAUX`), never branch on
them (`BRANCHAUX`) and resolve them out of learned clauses (`UIPAUX`). This
project models the two detectors and the solver in TLA+, from the call of the
library down to the watches of a clause; checks the models with TLC on small
instances; and proves with TLAPS, for every instance, that the decision queue and
the score heap, the CDCL loop with what is tried before it, local search, what the
library interface keeps between calls, the gate analysis of cnftools and the gate
detection in Kissat with the scripts behind it are correct.

## 1. Inventory

| Part | State | Operations | What is hard | What makes it correct |
|---|---|---|---|---|
| VMTF decision queue (`cadical/src/queue.*`, `decide.cpp`, `analyze.cpp`, `backtrack.cpp`, `compact.cpp`) | doubly linked list, bump stamps, `queue.unassigned` with its cached stamp | add, bump, assign/unassign, flush and compact, shuffle, search for a decision | the pointer is moved only by comparing stamps; compaction leaves the cached stamp stale; the BRANCHAUX search relinks the list it is walking | list sorted by stamp; every unassigned variable reachable from the pointer; the search returns the latest bumped unassigned input |
| EVSIDS score heap (`heap.hpp`, `score.cpp`, same callers) | binary heap, scores, increment | push, pop, update, bump, rescale, shuffle, compact, search | lazy removal, lossy rescaling without rebuilding, sinking of auxiliary variables during the search | best unassigned input returned |
| Scheduling (`internal.cpp`, `restart.cpp`, `averages.*`, `ema.*`, `reluctant.hpp`, `limit.*`) | limits, counters, mode, two sets of averages | one iteration of the search loop, init of limits, change of mode | limits survive calls and are scaled differently by each technique | the loop gets to a decision; restarts follow their own mode |
| CDCL loop (`internal.cpp`, `propagate.cpp`, `analyze.cpp`, `minimize.cpp`, `shrink.cpp`, `backtrack.cpp`, `decide.cpp`, `restart.cpp`) and the searches before it (`lucky.cpp`, `internal.cpp`) | trail, levels, reasons, control stack, learned clauses | propagate, analyze, minimize, shrink, backtrack, restart, decide; local search, saved phases, lucky phases | literals out of order on the trail, forced literals, assumptions and pseudo levels, UIPAUX editing of the clause, tries that are given up | learned clauses entailed and asserting, complete propagation, right answers, termination |
| Local search (`cadical/src/walk.cpp`, `kissat/src/walk.c`) | values, watches or counters, broken clauses, trail of flips, minimum | rounds, flips, saving phases, flushing the trail | the minimum outlives the call; a bounded trail | saved phases have the recorded minimum |
| Clause storage (`watch.*`, `clause.*`, `arena.*`, `collect.cpp`, `reduce.cpp`, `compact.cpp`) | memory, watch lists with blocking literals, reasons, names of variables | allocate, watch, propagate, shrink, reduce, collect by deleting or copying, compact | references held in many places while clauses move | every reference valid; watches find every unit; names keep their meaning |
| Elimination, extension, restoring (`elim.cpp`, `backward.cpp`, `gates.cpp`, `instantiate.cpp`, `extend.cpp`, `restore.cpp`) | occurrence lists, extension stack, witnesses, tainted literals | eliminate (auxiliary) variables, extend a model, restore clauses, traverse, copy | incremental use after elimination | equisatisfiability, models of all added clauses |
| Other inprocessing (`subsume`, `vivify`, `probe`, `ternary`, `decompose`, `block`, `cover`, `condition`, `transred`, `deduplicate`) | clause database, units, extension stack | each technique | interleaving of techniques that assume things about each other's clauses | what is stored is implied; models extend |
| Proof and checker (`proof.cpp`, `checker.cpp`) | clauses known to the checker | derive, strengthen, flush, delete | order of steps; deletion before last use | each derived clause follows by propagation |
| Interface (`solver.cpp`, `external.cpp`, `assume.cpp`, `constrain.cpp`) and its clients (`cadical.cpp`, `parse.cpp`) | API state, assumptions, constraint, reference counters, limits, the termination flag | add, assume, constrain, freeze, melt, limit, solve, simplify, lookahead, cubes, failed, terminate | data that one call leaves for the next; termination from another thread; partially read auxiliary files | an answer is for what was given to that call |
| Model based tester (`mobical.cpp`) | trace, failure, chunks, values, written files | generate, execute, shrink, write, read, replay | reducing keeps the contract of the interface; executions that hit a limit | the written trace fails as before and is minimal |
| cnftools detector (`cnftools/src/gates`, `features/GateStats.h`) | occurrence lists, roots, gates, input marks, shared SAT solver, levels | estimate roots, recognise gates in rounds, time out, compute levels | clauses removed from lists that are iterated, hash-set orders, the clock, a solver that is never reset | clauses partitioned into roots, gates and remainder; gates acyclic and functional |
| Kissat: reading and storing (`parse.c`, `internal.c`, `import.c`, `proplit.h`, `vector.c`, `dense.c`, `check.c`) | imported variables, units, one array of words for all watches | parse, add, propagate, grow and defragment vectors, connect clauses | a vector that grows overwrites its neighbour's free words; clauses in two representations | what the detector sees is the formula |
| Kitten (`kitten.c`, `definition.c`) | klauses, watches, trail, cores | solve, compute a core, shrink, shuffle | repeated solving with what the time before left | answers and cores are right, also with a watch on a low level |
| Kissat detector and scripts (`gates.c` and extractors, `resolve.c`, `kissat/select_aux*.py`) | clauses under units, pipe, used clauses, dependency graph, chosen variables | try a variable, print a gate, read a gate, stop | units learned in mid-pass, two processes on a pipe, a greedy choice of gates, a detector that is killed inside a gate | auxiliary variables follow from the inputs by unit propagation |

How they interact: the detector writes one line `<variable> <TYPE>` per gate; CaDiCaL's
`parse_aux` reads them into `External::aux`; `is_aux` is asked by the decision
searches (queue and heap), by `bump_variables`, by `analyze` and by elimination.
`Solver` translates calls for `External`, which names variables and extends
models, and `Internal`, whose `solve` tries preprocessing, local search and lucky
phases before the loop. The loop calls propagate, analyze, restart,
inprocessing and decide in turn; assigning and unassigning a variable updates
queue and heap as a side effect. Everything inside the solver is one thread;
processes and asynchronous termination are the only real concurrency, the rest of
the difficulty is in the order of calls.

`PROJECT.json` lists the components with their status, and the hazards at the
lines where they bite.

## 2. Modules

| Module | Models | Checked in run |
|---|---|---|
| `VmtfQueue`, `VmtfQueueProofs` | the decision queue and its search; theorems | `vmtf`, `vmtf_no_input` |
| `ScoreHeap` | the score heap and its search | `heap` |
| `Schedule` | what the search loop does next | `heap` |
| `HeuristicsProofs` | theorems about these two | |
| `Cdcl`, `Presearch` | the search loop; what `solve` tries before it | `cdcl` |
| `CdclInvariant`, `CdclProofs` | the inductive invariant of the two; lemmas on trail and backtracking, on conflict analysis, on the loop; theorems | |
| `Walk`, `KissatWalk`, `WalkProofs` | local search of the two solvers; theorems | `storage_walk` |
| `KissatImport` | reading and storing a formula in Kissat | `kissat` |
| `Storage` | watches, clause memory, collection, compaction | `storage_walk` |
| `SatService` | abstract: what incremental solving promises | `inprocess` |
| `ClauseDb` | the clause database and elementary changes to it | `inprocess`, `api` |
| `Elimination`, `Weakening`, `Simplification` | the inprocessing techniques | `inprocess` |
| `Checker` | the internal proof checker | `inprocess` |
| `Inprocessing` | incremental solving with all of these; implements `SatService` | `inprocess`, `elim_backward` |
| `SolverApi`, `ApiClients`, `ApiProofs` | the library interface; programs that use it; theorems | `api` |
| `Mobical` | the model based tester's delta debugging | `api` |
| `GateAnalyzer`, `GateAnalyzerProofs` | the cnftools detector; theorems | `gates` |
| `KissatGates`, `KissatGatesProofs` | the Kissat detector, the pipe, the scripts; theorems | `kissat` |
| `Kitten`, `Definition` | the sub-solver and the extraction of definitions | `kitten` |
| `Recursion` | lemmas on numbers: induction, recursion, least and greatest elements | |

An `MC` module gives the constants of a run their values. `MCScoreHeap`,
`MCStorageWalk`, `MCKissat` and `MCApiClients` join machines that share no variable: a behaviour
is one of one machine, the others stay where they are, so one run explores all of them.

Every module that models code keeps the names of the source where it can. A
definition marked "Mutated form" is the code with a plausible bug; no
specification uses it. `PROJECT.json` pairs each with the property it breaks.

How the modules fit together. `Cdcl` summarises watches as "may pass a clause by
while another false literal can be watched"; `Storage` has the watches themselves
and shows that they suffice. `Inprocessing` summarises the search as learning any
clause of a given set that follows by propagation and answering with any model;
`Cdcl` has the search. `SolverApi` summarises both as an answer to the clauses,
assumptions and constraint found in the solver's own data, and keeps exact what
survives a call. `Schedule` has only the limits and counters the techniques leave.
`KissatGates` takes any unsatisfiable part as a definition; `Kitten` and `Definition` show what
is returned.

### VmtfQueue

`q` holds `links` and the anchors `first` and `last`; index 0 is the null link and
an entry like any other, since the BRANCHAUX search writes through it. `btab`,
`unassigned`, `bumped` and `stamp` are `btab`, `queue.unassigned`,
`queue.bumped` and `stats.bumped`. `Dequeue`, `Enqueue`, `EnqueueFirst` and
`MoveToFront` are the list operations as the code writes them; the last one is the
code inlined in the search and differs from the others in the empty list. The
search is one step per loop iteration. `Aux = {}` is the build without BRANCHAUX,
whose loop is the same without the move. The rest of the solver is the
environment: it assigns, unassigns and bumps in any order, marks variables
inactive and compacts at the root level. A search starts only while an
input is unassigned (`InputLeft`). `CallersSpec` starts one when the caller does, that is, as
long as any active variable is unassigned; section 4 says what happens then.

### ScoreHeap and Schedule

`array` is the heap (`pos` is its inverse and not stored), `stab` the scores,
`inc` the increment. One iteration of `heap::up` or `heap::down` is a step
(`Sift`); the caller goes on when nothing moves. Scores are small integers:
rescaling halves them rounding down, which like the floating-point product is
monotone and not injective. `Sink` is the score -1 the BRANCHAUX search gives to
auxiliary variables. Shuffling and compacting drain the heap and fill it again.

`Schedule` has one action per branch of `cdcl_loop_with_inprocessing`, taken in the
order of the code. A technique sets its limit as the code does, with the
factors of the plan for those that depend on effort. An average is kept as an exact fraction.
A conflict of `propagate` is counted at once. When a single literal of it is on the conflict
level, which chronological backtracking makes possible, `analyze` forces that literal and returns before
it touches averages or reluctant doubling (`ForcedConflict`); so the Luby intervals count
learned clauses, not conflicts.

### Cdcl and Presearch

Clauses are sets of literals. A problem is a record of variables, clauses,
auxiliary variables, assumptions and a constraint. `control` has a frame per
decision level with its decision (0 for a pseudo level) and trail height; `lev`
and `reason` keep stale values of unassigned variables, as the code does.
First-UIP derivation is one step per resolved literal, UIPAUX one step per
auxiliary literal, minimization one pass over the trail, shrinking one block per level.
How far `determine_actual_backtrack_level` jumps, when to restart and what to
decide are choices. `Kept` is the loop of `backtrack` over the trail, a recursive
function. `Presearch` runs on the same trail: phases saved by local search are
decided, assumptions that fail are produced, and the eight lucky strategies assign
variables in their orders and are given up at a conflict.

### Walk, KissatWalk and KissatImport

A flip is a step; which literal of which broken clause is flipped is a choice in
CaDiCaL, and in Kissat the clause is the one the counter of flips names. Both keep
the saved phases apart from the values and compare them with the recorded minimum.
In `KissatImport` a word of the vector array is a tuple (a binary watch, a
blocking literal, a reference, or free), and a vector is a place and a size in that
array; pushing, doubling, stealing the free word behind the end and
defragmenting are as in `vector.c` and `inlinevector.h`.

### Storage

`mem` maps addresses to clauses; an arena is a range of addresses. A collection
follows the code: reasons protected, watches flushed, clauses copied in the order of
literals or in place, references updated, memory freed. Compaction renames with
`names` (`e2i`, `i2e`), moves counters of frozen variables, and maps watch lists.

### Inprocessing

A database `db` has irredundant and redundant clauses, garbage binary clauses that
the proof still knows (`lag`) and that are still watched (`stale`), root units, the
extension stack, and inactive variables. A technique is an operator from a database
to the set of databases the code may leave, depending on the order in which
candidates are tried; long techniques (elimination) are several actions with their
program counter in `job`. Backward subsumption takes the literal of a clause whose
occurrence list is shortest, and these lists have garbage clauses until elimination flushes
them; `job` counts those (`ListSize`), and only lists of one length leave a choice. Every change
appends to `log` what class `Proof` is told; `Checker` replays it. Between calls `Add` and `Assume` taint literals,
and `solve` restores clauses as `restore.cpp` does. `Extend` walks the stack
backwards.

`Inprocessing` implements `SatService` (`ServiceSpec`): the refinement mapping is
the identity on `original`, `assumed`, `state` and `model`, where `model` is the
extended model; each technique is a stuttering step.

### SolverApi, ApiClients and Mobical

A call is an action, except `solve`, which is a procedure with stages
(`already_solved`, `preprocess`, `local_search`, `lucky_phases`, `search`, `reset`,
`clear`, `return`), between any two of which another thread may call `terminate`.
`reset_solving` tests and clears the flag in two steps. `given` and `last` are
what the client knows; the solver answers from its own `assumptions`,
`constraint` and `limits`. The clients are the phases of mobical's traces, the
stand-alone solver with its command-line limits, auxiliary file, DIMACS or iCNF file
(the header reserves the variables; without cubes the formula is solved as it is), and a program
that interleaves calls with care: it drops the constraint itself after a call
that gave up, and asks for cubes only before it has an answer (section 4).

`Mobical` is the other half of the tester: a call is a record, a failure is a
predicate on traces (which calls must have an effect, which values must be
reached), and an execution may hit a limit. All shrinking functions, their loops and the
reader's contract checks are modelled.

The reference counters of `SolverApi` have one entry per variable; `FreezeAll` and
`MeltAll` say what a loop of `freeze` or `melt` calls leaves, in whatever order the literals
come: a counter that reaches `UINT_MAX` stays, and one that is too small wraps to it.

### GateAnalyzer, KissatGates, Kitten and Definition

Clause pointers are positions in the formula, so that equal clauses stay apart.
`index`, `unitc` and `max_literal` are `OccurrenceList`; `roots`, `gates` and
`inputs` are `GateFormula`; `candidates` is tried in vector order, `pool` in the
order of a hash set, that is, in any. `solver` is the SAT solver behind
`fSemantic` with its unterminated clause. `levels` has an entry behind its end
whose first content is chosen (`Garbage`). The clock and the resource limits may
run out wherever the code looks at them.

In `KissatGates` the formula never changes, since the modified Kissat prints gates
and exits. `values` are the units that definitions yield. The extractors
(equivalence, AND, if-then-else, XOR, definition) are sets of the gates they may
return, depending on the order of watches. The pass starts without units: clauses have
two literals or more, and a large clause in which a literal is already true or false at the
start, by a unit of the file, is not represented; it is with the units found during the pass. `pipe` is the text between Kissat and
the script; the detector may be killed at any moment, also inside a gate.

`Kitten` keeps the literals of a klause in their order, the first two are watched,
because `analyze` does not always choose the second from the highest level.
`Definition` is the loop of `kissat_find_definition` over cores, shrinking and
shuffling. What `definition.c:69` reads behind its stack of literals is a value of
its own (`behind`).

## 3. Runs

| Run | What it asks | Bounds |
|---|---|---|
| `vmtf` | the queue stays ordered, the pointer and the decision are right, a search ends | 3 variables, 1 auxiliary, stamps from -1 to 4, both values of `reverse`, both ways of shuffling |
| `vmtf_no_input` (violation) | the assertion on the decided literal when only auxiliary variables are unassigned | 2 variables, 1 auxiliary, 2 bumps |
| `heap` | best decision, end of the search; no technique twice without a conflict in between, restarts by their own mode | 4 variables (a third level of the heap) without, 3 with elimination, compaction and shuffling; plans of 3 to 13 conflicts, so that reluctant doubling shows 1,1,2,1,1,2,4, some conflicts only force a literal, modes change in two calls, and all techniques become due together |
| `cdcl` | entailment, answers, propagation, implication graph, asserting clauses, termination | problems of 2 to 7 variables, one restart: conflicts skip levels, literals stay out of order, assumptions are refuted and implied, a constraint fails, gates are resolved by UIPAUX, lucky strategies succeed and fail |
| `cdcl_uip_assumed` (violation) | the assertion on glue when an auxiliary variable is assumed | 3 variables |
| `storage_walk` | references valid, watches find everything, names keep their meaning; saved phases have the recorded minimum; Kissat's counters, stack and trail agree | storage: 3 formulas of up to 4 variables, 2 learned clauses, 4 decisions, 2 collections, 14 addresses; local search: 3 or 4 variables, 3 calls, 6 flips; 12 steps with a trail of a few flips |
| `inprocess` | models extend to all added clauses, copies are complete, the proof is accepted, the abstract service is implemented | 7 instances of 3 or 4 variables and 3 to 5 clauses, each with other options, and one or two calls with new clauses and assumptions in between; an extension stack of more than 2 entries stops weakening |
| `elim_backward` (violation) | whether backward subsumption removes only satisfied or subsumed clauses | one instance of 9 variables |
| `api` | answers, cores and unknown results belong to the call, counters are exact, termination ends a call, exit code of the stand-alone solver, reduction of traces | 2 variables, 2 clauses (the tester keeps one for its second phase), 2 phases, counters saturating at 3, one `terminate`; 9 DIMACS files, 3 auxiliary files; traces of up to two rounds with failures of up to two needed calls, and one execution that hits a limit |
| `gates` | partition, acyclic gates, patterns that determine, monotonicity, levels, termination | all formulas of at most 3 clauses over 3 variables, the same with clauses that are there twice, 14 circuits of 2 or 3 gates over 5 or 6 variables |
| `kissat` | units implied, each auxiliary variable forced, inputs suffice; what is imported is the file | all formulas of at most 4 clauses over 3 variables and 6 circuits over 4, both scripts, stopped anywhere; files of 5 clauses over 4 variables, vectors that grow and are defragmented at 10 words |
| `kitten` | answers and cores, definitions, termination | environments of one to five variables, up to 3 cores, a restart after every conflict |

Every bound is a constant in the `.cfg` or a definition in the `MC` module. They
are small, but the interesting cases are in them: each property is broken by a
mutant under the same bounds. Invariants with a name ending in `Right` are
conjunctions of named parts, each with its own comment.

Fairness: the solver, the detectors and Kitten are single-threaded loops, so the
search of the queue (`WF_vars(Search)`), heap operations with the search, the CDCL
loop, the analysis and Kitten (`WF_vars(Next)`) are assumed to keep running until
they return. In `api` the thread that runs `solve` is scheduled (`Progress`), but
the search need not answer: `TerminateEnds` holds although it may go on for ever.
The tester is one process (`WF_testing(Test)`). Nothing is assumed about which
heuristic choice is made. The Cdcl run bounds restarts, which the restart interval
of the code does as long as it grows; termination between restarts is what
`Terminates` shows. Deadlock checking is off where a bound ends the behaviours
(stamps, scores, flips, collections, calls); it is on elsewhere, with an explicit
step for a finished program.

## 4. What the runs show about the code

Properties that hold are the normal result. The code and what it says of itself
disagree in three places that have a run of their own:

- `analyze.cpp:738`. UIPAUX erases an auxiliary literal without a reason from the
  learned clause. Without assumptions no such literal exists, because BRANCHAUX never
  decides one; with an assumed one the clause is not entailed
  (`cdcl_uip_assumed`).
- `backward.cpp:84`. The flag `satisfied` is set by one clause of the occurrence list and
  not reset for the next, which is then removed although no literal of it is
  true (`elim_backward`). It needs a root unit that elimination found but did not propagate.
  In the run the candidate is {-4, 5}, and the list of -4, with 4 entries, is shorter than that of 5, with 5
  entries. {3, -4, 6} has the unit 3 and is satisfied; {-4, -6}, next in the list, is removed
  with it. The modified solver does the same on these clauses: its model has 4 and 6, which
  falsifies {-4, -6}. With the default `elimsubst` the search for equivalences propagates
  such units first, which is why the instances of `inprocess` do not meet it.
- `decide.cpp:16`. With BRANCHAUX the queue search skips auxiliary variables and does not ask
  whether an input is left. `CDCL` calls it whenever `satisfied` is false, which an
  unassigned auxiliary variable is enough for: eliminated variables stay unassigned until
  compaction, and units may leave auxiliary variables open. With one of them the search
  ends at the null link, so that the decision is the literal 0, against the assertion at
  `restart.cpp:81` (`vmtf_no_input`); with two it walks in a circle for ever. With the clause {1, 2} and 2
  auxiliary, the solver gets there once it has decided 1.

The rest was met while modelling. The models follow the code there, and their
properties are stated for what the code does:

- The heap search, too, sinks auxiliary variables for ever when no input is left, instead of
  reaching the abort at `decide.cpp:57`. All properties of queue and heap except `DecisionIsVariable`
  are stated while an input is left. Lucky phases decide auxiliary variables even with BRANCHAUX.
- `GateAnalyzer.h:250`. The solver of the semantic check is never reset and a literal
  leaks into the next check, so that GENERIC gates need not determine their output
  (`GatesRight` says so only of patterns). `GateAnalyzer.h:149`: an input is lost
  when the output has a smaller number. A timeout at `GateAnalyzer.h:93` drops the
  roots taken last (`PartitionInTime`); the array at `GateStats.h:57` is one short
  (`LevelsAssigned`).
- `select_aux.py` does not look for cycles, only `select_aux_graph.py` does
  (`InputsSuffice`), and at `select_aux.py:22` it reads empty lines for ever when the
  detector is killed inside a gate.
- `definition.c:261`. Kissat asserts the unit that a one-sided core proves, and later
  extractors ignore the literals it makes false, but the gates are printed without the
  unit. When the script drops the gate of such a variable, because it would close a
  cycle, the variable is an input, and after a decision against the unit the gates that
  ignored its literal say nothing. In the clauses of 1 = 2 AND 5 and of 4 = 3 AND 5, with
  {2,1,3,4}, {2,1,3,-4}, {2,1,-3,4}, {2,1,-3,-4}, {-3,5}, {-3,-1}, {3,-5,1,-2}, the
  unit is 2, the auxiliary variables are 1, 3 and 4, and with 2 false 3 and 4 are left
  without a value and without a conflict: the solver runs into `decide.cpp:57`.
  The proof of `InputsSuffice` found this beyond the bounds of the run, and the
  property now has the hypothesis `Agrees`: no input contradicts a unit.
- `solver.cpp:535`. `add (0)` leaves the state UNKNOWN although a constraint is open.
  `solver.cpp:625`: a constraint survives a call that gave up, assumptions do
  not. `freeze` of a new variable, `lookahead` and `generate_cubes` in the state
  SATISFIED undo the trail that `val` reads; `generate_cubes` (0) leaves its status
  uninitialized. The careful program in `ApiClients` avoids these.
- `Solver::copy` does not restore tainted clauses, so a copy made after `add` may
  extend models wrongly; `CopyModels` is stated for moments without tainted literals.
  `write_dimacs` restores first.
- mobical: `Reader::parse` rejects a written trace with `val` but no `solve`, and
  accepts `reserve` before `set`, where the solver aborts; `--do-not-shrink` is ignored when an
  output file is given.
- `walk.cpp:381`. The minimum is kept over all calls, so later calls with other
  clauses may never save phases. In Kissat `kissat_search` ignores the result of
  the initial walk, and the counter of flips is incremented twice per step.
- After the first change of mode the averages of the new mode are 0, and 0 <= 0
  makes a restart due. Consecutive conflicts may exceed the limit on conflicts.
- `compact.cpp:85`. The counter of a frozen variable that is fixed may end at another
  slot, and a later melt underflows it to UINT_MAX, where it stays. Nothing is lost but a
  chance to eliminate. Compaction also leaves `queue.bumped` stale (`compact.cpp:248`), which is
  harmless: proved below.
- `definition.c:69`. The size handed to the macro that adds the literals of a gate clause
  counts one word too many, so that one word behind the stack is read.
- `GateAnalyzer.h:219` relies on the "absence of redundancy" of clauses, which nobody
  checks. With a clause that is there twice, FULL and EQIV are recognised although
  the output is not determined; `PatternsDetermined` has `NoDuplicates` as its
  hypothesis.
- `kitten.c:1091`. `analyze` may watch a literal below the highest level. The
  run shows that answers stay right.

## 5. Proofs

All theorems hold for every value of the constants that the named assumption of
the module admits; TLC evaluates these assumptions in the runs.

| Module | Theorems | Assumed of the constants |
|---|---|---|
| `VmtfQueueProofs` | `QueueCorrect` (the inductive `QueueInv`), `QueueStaysOrdered`, `UnassignedPointerCorrect`, `NextDecisionCorrect` | `QueueAssumption`: types; variables are positive and finitely many |
| `HeuristicsProofs` | `HeapRight` (the inductive `HeapInv`), `BestScoreRight` | `HeapAssumption`: types; variables are positive and finitely many |
| `HeuristicsProofs` | `ScheduleInvariant` (the inductive `ScheduleInv`), `NeverTwice` | `ScheduleAssumption`: types; intervals, factors and window sizes are positive |
| `CdclProofs` | `SolveInvariant` (the inductive `SolveInv`), `LearningRight`, `AnswersRight`, `PropagationRight`, `ImplicationGraphRight` | `CdclAssumption`: types; finitely many variables, clauses of at least two literals; and as a hypothesis `AuxNotAssumed` |
| `GateAnalyzerProofs` | `AnalysisRight` (the inductive `AnalysisInv`), `PartitionRight`, `AcyclicRight`, `GatesInvariant` (the inductive `GatesInv`), `GatesAreRight` | `InputsAssumption`: formulas are sequences of finite clauses |
| `KissatGatesProofs` | `KissatInvariant` (the inductive `KissatInv`), `DetectorIsRight`, `InputsAreEnough` | `KissatAssumption`: finite formulas of finite clauses with two literals or more, none of them tautological |
| `WalkProofs` | `WalkInvariant` (the inductive `WalkInv`), `WalkIsRight`, `KissatWalkInvariant` (the inductive `KissatWalkInv`), `KissatWalkIsRight` | `WalkAssumption`: types; finitely many clauses, each with a literal, each literal of it a variable's; `KissatWalkAssumption`: types; clauses have a literal and are not tautological, which is how Kissat stores them |
| `ApiProofs` | `ApiInvariant` (the inductive `ApiInv`), `CountersRight`, `UnknownIsCaused`, `AnswerInvariant` (the inductive `AnswerInv`), `AnswersRight`, `AppInvariant` (the inductive `AppInv`), `ExitCodeRight` | `ApiAssumption`, `ClientAssumption`: types; finitely many variables; files are sequences; literals of calls, files and cubes are those of the variables, limits have the names that `Solver::limit` knows |

**VmtfQueue.** `unassign` decides whether to move the pointer by comparing with
`queue.bumped`, so correctness of the pointer depends on what that number means when
it is stale. `PointerExact` says it: no unassigned variable has a stamp above it,
and no variable with a stamp up to it is behind the pointer. At the root level some
stamp is not above it, which the reversed queue needs when it adds a variable in
front. `SearchBehind` is the same for a running search, with the local variable in
the place of the pointer, and with an input left, so that the walk never falls off
the list; `CompactBehind` for a compaction under way. `StampBound` makes a new stamp
larger than all others. Four lemmas on the list operators say that each keeps a
list sorted by stamp; one lemma per action uses them and then treats the pointer.

**ScoreHeap.** In the middle of `up` and `down` the heap is not ordered: `HeapOrdered`
exempts the element that moves and demands instead that its children are not larger
than its parent, and, when it goes down, that it is not larger than its parent
itself. The order is that of scores only. The comparison of the code breaks ties by
index, but rescaling makes scores equal without looking at indices, so that the
order with ties is not an invariant. `NothingLost` says where an unassigned
variable is while the heap is drained for shuffling or compaction, `NothingTwice`
that it is there once. That the root is the best element is an induction along
halves of positions, for which the least position with a larger score is taken
(`LeastElement`).

**Schedule.** `Exhausted` says why a technique that was called is not due again: its
limit is above the number of conflicts, and every other technique leaves that limit
alone or moves it to a later conflict (elimination moves the one of subsumption, too).
For a restart this is not enough, since the limit counts in unstable mode only: the mode
must not change before the next conflict (`ModeSettled`), and the trigger of reluctant
doubling is off. A change of mode sets the limit of the next one at least one conflict
ahead, however small `stabilizefactor` is.

**Cdcl and Presearch.** `CdclInvariant` has the parts of `SolveInv`:

- `Shape`, `Ordered`, `Decided`: the trail has each variable once, a frame starts
  where its decision is, and before it there are only literals of lower levels; after
  it, too, with chronological backtracking. A literal above the root level without a
  reason is the decision of its frame.
- `Graph` and `Sound`: a reason is unit under the literals before it, and what is on
  the trail follows from the formula and the decisions up to its level. `Sound` is
  what makes a learned clause entailed, and the answer 20 right at level 0.
- `Framed`: for each frame, a clause has a true literal of a lower level or two
  literals that are not false before the frame. Backtracking, which keeps literals
  out of order and propagates again from the frame on, needs it for `PropagationInv`.
- `AssumptionsDecided`, `UnitsAssigned`: what the first levels are, and that root
  units are on the trail, for the answers.
- `PropagationInv`, `ConflictInv`, `AnalysisInv` (that of `CdclInvariant`): what holds
  of the clause under way in propagation, of the conflict, and of the clause that
  is derived: it follows, its literals are false, those on lower levels are
  collected, and one literal of the highest level is left at the end. Minimization and
  shrinking replace a literal by others that its reason follows from.
- `TaskInv`: the states of the searches before the loop. `AuxInv` says that with UIPAUX
  no decision is auxiliary, so that an auxiliary literal always has a reason to resolve
  with. Lucky phases decide auxiliary variables and are outside of it, but
  learn nothing.

`AuxNotAssumed` (with UIPAUX no auxiliary variable is assumed or in a constraint) is needed:
the run `cdcl_uip_assumed` shows the wrong clause without it. Problems without
UIPAUX, and all that is asked without assumptions, satisfy it.

**GateAnalyzer.** `PartitionInTime` needs to know what the index holds: `IndexHolds`
says that each list has the clauses of a set that contain its literal, each once.
`OccurrenceList::remove` takes the last entry off a list that does not have the clause;
the lemmas `RemoveOneIs` and `RemoveAllIs` show that this never happens, also in
`estimateRoots`, which empties one list first. `Apart` and `Covered` are then
the two halves of the partition. `GatesAcyclic` is inductive with `OutputsGone`: no
clause that is left has the variable of a gate, so that gates found later are
never constrained by it, and the set of gates that is extended by a new one has the
same unconstrained member as before. Since clauses are not tautological
(`FormulaRight`), no clause defines a gate in both directions.

`GatesInv` adds what `GatesRight` needs. Its three parts have one argument each:

- `PatternsDefine`: `PatternDetermines` shows for each pattern (TRIV, AND, OR, EQIV, FULL)
  that the clauses leave one value for the output, whatever the other variables
  are. For the full gate this is counting: without clauses that are there twice, the
  number of clauses is only reached when every choice of polarities of the inputs has one.
  That all outputs are determined together (`ManyGates`) is an induction on the number
  of gates, which takes away the gate whose output the clauses of the others do not
  constrain; `GatesAcyclic` has it.
- `InputsExact`: `inputs` is closed under the inputs of gates and a subset of every
  closed set. A gate is added after its output has been marked, and what is marked
  later never has its variable, since no clause with it is left (`OutputsGone`, and the
  last conjunct for root clauses). Hence the flag `notMono`, set once, stays exact.
- `AllReached` and `LevelsExact`: a candidate is a literal of a root or an input of
  a gate, so that every gate is reached from the roots; breadth-first search gives a
  level to what is reached, since the loop ends only when nothing is next.

**KissatGates.** Each extractor has a lemma that its clauses leave one value for the
output, whatever the other variables are, as long as the literals it ignored are
false (`Extracted`). For XOR this is the parity of the true literals: flipping them, or them and the
output, is an even number of sign changes, for which there is a clause. In
`KissatInv`, `Fixes` says it of every gate in the pipe and behind it. It does not get
lost when more units are learned, since it asks only for units that are known then to hold.
`CoreOf` says that the gate of a unit is the core that proves it. For `EachForced` take
the result of propagation with one variable left open: both ways to close it satisfy
the formula, so all units hold, and `Fixes` is contradicted. `InputsSuffice` needs the
order of the graph: among the variables that are not settled (they have a value, and so has what they
depend on) one has only settled predecessors (`AcyclicFirst`); units among
these hold, because inputs agree with them and cores force the others, so a clause
forces it. That propagation has reached its end after one round per variable and one more
is a count of literals (`PropagatedIs`).

**Walk and KissatWalk.** In `WalkInv` the watches are one of the choices `RightWatches` of
the values, and stay so: a flip gives new watches to the clauses that watched the literal
that becomes false, and to the broken clauses that it makes true; every other clause keeps a true
watch. `SavedInv` speaks of the first call only, since the minimum is kept over the calls
while clauses and assumptions change. `leastEver` is never above the minimum of the running round,
so that an answer 10 means 0 broken clauses.

In `KissatWalkInv` the stack has the falsified clauses and `pos` their places.
`pop_unsat` moves the last clause into the gap, so that places of popped clauses are
stale; `PopAll` and `PushAll` take `StackOf` through all clauses of a flipped
literal, by induction on their numbers. The values are total, so the literal that
is picked is false and its negation true, and one flip changes a counter by one at
most (`CountFlipped`). `TrailInv` is what `KissatWalkRight` lacks to be inductive: applied
to the saved phases, the whole trail gives the current values, not only its front the
best assignment. `FlippedTail` says that flips that are saved and the ones moved to the front
give the same assignment, which a flush of the trail needs. `best > 0` implies that the
minimum has become smaller, so that `save_final_minimum` may skip the saving otherwise.

**SolverApi and ApiClients.** `FrozenCounted` needs to know when the literals of a
constraint are frozen: only when it is complete. An answer melts the literals of the
constraint it takes along without asking whether they are frozen, and a counter that is
0 would wrap. `OpenConstraint` says that this never happens to these clients: an incomplete
constraint with literals is one that is being given, in the state ADDING, by a client
that gives nothing else. `add (0)` of a clause would break it (section 4), which the careful
program avoids. Lemmas on the two tables (`MeltAssumptions`, `MeltConstraint`,
`FreezeConstraint`, `FreezeAssumption`, `FreezeBoth`, `MeltBoth`) have all the
arithmetic, saturation at `UINT_MAX` included; a counter that is not saturated is exact, so
that no melt wraps it. For `UnknownHasCause`, `LimitsGiven` follows a limit from the call
that gives it to the end of the next call of solve, and `FlagHasCause` follows
`termination_forced` through the stages: before `reset_solving` it may be set for a limit or by a
callback, after it only by another thread, since the test and the store of
`reset_solving` leave it cleared or hit by a call that came later.

`AnswerForGiven` relates the solver's data to what the client believes it gave, and both
to the answer; `AnswerInv` has one part for each link:

- `RootSound`: what propagation and probing find on the root level is true in every
  model of the clauses. For propagation this is an induction along its rounds
  (`ClosureSound`, with the set of all sound sets of literals as the range of the recursive
  function).
- `ConstraintSound`: `constrain (0)` drops literals that root units decide. What is left
  says the same as all of it in every model of the clauses, and clauses are only added; so
  the cores with the remaining literals are cores with all of them (`ConstraintCore`), and
  a model found with them satisfies it (`ModelAnswers`, which extends a model over the
  variables known so far to all variables).
- `TrailFits`: through the stages of solve, with the model or core in hand until
  `reset_solving` and the return. Outside, a trail that is left behind is only read in a state
  that says there is an answer; a call that changes the clauses or the variables takes that
  state back.
- `GivenHeld` and `LastHeld`: assumptions and constraint are those of the client, for
  this call and for the one answered last. After a limit or a request for termination the
  solver drops assumptions but keeps the constraint. `HasGiven` says in which states the client
  accounts for it: the tester gives another one before it assumes anything, the program drops
  it, and the stand-alone solver has none.

`AppRight` compares the exit code with the file, which the solver never sees as a whole.
`AppInv` adds to `AnswerInv` what the program did with it so far:

- `AuxRead`: the names stored are those before the position in the auxiliary file; every
  later state but the error state has all of them.
- `CnfRead`: the literals of the open clause are those since the last zero, and the
  clauses in the solver have the models of the clauses before the position. The two sets
  are not equal: `Solver::add` leaves tautologies out (`ZeroModels`).
- `FileSolved`: this stays so when clauses over failed assumptions are added, which follow
  from the clauses since the failed assumptions are a core (`CoreNegated`, from
  `TrailFits`); the assumptions are literals of the cube that is under way; and unless some
  answer was inconclusive, the file refutes each cube before it. For this the failed
  literals must be read before the first `add` resets them.
- `VerdictFits`: a positive exit code is that of the last call, whose model is still
  there; 20 with cubes means that the last cube was refuted, too, or that there was an
  inconclusive one, which the verdict turns to 0. A model over the variables the solver
  knows is one of the file (`ModelOfFile`).

`Recursion` has what these proofs need of the natural numbers: induction for sets of
numbers, since the induction theorems of the library have operators as parameters;
that functions defined by recursion exist; and least and greatest elements.

Only model-checked: termination and the other liveness properties (liveness under
fairness is outside this prover); the refinement of `SatService`; `RestartsRight` of
`Schedule` (the Luby sequence is given up to its 31st term, and the averages are sums over
data); and everything about the modules
`KissatImport`, `Storage`, the inprocessing modules, `Mobical`, `Kitten` and `Definition`.

## 6. Not modelled

Options, statistics, messages and signals, on which no result depends; the rest of Kissat, which
exits at `search.c:168` after the gates are printed; command line, hashing and statistics of
cnftools; the shell scripts, which are straight sequences of commands, and the
evaluation. Inside modelled parts: effort, time and memory limits appear only where
a result depends on them, and then as a choice to stop; characters of input files;
which candidate a technique takes next. `PROJECT.json` has the reason for each.

## 7. Plan

1. Theorems: that a step of `Inprocessing` maps to a step of `SatService`, given that
   each technique keeps models extendable; the
   words of `KissatImport`.
2. Instances: `inprocess` with two techniques' options combined; `storage_walk` with a
   formula of five variables.
3. A refinement of the propagation of `Cdcl` by `Storage`.
