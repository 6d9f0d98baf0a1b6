-------------------------------- MODULE Walk --------------------------------
(***************************************************************************)
(* Local search in CaDiCaL (walk.cpp), as local_search and rephase call    *)
(* it.  A round starts from the saved phases, with the assumptions as      *)
(* values that are never flipped, and flips literals of broken clauses.    *)
(* A clause that is not broken is watched by one of its true literals.     *)
(* The phases are saved when fewer clauses are broken than in any round    *)
(* before, also of earlier calls of solve.                                 *)
(*                                                                         *)
(* The scores that bias the choice of a literal are left out: any literal  *)
(* of any broken clause may be picked.  Garbage collection has removed the *)
(* variables of the root level from the clauses.                           *)
(***************************************************************************)
EXTENDS Integers, Sequences, FiniteSets

CONSTANTS
    Walks,      \* what is searched: records of the set vars of active variables,
                \* the set units of literals of other variables that are true on
                \* the root level, and the sequence calls, for the calls of solve,
                \* of records of the set clauses and the sequence assumptions
    MaxRounds,  \* lim.localsearch
    MaxFlips    \* bound on the flips in a round: walker.limit

ASSUME WalkAssumption ==
    /\ MaxRounds \in Nat /\ MaxFlips \in Nat
    /\ \A w \in Walks :
          /\ w.vars \subseteq Nat \ {0} /\ w.units \subseteq Int
          /\ Len(w.calls) \in Nat \ {0} /\ DOMAIN w.calls = 1 .. Len(w.calls)
    /\ \A w \in Walks : \A k \in DOMAIN w.calls :
          /\ {w.calls[k].assumptions[i] : i \in DOMAIN w.calls[k].assumptions} \subseteq Int
          /\ IsFiniteSet(w.calls[k].clauses) /\ {} \notin w.calls[k].clauses
          /\ \A c \in w.calls[k].clauses : \A l \in c : l \in Int /\ {l, -l} \cap w.vars # {}

VARIABLES
    work,        \* the member of Walks
    call,        \* number of the call of solve
    round,       \* number of the round of local_search, 0 in walk
    vals,        \* the set of literals that are true
    watch,       \* watched literal of the clauses that are not broken, else 0
    least,       \* minimum: fewest broken clauses in this round
    leastEver,   \* stats.walk.minimum, -1 at the start for LONG_MAX
    saved,       \* phases.saved as a set of literals
    prev,        \* phases.prev, which is empty before the first round
    flips,       \* number of flips in this round
    walkResult,  \* what the last round returned
    at           \* "start" or "flip" in a round, "idle" between calls

walker == <<work, call, round, vals, watch, least, leastEver, saved, prev,
            flips, walkResult, at>>

Var(l) == IF l < 0 THEN -l ELSE l
TotalOver(V) == {T \cup {-v : v \in V \ T} : T \in SUBSET V}

WalkClauses == work.calls[call].clauses
Assumed == {work.calls[call].assumptions[k] : k \in DOMAIN work.calls[call].assumptions}

(* The values on level 0 and 1: those of level 1 are never flipped. *)
FixedLits == work.units \cup Assumed
Flippable(l) == Var(l) \in work.vars /\ l \notin FixedLits /\ -l \notin FixedLits

Broken(w) == {c \in DOMAIN w : w[c] = 0}
FalseClauses(A) == {c \in WalkClauses : c \cap A = {}}

InitWalk ==
    /\ work \in Walks
    /\ call = 1 /\ round = 1
    /\ vals = {}
    /\ watch = << >>
    /\ least = 0 /\ leastEver = -1
    /\ saved \in TotalOver(work.vars)
    /\ prev = {}
    /\ flips = 0
    /\ walkResult = 0
    /\ at = "start"

(* Mutated form: a round saves its own minimum. *)
SaveMinimumOfRound(n, A) ==
    IF n < least
    THEN leastEver' = n /\ saved' = {l \in A : Var(l) \in work.vars}
    ELSE UNCHANGED <<leastEver, saved>>

(* walk_save_minimum *)
SaveMinimum(n, A) ==
    IF leastEver = -1 \/ n < leastEver
    THEN leastEver' = n /\ saved' = {l \in A : Var(l) \in work.vars}
    ELSE UNCHANGED <<leastEver, saved>>

(* walk_round gives up: an assumption is false, or a clause has only false *)
(* assumptions.                                                            *)
RoundFails ==
    \/ \E l \in FixedLits : -l \in FixedLits
    \/ \E c \in WalkClauses : \A l \in c : ~Flippable(l) /\ l \notin FixedLits

StartFailed ==
    /\ at = "start" /\ RoundFails
    /\ walkResult' = 20
    /\ prev' = saved
    /\ at' = "idle"
    /\ UNCHANGED <<work, call, round, vals, watch, least, leastEver, saved, flips>>

(* A true literal of each clause that has one, 0 for the broken clauses. *)
WatchesOf(c, A) == IF c \cap A = {} THEN {0} ELSE c \cap A
RightWatches(C, A) ==
    {w \in [C -> {0} \cup (A \cap UNION C)] : \A c \in C : w[c] \in WatchesOf(c, A)}

(* local_search starts from phases.prev, walk from the decision phases. *)
StartRound ==
    /\ at = "start" /\ ~RoundFails
    /\ LET P == IF round > 0 /\ prev # {} THEN prev ELSE saved
           A == FixedLits \cup {l \in P : -l \notin FixedLits}
           n == Cardinality(FalseClauses(A))
       IN  /\ vals' = A
           /\ watch' \in RightWatches(WalkClauses, A)
           /\ least' = n
           /\ SaveMinimum(n, A)
    /\ flips' = 0
    /\ at' = "flip"
    /\ UNCHANGED <<work, call, round, prev, walkResult>>

(* walk_flip_lit, the second half: clauses watched by -l get another true  *)
(* literal or become broken.                                               *)
Replacements(w, l, A) ==
    {[c \in DOMAIN w |-> IF w[c] = -l THEN r[c] ELSE w[c]] :
        r \in RightWatches({c \in DOMAIN w : w[c] = -l}, A)}

(* The first half: broken clauses with l are watched by it. *)
Made(w, l) == [c \in DOMAIN w |-> IF w[c] = 0 /\ l \in c THEN l ELSE w[c]]

Flip(c, l) ==
    /\ at = "flip" /\ flips < MaxFlips
    /\ c \in Broken(watch)
    /\ l \in c /\ Flippable(l)
    /\ LET A == (vals \ {-l}) \cup {l}
       IN  /\ vals' = A
           /\ \E w \in Replacements(Made(watch, l), l, A) :
                 /\ watch' = w
                 /\ least' = IF Cardinality(Broken(w)) < least THEN Cardinality(Broken(w))
                             ELSE least
                 /\ IF Cardinality(Broken(w)) < least THEN SaveMinimum(Cardinality(Broken(w)), A)
                    ELSE UNCHANGED <<leastEver, saved>>
    /\ flips' = flips + 1
    /\ UNCHANGED <<work, call, round, prev, walkResult, at>>

(* The round ends without broken clauses, at its limit, or because it is   *)
(* terminated.  local_search goes on with the next round.                  *)
EndRound ==
    /\ at = "flip"
    /\ walkResult' = IF least > 0 THEN 0 ELSE 10
    /\ prev' = saved
    /\ IF least > 0 /\ round \in 1 .. MaxRounds - 1
       THEN at' = "start" /\ round' = round + 1
       ELSE at' = "idle" /\ UNCHANGED round
    /\ UNCHANGED <<work, call, vals, watch, least, leastEver, saved, flips>>

(* The search saves other phases, and rephasing walks once: Internal::walk. *)
RephaseWalk ==
    /\ at = "idle" /\ round > 0
    /\ saved' \in TotalOver(work.vars)
    /\ round' = 0
    /\ at' = "start"
    /\ UNCHANGED <<work, call, vals, watch, least, leastEver, prev, flips, walkResult>>

(* The next call of solve; the phases and the global minimum stay. *)
CallAgain ==
    /\ at = "idle" /\ call < Len(work.calls)
    /\ call' = call + 1 /\ round' = 1
    /\ at' = "start"
    /\ UNCHANGED <<work, vals, watch, least, leastEver, saved, prev, flips, walkResult>>

NextWalk ==
    \/ StartFailed \/ StartRound
    \/ \E c \in DOMAIN watch : \E l \in c : Flip(c, l)
    \/ EndRound \/ RephaseWalk \/ CallAgain

-----------------------------------------------------------------------------
(* The watches stay exact through flips that make and break clauses: a     *)
(* clause has a watch, which is true, if and only if it is not broken, and *)
(* assumptions hold.  Before the first search the saved phases falsify just *)
(* stats.walk.minimum clauses, so that they are a model when it is 0; a    *)
(* later round may return 10 and leave other phases.                       *)
WalkRight ==
    /\ at = "flip" => /\ watch \in RightWatches(WalkClauses, vals)
                      /\ FixedLits \subseteq vals
                      /\ \A l \in vals : -l \notin vals
    /\ call = 1 /\ round > 0 /\ leastEver # -1 => Cardinality(FalseClauses(saved \cup FixedLits)) = leastEver
    /\ walkResult = 10 /\ at = "idle" => leastEver = 0

-----------------------------------------------------------------------------
(* Why the watches and the saved phases are right: the inductive invariant. *)
WalkSpec == InitWalk /\ [][NextWalk]_walker

WalkTypeOK ==
    /\ work \in Walks /\ call \in DOMAIN work.calls /\ round \in Nat
    /\ leastEver \in Nat \cup {-1}

Consistent(A) == A \subseteq Int /\ \A l \in A : -l \notin A

(* No round has fewer broken clauses than all rounds so far. *)
RoundInv ==
    at = "flip" => /\ watch \in RightWatches(WalkClauses, vals)
                   /\ FixedLits \subseteq vals /\ Consistent(vals)
                   /\ least \in Nat /\ leastEver \in 0 .. least

(* The minimum belongs to the saved phases while its clauses are there.   *)
SavedInv ==
    call = 1 /\ round > 0 /\ leastEver # -1 => Cardinality(FalseClauses(saved \cup FixedLits)) = leastEver

WalkInv ==
    /\ WalkTypeOK /\ RoundInv /\ SavedInv
    /\ Consistent(saved) /\ Consistent(prev)
    /\ walkResult = 10 => leastEver = 0
=============================================================================
