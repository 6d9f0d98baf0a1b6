------------------------------ MODULE ScoreHeap ------------------------------
(***************************************************************************)
(* The EVSIDS scores of CaDiCaL and the binary heap over them (heap.hpp,   *)
(* score.cpp), used for decisions in stable mode: adding variables,        *)
(* assigning and unassigning, bumping and rescaling, shuffling,            *)
(* compacting, and the search of next_decision_variable_with_best_score    *)
(* (decide.cpp), which in the BRANCHAUX build sinks every auxiliary        *)
(* variable it meets.  An iteration of heap::up and of heap::down is one   *)
(* step, the caller goes on when the element has come to rest.             *)
(*                                                                         *)
(* Scores are integers.  Rescaling halves them, rounding towards zero: as  *)
(* the multiplication of doubles with a factor below one in the code, it   *)
(* is monotone but may map different scores to the same one.               *)
(***************************************************************************)
EXTENDS Integers, Sequences, FiniteSets

CONSTANT Setups  \* records of the fields below: options, the build, and bounds

ASSUME HeapAssumption ==
    \A s \in Setups :
        /\ s.vars \subseteq Nat \ {0}
        /\ IsFiniteSet(s.vars)
        /\ s.aux \subseteq s.vars
        /\ s.sink \in Nat \ {0}
        /\ s.maxScore \in Nat
        /\ s.inprocessing \in BOOLEAN
        /\ s.maxAnalyzed \in Nat
        /\ s.shuffles # {} => s.maxScore >= Cardinality(s.vars)
        /\ s.shuffles \subseteq {"reverse", "random"}

VARIABLES
    setup,     \* never changes
    array,     \* the heap; pos is its inverse
    stab,      \* the scores
    inc,       \* score_inc
    moving,    \* the element heap::up or heap::down moves, or 0
    dir,       \* which of the two is running
    allocated, \* the variables 1 .. max_var
    assigned,  \* the variables with a value
    fixed,     \* those whose value is a root-level unit
    inactive,  \* variables marked eliminated, substituted or pure
    pc,        \* "idle", "bump", "drain", "fill", "search" or "decided"
    analyzed,  \* bump_variables: what is left to bump
    saved,     \* shuffle and compact: what was taken off the heap
    shuffling, \* whether it is shuffle_scores that drains or fills the heap
    res        \* the result of the search

heap == <<array, moving, dir>>
scores == <<stab, inc>>
values == <<allocated, assigned, fixed, inactive>>
loops == <<analyzed, saved, shuffling, res>>
vars == <<setup, array, stab, inc, moving, dir, allocated, assigned, fixed, inactive,
          pc, analyzed, saved, shuffling, res>>

Vars == setup.vars                  \* variable indices
Aux == setup.aux                    \* auxiliary variables; {} without BRANCHAUX
Sink == setup.sink                  \* the score of an auxiliary variable that was met is -Sink
MaxScore == setup.maxScore          \* evsids_limit_hit above this score
Inprocessing == setup.inprocessing  \* opts.inprocessing: variables are eliminated, compacted
MaxAnalyzed == setup.maxAnalyzed    \* bound on the variables bumped per conflict
Shuffles == setup.shuffles          \* how scores may be shuffled

IsAux(v) == v \in Aux
AtRoot == assigned = fixed
Contains(v) == \E i \in 1 .. Len(array) : array[i] = v
Pos(v) == CHOOSE i \in 1 .. Len(array) : array[i] = v

(* score_smaller: ties are broken in favour of the smaller index.          *)
Less(a, b) == stab[a] < stab[b] \/ (stab[a] = stab[b] /\ a > b)

-----------------------------------------------------------------------------
(* heap.hpp                                                                *)

Exchanged(i, j) == [array EXCEPT ![i] = array[j], ![j] = array[i]]

Up ==
    /\ moving # 0 /\ dir = "up"
    /\ LET i == Pos(moving)
           p == i \div 2
       IN  IF i > 1 /\ Less(array[p], moving)
           THEN array' = Exchanged(i, p) /\ UNCHANGED dir
           ELSE dir' = "down" /\ UNCHANGED array
    /\ UNCHANGED <<scores, moving, values, pc, loops>>

LargerChild(i) ==
    IF 2 * i + 1 <= Len(array) /\ Less(array[2 * i], array[2 * i + 1])
    THEN 2 * i + 1 ELSE 2 * i

Down ==
    /\ moving # 0 /\ dir = "down"
    /\ LET i == Pos(moving)
       IN  IF 2 * i <= Len(array) /\ Less(moving, array[LargerChild(i)])
           THEN array' = Exchanged(i, LargerChild(i)) /\ UNCHANGED <<moving, dir>>
           ELSE moving' = 0 /\ dir' = "up" /\ UNCHANGED array
    /\ UNCHANGED <<scores, values, pc, loops>>

Sift == Up \/ Down

Still == moving = 0

PushBack(v) == array' = Append(array, v) /\ moving' = v /\ dir' = "up"

(* The last element replaces the first one and moves down.                 *)
PopFront ==
    LET n == Len(array)
        last == array[n]
    IN  /\ array' = [i \in 1 .. n - 1 |-> IF i = 1 THEN last ELSE array[i]]
        /\ moving' = IF n > 2 THEN last ELSE 0
        /\ dir' = IF n > 2 THEN "down" ELSE "up"

Update(v) == moving' = v /\ dir' = "up" /\ UNCHANGED array

-----------------------------------------------------------------------------
Init ==
    /\ setup \in Setups
    /\ array = << >>
    /\ stab = [v \in Vars |-> 0]
    /\ inc = 1
    /\ moving = 0 /\ dir = "up"
    /\ allocated = {} /\ assigned = {} /\ fixed = {} /\ inactive = {}
    /\ pc = "idle"
    /\ analyzed = {} /\ saved = << >> /\ shuffling = FALSE /\ res = 0

InitScores(v) ==
    /\ pc = "idle" /\ Still
    /\ \A w \in Vars : w < v <=> w \in allocated \/ \E u \in allocated : w < u
    /\ allocated' = allocated \cup {v}
    /\ stab' = [stab EXCEPT ![v] = 0]
    /\ PushBack(v)
    /\ UNCHANGED <<inc, assigned, fixed, inactive, pc, loops>>

(* search_assign of any variable; at level 0 the variable becomes fixed,   *)
(* and an eliminated one is only ever assigned by a decision.              *)
Assign(v) ==
    /\ pc = "idle" /\ Still
    /\ v \in allocated \ assigned
    /\ assigned' = assigned \cup {v}
    /\ fixed' = fixed \/ (v \notin inactive /\ fixed' = fixed \cup {v})
    /\ UNCHANGED <<heap, scores, allocated, inactive, pc, loops>>

Unassign(v) ==
    /\ pc = "idle" /\ Still
    /\ v \in assigned \ fixed
    /\ assigned' = assigned \ {v}
    /\ IF Contains(v) THEN UNCHANGED heap ELSE PushBack(v)
    /\ UNCHANGED <<scores, allocated, fixed, inactive, pc, loops>>

MarkInactive(v) ==
    /\ Inprocessing
    /\ pc = "idle" /\ Still /\ AtRoot
    /\ v \in allocated \ (assigned \cup inactive)
    /\ inactive' = inactive \cup {v}
    /\ UNCHANGED <<heap, scores, allocated, assigned, fixed, pc, loops>>

Reactivate(v) ==
    /\ pc = "idle" /\ Still /\ AtRoot
    /\ v \in inactive
    /\ inactive' = inactive \ {v}
    /\ UNCHANGED <<heap, scores, allocated, assigned, fixed, pc, loops>>

-----------------------------------------------------------------------------
(* bump_variables: the variables analyzed in a conflict, which are         *)
(* assigned above the root level; BRANCHAUX leaves out auxiliary ones.     *)
BumpVariables(S) ==
    /\ pc = "idle" /\ Still
    /\ S # {} /\ S \subseteq assigned \ fixed
    /\ Cardinality(S) <= MaxAnalyzed
    /\ analyzed' = S \ Aux
    /\ pc' = "bump"
    /\ UNCHANGED <<heap, scores, values, saved, shuffling, res>>

Halved(x) == IF x < 0 THEN -((-x) \div 2) ELSE x \div 2

(* rescale_variable_scores; the increment never underflows.                *)
RescaledScores == [v \in Vars |-> IF v \in allocated THEN Halved(stab[v]) ELSE stab[v]]
RescaledInc == IF inc > 1 THEN inc \div 2 ELSE 1

(* Mutated form: the heap is not told. *)
BumpVariableUntold(v) ==
    /\ pc = "bump" /\ Still
    /\ v \in analyzed
    /\ LET limit == stab[v] + inc > MaxScore
           old == IF limit THEN RescaledScores ELSE stab
       IN  /\ inc' = IF limit THEN RescaledInc ELSE inc
           /\ stab' = [old EXCEPT ![v] = @ + inc']
    /\ analyzed' = analyzed \ {v}
    /\ UNCHANGED <<heap, values, pc, saved, shuffling, res>>

BumpVariable(v) ==
    /\ pc = "bump" /\ Still
    /\ v \in analyzed
    /\ LET limit == stab[v] + inc > MaxScore
           old == IF limit THEN RescaledScores ELSE stab
       IN  /\ inc' = IF limit THEN RescaledInc ELSE inc
           /\ stab' = [old EXCEPT ![v] = @ + inc']
    /\ IF Contains(v) THEN Update(v) ELSE UNCHANGED heap
    /\ analyzed' = analyzed \ {v}
    /\ UNCHANGED <<values, pc, saved, shuffling, res>>

BumpScoreInc ==
    /\ pc = "bump" /\ Still
    /\ analyzed = {}
    /\ IF inc + 1 > MaxScore
       THEN stab' = RescaledScores /\ inc' = RescaledInc + 1
       ELSE inc' = inc + 1 /\ UNCHANGED stab
    /\ pc' = "idle"
    /\ UNCHANGED <<heap, values, loops>>

-----------------------------------------------------------------------------
(* shuffle_scores and the mapping of the heap in compact.  Both put the    *)
(* elements of the heap on a vector and back.                              *)

Orders(S) == {o \in [1 .. Cardinality(S) -> S] : \A v \in S : \E i \in DOMAIN o : o[i] = v}

(* With shufflerandom the heap is erased and all variables are put back.   *)
ShuffleStart(o) ==
    /\ pc = "idle" /\ Still /\ AtRoot
    /\ \/ /\ "random" \in Shuffles
          /\ array' = << >> /\ saved' = o /\ inc' = 0
          /\ pc' = "fill"
       \/ /\ "reverse" \in Shuffles
          /\ pc' = "drain"
          /\ UNCHANGED <<array, saved, inc>>
    /\ shuffling' = TRUE
    /\ UNCHANGED <<stab, moving, dir, values, analyzed, res>>

Flushed == allocated \cap (fixed \cup inactive)

(* compact keeps the index of the first fixed variable, but takes it off   *)
(* the heap.                                                               *)
FirstFixed == {v \in fixed : \A w \in fixed : v <= w}

CompactStart ==
    /\ Inprocessing
    /\ pc = "idle" /\ Still /\ AtRoot
    /\ Flushed # {}
    /\ pc' = "drain"
    /\ shuffling' = FALSE
    /\ UNCHANGED <<heap, scores, values, analyzed, saved, res>>

Drain ==
    /\ pc = "drain" /\ Still
    /\ array # << >>
    /\ saved' = IF shuffling \/ array[1] \notin Flushed THEN Append(saved, array[1]) ELSE saved
    /\ PopFront
    /\ UNCHANGED <<scores, values, pc, analyzed, shuffling, res>>

DrainEnd ==
    /\ pc = "drain" /\ Still
    /\ array = << >>
    /\ IF shuffling THEN inc' = 0 /\ UNCHANGED <<stab, values>>
       ELSE /\ allocated' = (allocated \ Flushed) \cup FirstFixed
            /\ assigned' = FirstFixed /\ fixed' = FirstFixed
            /\ inactive' = {}
            /\ stab' = [v \in Vars |-> IF v \in Flushed \ FirstFixed THEN 0 ELSE stab[v]]
            /\ UNCHANGED inc
    /\ pc' = "fill"
    /\ UNCHANGED <<heap, loops>>

Fill ==
    /\ pc = "fill" /\ Still
    /\ saved # << >>
    /\ PushBack(saved[1])
    /\ saved' = Tail(saved)
    /\ IF shuffling THEN stab' = [stab EXCEPT ![saved[1]] = inc] /\ inc' = inc + 1
       ELSE UNCHANGED scores
    /\ UNCHANGED <<values, pc, analyzed, shuffling, res>>

FillEnd ==
    /\ pc = "fill" /\ Still
    /\ saved = << >>
    /\ shuffling' = FALSE
    /\ pc' = "idle"
    /\ UNCHANGED <<heap, scores, values, analyzed, saved, res>>

-----------------------------------------------------------------------------
(* next_decision_variable_with_best_score.  On an empty heap it prints     *)
(* "e RAN OUT" and aborts: the search has no further step.                 *)

SearchStart ==
    /\ pc = "idle" /\ Still
    /\ pc' = "search"
    /\ UNCHANGED <<heap, scores, values, loops>>

(* Mutated form: an auxiliary variable keeps its score. *)
SearchAuxUnsunk ==
    /\ pc = "search" /\ Still
    /\ array # << >> /\ IsAux(array[1])
    /\ Update(array[1])
    /\ UNCHANGED <<scores, values, pc, loops>>

SearchAux ==
    /\ pc = "search" /\ Still
    /\ array # << >> /\ IsAux(array[1])
    /\ stab' = [stab EXCEPT ![array[1]] = -Sink]
    /\ Update(array[1])
    /\ UNCHANGED <<inc, values, pc, loops>>

SearchPop ==
    /\ pc = "search" /\ Still
    /\ array # << >> /\ ~IsAux(array[1]) /\ array[1] \in assigned
    /\ PopFront
    /\ UNCHANGED <<scores, values, pc, loops>>

SearchReturn ==
    /\ pc = "search" /\ Still
    /\ array # << >> /\ ~IsAux(array[1]) /\ array[1] \notin assigned
    /\ res' = array[1]
    /\ pc' = "decided"
    /\ UNCHANGED <<heap, scores, values, analyzed, saved, shuffling>>

(* decide assigns the result; reuse_trail only compares its score.         *)
UseDecision ==
    /\ pc = "decided"
    /\ assigned' \in {assigned, assigned \cup {res}}
    /\ res' = 0
    /\ pc' = "idle"
    /\ UNCHANGED <<heap, scores, allocated, fixed, inactive, analyzed, saved, shuffling>>

-----------------------------------------------------------------------------
Inputs == allocated \ Aux

(* What the BRANCHAUX build needs: an unassigned input is left.            *)
InputLeft == Inputs \ assigned # {}

Environment ==
    \/ \E v \in Vars : \/ InitScores(v)
                       \/ Assign(v)
                       \/ Unassign(v)
                       \/ MarkInactive(v)
                       \/ Reactivate(v)
                       \/ BumpVariable(v)
    \/ \E S \in SUBSET Vars : BumpVariables(S)
    \/ BumpScoreInc
    \/ \E o \in Orders(allocated) : ShuffleStart(o)
    \/ CompactStart
    \/ Drain
    \/ DrainEnd
    \/ Fill
    \/ FillEnd
    \/ UseDecision

Search == SearchAux \/ SearchPop \/ SearchReturn

Next ==
    /\ Sift \/ Environment \/ Search \/ (InputLeft /\ SearchStart)
    /\ UNCHANGED setup

Spec == Init /\ [][Next]_vars

(* The search and the heap operations it calls run until it returns.       *)
FairSpec == Spec /\ WF_vars((Sift \/ Search) /\ UNCHANGED setup)

-----------------------------------------------------------------------------

(* decide.cpp:76 "the best decision with respect to score": the result is  *)
(* an unassigned input, and no other one has a larger score.               *)
BestScore ==
    pc = "decided" =>
        /\ res \in Inputs \ assigned
        /\ \A v \in Inputs \ assigned : stab[v] <= stab[res]

(* decide.cpp:57: a search that starts returns a decision: it neither      *)
(* empties the heap and aborts nor sinks auxiliary variables forever.      *)
SearchTerminates == pc = "search" ~> pc = "decided"

-----------------------------------------------------------------------------
(* Why the result is the best: the inductive invariant.                    *)

ElementsOf(a) == {a[i] : i \in 1 .. Len(a)}
Distinct(a) == \A i, j \in 1 .. Len(a) : a[i] = a[j] => i = j

HeapTypeOK ==
    /\ setup \in Setups
    /\ array \in Seq(Vars) /\ saved \in Seq(Vars)
    /\ stab \in [Vars -> Int] /\ inc \in Nat
    /\ moving \in {0} \cup ElementsOf(array) /\ dir \in {"up", "down"}
    /\ allocated \subseteq Vars /\ assigned \subseteq allocated /\ fixed \subseteq assigned
    /\ inactive \subseteq allocated /\ analyzed \subseteq Vars
    /\ pc \in {"idle", "bump", "drain", "fill", "search", "decided"}
    /\ shuffling \in BOOLEAN

(* An element and the one at half its position are in order, but for the   *)
(* element m that is moved.  Its children are not larger than its parent,  *)
(* and when it goes down, it is not larger than its parent either.         *)
(* Equal scores may be in any order: rescaling makes scores equal and does *)
(* not look at the indices that break the tie.                             *)
HeapOrdered(a, s, m, d) ==
    \A i \in 2 .. Len(a) :
        /\ a[i] # m /\ a[i \div 2] # m => s[a[i]] <= s[a[i \div 2]]
        /\ a[i] = m => \A j \in 2 .. Len(a) : j \div 2 = i => s[a[j]] <= s[a[i \div 2]]
        /\ a[i] = m /\ d = "down" => s[m] <= s[a[i \div 2]]

(* No element is there twice, on the heap and on the vector saved.         *)
NothingTwice ==
    /\ Distinct(array) /\ Distinct(saved)
    /\ ElementsOf(array) \cap ElementsOf(saved) = {}
    /\ ElementsOf(array) \cup ElementsOf(saved) \subseteq allocated

(* Every unassigned variable is on the heap, or saved to get there again;  *)
(* compact drops the ones that it is about to remove.                      *)
NothingLost ==
    /\ pc \notin {"drain", "fill"} => saved = << >>
    /\ IF pc = "drain" /\ ~shuffling
       THEN /\ allocated \ Flushed \subseteq ElementsOf(array) \cup ElementsOf(saved)
            /\ ElementsOf(saved) \cap Flushed = {}
       ELSE allocated \ assigned \subseteq ElementsOf(array) \cup ElementsOf(saved)

HeapInv ==
    /\ HeapTypeOK
    /\ NothingTwice
    /\ HeapOrdered(array, stab, moving, dir)
    /\ NothingLost
    /\ BestScore

=============================================================================
