----------------------------- MODULE MCScoreHeap -----------------------------
(* Instances of ScoreHeap and of Schedule for TLC: which variable is next, *)
(* and what is done next.                                                  *)
(*                                                                         *)
(* Four elements give the heap a third level; with three, variables come   *)
(* and go and scores are shuffled.                                         *)
EXTENDS ScoreHeap, Schedule

MCSetups ==
    {[vars |-> 1 .. 4, aux |-> {2}, sink |-> 1, maxScore |-> 2, inprocessing |-> FALSE,
      maxAnalyzed |-> 1, shuffles |-> {}],
     [vars |-> 1 .. 3, aux |-> {1}, sink |-> 1, maxScore |-> 3, inprocessing |-> TRUE,
      maxAnalyzed |-> 2, shuffles |-> {"reverse", "random"}]}

(* Restarts over a long stable phase, without and with conflicts that only *)
(* force a literal; the change of modes in several calls; and all          *)
(* techniques with short intervals.                                        *)
Plan == [reluctant |-> 1, reluctantmax |-> 0, maxConflicts |-> 13, maxLevel |-> 3, maxCalls |-> 1,
         restartint |-> 1, stabilizeint |-> 1, stabilizefactor |-> 200, stabilizemaxint |-> 4,
         interval |-> 1, fast |-> 1, slow |-> 2, glues |-> {2}, factors |-> {1}, rounds |-> 0, bounds |-> {},
         techniques |-> {"restart"},
         stabilize |-> TRUE, stabilizeonly |-> TRUE, chrono |-> FALSE]
MCPlans ==
    {[Plan EXCEPT !.reluctantmax = m] : m \in {0, 4}}
    \cup {[Plan EXCEPT !.chrono = TRUE, !.maxConflicts = 8]}
    \cup {[Plan EXCEPT !.stabilizeonly = FALSE, !.maxConflicts = 5, !.maxCalls = 2,
                       !.slow = 3, !.glues = {1, 2}, !.bounds = {2}, !.chrono = TRUE]}
    \cup {[Plan EXCEPT !.stabilize = FALSE, !.maxConflicts = n, !.maxLevel = 2, !.rounds = 1,
                       !.chrono = (n = 2),
                       !.techniques = {"restart", "rephase", "reduce", "probe", "subsume", "elim",
                                       "compact", "condition"}] : n \in {2, 3}}
    \cup {[Plan EXCEPT !.stabilize = FALSE, !.maxConflicts = 4, !.maxLevel = 1, !.maxCalls = 2,
                       !.rounds = 1, !.factors = {1, 2},
                       !.techniques = {"reduce", "flush", "probe", "subsume", "elim"}]}

NoHeap ==
    /\ setup = CHOOSE s \in Setups : TRUE
    /\ array = << >> /\ stab = << >> /\ inc = 0 /\ moving = 0 /\ dir = "up"
    /\ allocated = {} /\ assigned = {} /\ fixed = {} /\ inactive = {}
    /\ pc = "off" /\ analyzed = {} /\ saved = << >> /\ shuffling = FALSE /\ res = 0

NoSchedule ==
    /\ plan = CHOOSE p \in Plans : TRUE
    /\ stats = << >> /\ lim = << >> /\ incr = << >> /\ last = << >> /\ stable = FALSE
    /\ averages = << >> /\ reluctant = << >> /\ depth = 0 /\ running = "off" /\ rounds = 0
    /\ ran = << >> /\ glues = << >> /\ quiet = << >>

MCInit == (Init /\ NoSchedule) \/ (NoHeap /\ InitSchedule)
MCNext == \/ Next /\ UNCHANGED scheduling
          \/ NextSchedule /\ UNCHANGED vars
MCSpec ==
    /\ MCInit /\ [][MCNext]_<<vars, scheduling>>
    /\ WF_vars((Sift \/ Search) /\ UNCHANGED <<setup, scheduling>>)
=============================================================================
