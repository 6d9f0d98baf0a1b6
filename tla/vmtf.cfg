SPECIFICATION FairSpec
CONSTANTS
    Vars = {1, 2, 3}
    Aux = {2}
    Reverse = {FALSE, TRUE}
    Shuffle = {"reverse", "random"}
    MinBumped <- MCMinBumped
    MaxBumped = 4
INVARIANTS
    QueueOrdered
    UnassignedPointer
    NextDecision
PROPERTIES
    SearchTerminates
CHECK_DEADLOCK FALSE
