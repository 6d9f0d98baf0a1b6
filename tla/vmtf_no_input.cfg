SPECIFICATION CallersSpec
CONSTANTS
    Vars = {1, 2}
    Aux = {2}
    Reverse = {FALSE}
    Shuffle = {}
    MinBumped <- MCMinBumped
    MaxBumped = 2
INVARIANTS
    DecisionIsVariable
CHECK_DEADLOCK FALSE
