SPECIFICATION MCSpec
CONSTANTS
    Setups <- MCSetups
    Plans <- MCPlans
INVARIANTS BestScore NoTechniqueTwice RestartsRight
PROPERTY SearchTerminates
CHECK_DEADLOCK FALSE
