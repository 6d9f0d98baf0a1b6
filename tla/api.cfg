SPECIFICATION MCSpec
CONSTANTS
    Vars = {1, 2}
    UIntMax = 3
    MaxForce = 1
    Clients = {"tester", "app", "user"}
    AddLits <- MCAddLits
    AssumeLits <- MCAssumeLits
    ConstrainLits <- MCConstrainLits
    FreezeVars = {2}
    LimitCalls <- MCLimitCalls
    MaxClauses = 2
    MaxPhases = 2
    AuxFiles <- MCAuxFiles
    CnfFiles <- MCCnfFiles
    OptionOrder <- MCOptionOrder
    Option <- MCOption
    OptionChoices <- MCOptionChoices
    PhaseChoices <- MCPhaseChoices
    Failures <- MCFailures
    DoNots = {{}, {"atall", "add", "map", "basic"}}
    MaxRounds = 2
    Limit = 1
INVARIANTS
    AnswerForGiven
    FrozenCounted
    UnknownHasCause
    AppRight
    ReductionRight
PROPERTIES
    TerminateEnds
    ShrinkTerminates
