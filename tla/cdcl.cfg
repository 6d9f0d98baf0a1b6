SPECIFICATION SolveSpec
CONSTANT Problems <- MCProblems
INVARIANTS
    LearnedRight
    AnswerRight
    PropagationComplete
    ImplicationGraph
PROPERTY Terminates
