SPECIFICATION SolveSpec
CONSTANT Problems <- AssumedGate
INVARIANT GlueBelowSize
