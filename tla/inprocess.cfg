SPECIFICATION Spec
CONSTANTS
  Problems <- MCProblems
  ElimBound = 0
  MaxExt = 2
CHECK_DEADLOCK FALSE
INVARIANTS ModelsExtend CopyModels ProofAccepted
PROPERTY ServiceSpec
