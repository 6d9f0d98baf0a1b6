SPECIFICATION Spec
CONSTANTS
  Problems <- StickyProblems
  ElimBound = 1
  MaxExt = 2
CHECK_DEADLOCK FALSE
INVARIANT ModelsExtend
