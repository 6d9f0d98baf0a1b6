SPECIFICATION Spec
CONSTANTS
  MaxClauses = 3
  Inputs <- Formulas
  Semantic = TRUE
  MayTimeOut = TRUE
  Garbage = {0, 7}
INVARIANTS PartitionInTime GatesAcyclic GatesRight
PROPERTY Terminates
