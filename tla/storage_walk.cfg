SPECIFICATION Spec
CONSTANTS
  Formulas <- MCFormulas
  Addresses = {1, 2, 3, 4, 5, 6, 7, 8, 9, 10, 11, 12, 13, 14}
  MaxLearned = 2
  MaxDecisions = 4
  MaxCollections = 2
  Walks <- MCWalks
  KissatWalks <- MCKissatWalks
  MaxRounds = 2
  MaxFlips = 6
  MaxSteps = 12
CHECK_DEADLOCK FALSE
INVARIANTS
  WatchesSuffice ReferencesValid NamesKept
  WalkRight KissatWalkRight
