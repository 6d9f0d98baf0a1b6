SPECIFICATION KissatSpec
CONSTANTS
  MaxClauses = 4
  Inputs <- FormulasAndCircuits
  Scripts = {"select_aux", "select_aux_graph"}
  Files <- MCFiles
  MaxVar = 5
  DefragSize = 10
  DefragLimit = 50
INVARIANTS DetectorRight InputsSuffice ImportExact
