CONSTANTS
  VecSize = 10
  Pieces <- MCPieces
  MaxPieces = 4
  MaxTerminators = 2
SPECIFICATION FairSpec
INVARIANTS WireRight
PROPERTIES TerminatorFits Drained
CHECK_DEADLOCK FALSE
