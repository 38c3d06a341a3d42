CONSTANTS
  Chains = {"P", "C", "Z", "CZ"}
  MaxBlob = 2
  MaxWritten = 4
  MaxEnds = 3
SPECIFICATION Spec
INVARIANTS InOrder Framed EndedRight
PROPERTIES TrueUnlessKept
CHECK_DEADLOCK FALSE
