CONSTANTS
  Chains = {"P", "C", "Z", "CZ"}
  MaxBlob = 2
  MaxWritten = 4
  MaxEnds = 3
SPECIFICATION Spec
INVARIANTS OneLastChunk
CHECK_DEADLOCK FALSE
