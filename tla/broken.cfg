CONSTANTS
  Text <- MCText
  Blank = {" ", "r", "n"}
  Endline <- MCEndline
  Malformed = {"x"}
  Size <- MCSize
  ReadSize = 2
  Capacity = 10
  Streams <- MCBroken
  NoResponse = NoResponse
SPECIFICATION Spec
INVARIANTS BrokenNeverAnswered
CHECK_DEADLOCK FALSE
