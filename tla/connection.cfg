CONSTANTS
  Text <- MCText
  Blank = {"r", "n"}
  Endline <- MCEndline
  Malformed = {"x"}
  Size <- MCSize
  ReadSize = 4
  Capacity = 8
  Streams <- MCStreams
  NoResponse = NoResponse
  InRoom = 5
  OutRoom = 2
  Garbage = {"none", "READING", "WRITING"}
SPECIFICATION FairConnSpec
INVARIANTS ConnTypeOK DeadlockOnlyByGreed CloseDrained AnsweredInFull
PROPERTIES ImplementsSession MissedIsMute Served
CHECK_DEADLOCK FALSE
