CONSTANTS
  Text <- MCText
  Blank = {" ", "r", "n"}
  Endline <- MCEndline
  Malformed = {"x"}
  Size <- MCSize
  ReadSize = 2
  Capacity = 10
  Streams <- MCStreams
  NoResponse = NoResponse
SPECIFICATION FairSpec
INVARIANTS TypeOK RequestsIntact WireIsAnswers Wakeable GracefulClose HistoryMatches
PROPERTIES ImplementsPipeline SessionEnds
CHECK_DEADLOCK FALSE
