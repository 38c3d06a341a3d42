CONSTANTS
  Symbol <- MCSymbol
  Blank = {" "}
  Separator = {",", ":", "="}
  Property <- MCProperty
  Named <- MCNamed
  Printed <- MCPrinted
  Width = 12
  FirstLines <- MCFirst
  OtherLines <- MCOther
  MaxLines = 5
SPECIFICATION Spec
INVARIANTS HeadersRight UriKept SessionAgrees
CHECK_DEADLOCK FALSE
