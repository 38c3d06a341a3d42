CONSTANTS
  Symbol <- MCSymbol
  Blank = {" "}
  Separator = {",", ":", "="}
  Property <- MCProperty
  Named <- MCNamed
  Printed <- MCPrinted
  Width = 12
  FirstLines <- MCUriFirst
  OtherLines <- MCOther
  MaxLines = 5
SPECIFICATION Spec
INVARIANTS UriAlways
CHECK_DEADLOCK FALSE
