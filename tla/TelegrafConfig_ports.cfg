SPECIFICATION Spec
CONSTANTS
  Unset = unset
  Blank = blank
  Junk = junk
  Classes <- MCClasses
  DefaultClass = "default"
  EnableInternal = FALSE
  Pick <- MCPick
INVARIANTS PortsAreScraped
CHECK_DEADLOCK FALSE
