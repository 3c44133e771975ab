SPECIFICATION Spec
CONSTANTS
  Unset = unset
  Blank = blank
  Junk = junk
  Classes <- MCClasses
  DefaultClass = "default"
  EnableInternal = FALSE
  Pick <- MCPick
INVARIANTS  GatesAreHonoured InputsPrecedence ParsedPortsAreScraped
CHECK_DEADLOCK FALSE
