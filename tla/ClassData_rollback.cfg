SPECIFICATION Spec
CONSTANTS
  NFiles = 1
  v1 = v1
  v2 = v2
  junk = junk
  Contents <- TwoVersions
  Parsable <- TwoParsable
  Absent = absent
  Directory = directory
  Main = main
  Updaters = {u1, u2}
  Nobody = nobody
PROPERTIES FailedUpdateReverts
