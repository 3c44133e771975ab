SPECIFICATION Spec
CONSTANTS
  Replicas = {r1}
  LeaderElect = TRUE
  MaxConcurrent = 4
  Optimised = FALSE
  Pods = {p1}
  LongNamed = {}
  Plain = plain
  good = good
  bad = bad
  Annotations <- MCAnnotations
  Warned <- MCWarned
  Buildable <- MCBuildable
  Interference = {"carry", "foreign", "delete"}
  MaxUid = 2
  MaxFaults = 0
  MaxCrashes = 0
INVARIANTS Incarnations
PROPERTIES CreateOnly
CHECK_DEADLOCK FALSE
