SPECIFICATION Spec
CONSTANTS
  Replicas = {r1}
  LeaderElect = TRUE
  MaxConcurrent = 4
  Optimised = TRUE
  Pods = {p1}
  LongNamed = {}
  Plain = plain
  good = good
  bad = bad
  Annotations <- MCAnnotations
  Warned <- MCWarned
  Buildable <- MCBuildable
  Interference = {"carry"}
  MaxUid = 2
  MaxFaults = 0
  MaxCrashes = 0
PROPERTIES NoSilentExit
CHECK_DEADLOCK FALSE
