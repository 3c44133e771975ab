SPECIFICATION FairSpec
CONSTANTS
  Replicas = {r1}
  LeaderElect = TRUE
  MaxConcurrent = 4
  Optimised = TRUE
  Pods = {p1, p2}
  LongNamed = {p2}
  Plain = plain
  good = good
  bad = bad
  Annotations <- MCAnnotations
  Warned <- MCWarned
  Buildable <- MCBuildable
  Interference = {"classes"}
  MaxUid = 1
  MaxFaults = 1
  MaxCrashes = 1
PROPERTIES EventuallyServed ServedOrTold NoLeak
CHECK_DEADLOCK FALSE
