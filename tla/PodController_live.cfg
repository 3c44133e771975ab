SPECIFICATION FairSpec
CONSTANTS
  Replicas = {r1}
  LeaderElect = TRUE
  MaxConcurrent = 1
  Optimised = TRUE
  Pods = {p1, p2}
  LongNamed = {p2}
  Plain = plain
  good = good
  bad = bad
  Annotations <- FewAnnotations
  Warned = {}
  Buildable <- FewAnnotations
  Interference = {}
  MaxUid = 2
  MaxFaults = 0
  MaxCrashes = 0
PROPERTIES EventuallyServed NoLeak
CHECK_DEADLOCK FALSE
