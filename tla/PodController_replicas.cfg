SPECIFICATION Spec
CONSTANTS
  Replicas = {r1, r2}
  LeaderElect = FALSE
  MaxConcurrent = 4
  Optimised = TRUE
  Pods = {p1}
  LongNamed = {}
  Plain = plain
  good = good
  bad = bad
  Annotations <- MCAnnotations
  Warned <- MCWarned
  Buildable <- MCBuildable
  Interference = {}
  MaxUid = 1
  MaxFaults = 1
  MaxCrashes = 1
INVARIANTS NoPodForgotten
PROPERTIES CreateOnly
SYMMETRY ReplicaSymmetry
CHECK_DEADLOCK FALSE
