SPECIFICATION Spec
CONSTANTS
  Replicas = {r1}
  LeaderElect = TRUE
  MaxConcurrent = 4
  Optimised = TRUE
  Pods = {p1}
  LongNamed = {}
  Plain = plain
  good = good
  bad = bad
  Annotations <- MCAnnotations
  Warned <- MCWarned
  Buildable <- MCBuildable
  Interference = {"classes"}
  MaxUid = 2
  MaxFaults = 1
  MaxCrashes = 1
INVARIANTS TypeOK NoPodForgotten OwnerRefsResolve NamesAreFresh SecretsAreWhole
PROPERTIES CreateOnly ServedPodKeepsSecret NoSilentExit IsSecretLifecycle
CHECK_DEADLOCK FALSE
