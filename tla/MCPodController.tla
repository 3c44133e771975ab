--------------------------- MODULE MCPodController ---------------------------
(***************************************************************************)
(* PodController on small instances: the plain annotation map, one that    *)
(* builds and one that does not.                                           *)
(***************************************************************************)
EXTENDS PodController, TLC

CONSTANTS good, bad   \* a map that builds, a map with an unknown class

MCAnnotations == {Plain, good, bad}
FewAnnotations == {Plain, good}
MCWarned == {bad}
MCBuildable == {Plain, good}
ReplicaSymmetry == Permutations(Replicas)
=============================================================================
