--------------------------- MODULE SecretLifecycle ---------------------------
(***************************************************************************)
(* What the pod controller promises about telegraf-config secrets, without *)
(* caches, queues, workers and replicas.  Every pod incarnation has a      *)
(* secret name of its own.  Its secret is absent, is made once from a      *)
(* configuration that could be built, is never changed, and stays as long  *)
(* as the pod lives; a secret that comes too late for its pod is collected.*)
(***************************************************************************)
EXTENDS Naturals

CONSTANTS
  Uids,       \* pod incarnations, numbered in the order of their admission
  Buildable   \* annotation maps a configuration can be built from

VARIABLES
  next,     \* the incarnation that is admitted next
  alive,    \* incarnations that exist
  wanted,   \* those of them that have a sidecar and wait for the secret
  secret    \* per incarnation, {} or what its secret was built from

vars == <<next, alive, wanted, secret>>

Init ==
  /\ next = 1
  /\ alive = {} /\ wanted = {}
  /\ secret = [u \in Uids |-> {}]

Admit ==
  /\ next \in Uids /\ next' = next + 1
  /\ alive' = alive \cup {next}
  /\ wanted' \in {wanted, wanted \cup {next}}
  /\ UNCHANGED secret

Die(u) ==
  /\ u \in alive
  /\ alive' = alive \ {u} /\ wanted' = wanted \ {u}
  /\ UNCHANGED <<next, secret>>

(* For a pod that waits, or too late for one that is gone.                 *)
Make(u) ==
  /\ u \in wanted \/ (u < next /\ u \notin alive)
  /\ secret[u] = {}
  /\ \E c \in Buildable : secret' = [secret EXCEPT ![u] = {c}]
  /\ UNCHANGED <<next, alive, wanted>>

Collect(u) ==
  /\ secret[u] # {} /\ u \notin alive
  /\ secret' = [secret EXCEPT ![u] = {}]
  /\ UNCHANGED <<next, alive, wanted>>

Next == Admit \/ \E u \in Uids : Die(u) \/ Make(u) \/ Collect(u)

Spec == Init /\ [][Next]_vars

=============================================================================
