------------------------ MODULE SidecarInjectorProofs ------------------------
(***************************************************************************)
(* Proofs about SidecarInjector, for all manifests, annotations, command   *)
(* lines and lengths of names.                                             *)
(***************************************************************************)
EXTENDS SidecarInjector, StartupProofs

-----------------------------------------------------------------------------
(***************************************************************************)
(* The pod.  Whole is InjectionIsWhole of a pod p; the rest of PodInv is   *)
(* what makes it inductive: a name drawn is new to the volumes of the pod, *)
(* so that an update that injects changes what the API server holds fixed. *)
(***************************************************************************)
IsPod(p) ==
  p = [exists |-> p.exists, containers |-> p.containers, initContainers |-> p.initContainers,
       volumes |-> p.volumes, labels |-> p.labels, ann |-> p.ann, id |-> p.id,
       nameLen |-> p.nameLen]

Whole(p) ==
  IF p.labels.injected
  THEN /\ \E x \in Own(p) : Own(p) = {x}
       /\ \A x \in Own(p) : x.restartPolicy = "Always" <=> x \in p.initContainers
       /\ p.containers \cap p.initContainers = {}
       /\ p.labels.secretName > 0
       /\ OwnVolumes(p) = {[name |-> "telegraf-config", secret |-> p.labels.secretName]}
  ELSE Own(p) = {} /\ OwnVolumes(p) = {}

Fits(p) == p.labels.injected => p.nameLen.len <= 63 /\ p.nameLen.dash

PodOK(p, n) ==
  /\ IsPod(p) /\ Whole(p) /\ Fits(p)
  /\ \A x \in Own(p) : x.name = "telegraf"
  /\ \A v \in p.volumes : v.secret \in 0..n

PodInv ==
  /\ drawn \in Nat
  /\ pod # NoPod => PodOK(pod, drawn)

(* The sidecar, whatever the flags and the annotations.                    *)
LEMMA SidecarShape ==
  ASSUME NEW p, NEW f, NEW native
  PROVE  /\ Sidecar(p, f, native).own = TRUE
         /\ Sidecar(p, f, native).name = "telegraf"
         /\ Sidecar(p, f, native).restartPolicy = IF native THEN "Always" ELSE Unset
<1> DEFINE c == applyAnnotationOverrides(newContainerConfig(f), p.ann)
<1> HIDE DEF c
<1>1. Sidecar(p, f, native) =
        [buildContainerSpec(c) EXCEPT !.restartPolicy = IF native THEN "Always" ELSE @]
  BY DEF Sidecar, c
<1> QED
  BY <1>1 DEF buildContainerSpec

(* The environment of every sidecar.                                       *)
FieldRefs == [name : {"PODNAME", "NODENAME", "NAMESPACE"}, kind : {"fieldref"}, value : {"path"}]

(* What the sidecar is made of: flags, and annotations that override them. *)
LEMMA SidecarReads ==
  ASSUME NEW p, NEW f, NEW native, NEW s, s = Sidecar(p, f, native), NEW a, a = p.ann
  PROVE  /\ s.image = IF a.image = Unset THEN f.image ELSE a.image
         /\ s.requests = [cpu |-> OverrideQuantity(f.requestsCPU, a.requestsCPU),
                          memory |-> OverrideQuantity(f.requestsMemory, a.requestsMemory)]
         /\ s.limits = [cpu |-> CPULimit(IF a.limitsCPU = Blank THEN 0 ELSE
                                  OverrideQuantity(IF f.limitsCPU = Blank THEN 0 ELSE f.limitsCPU,
                                                   a.limitsCPU)),
                        memory |-> OverrideQuantity(f.limitsMemory, a.limitsMemory)]
         /\ s.mounts = (IF a.mounts \in {Unset, Junk} THEN {} ELSE {} \cup a.mounts)
                       \cup {"telegraf-config"}
         /\ s.env = FieldRefs \cup
              {e \in UNION {GetAnnotationsWithPrefix(a, k) : k \in EnvKinds} : Understood(e)}
         /\ s.securityContext = buildSecurityContext(f)
<1> DEFINE b == newContainerConfig(f)
           c == applyAnnotationOverrides(b, a)
           d == buildContainerSpec(c)
           more == {e \in UNION {GetAnnotationsWithPrefix(a, k) : k \in EnvKinds} : Understood(e)}
<1>1. /\ DOMAIN b = {"requestsCPU", "requestsMemory", "limitsCPU", "limitsMemory", "image",
                     "debug", "env", "envFrom", "mounts", "watchConfig", "securityContext"}
      /\ b.image = f.image /\ b.requestsCPU = f.requestsCPU
      /\ b.requestsMemory = f.requestsMemory /\ b.limitsMemory = f.limitsMemory
      /\ b.limitsCPU = IF f.limitsCPU = Blank THEN 0 ELSE f.limitsCPU
      /\ b.mounts = {} /\ b.env = FieldRefs /\ b.securityContext = buildSecurityContext(f)
  BY DEF newContainerConfig, FieldRefs
<1>2. s = [d EXCEPT !.restartPolicy = IF native THEN "Always" ELSE @]
  BY DEF Sidecar
<1> HIDE DEF b
<1>3. /\ c.image = IF a.image = Unset THEN b.image ELSE a.image
      /\ c.requestsCPU = OverrideQuantity(b.requestsCPU, a.requestsCPU)
      /\ c.requestsMemory = OverrideQuantity(b.requestsMemory, a.requestsMemory)
      /\ c.limitsCPU = IF a.limitsCPU = Blank THEN 0
                       ELSE OverrideQuantity(b.limitsCPU, a.limitsCPU)
      /\ c.limitsMemory = OverrideQuantity(b.limitsMemory, a.limitsMemory)
      /\ c.mounts = IF a.mounts \in {Unset, Junk} THEN b.mounts ELSE b.mounts \cup a.mounts
      /\ c.env = b.env \cup more
      /\ c.securityContext = b.securityContext
  BY <1>1 DEF applyAnnotationOverrides
<1> HIDE DEF c
<1>4. /\ "restartPolicy" \in DOMAIN d /\ d.image = c.image /\ d.env = c.env
      /\ d.requests = [cpu |-> c.requestsCPU, memory |-> c.requestsMemory]
      /\ d.limits = [cpu |-> CPULimit(c.limitsCPU), memory |-> c.limitsMemory]
      /\ d.mounts = c.mounts \cup {"telegraf-config"}
      /\ d.securityContext = c.securityContext
  BY DEF buildContainerSpec
<1>5. DOMAIN d = {"name", "own", "image", "env", "envFrom", "command", "requests", "limits",
                  "mounts", "securityContext", "restartPolicy"}
  BY DEF buildContainerSpec
<1> HIDE DEF d
<1>6. /\ s.image = d.image /\ s.env = d.env /\ s.requests = d.requests
      /\ s.limits = d.limits /\ s.mounts = d.mounts
      /\ s.securityContext = d.securityContext
  BY <1>2, <1>5
<1> HIDE DEF more
<1> QED
  BY <1>1, <1>3, <1>4, <1>6 DEF more

(* The sidecar is the same without the quantities that do not parse.       *)
LEMMA FallsBack ==
  ASSUME NEW a \in Annotations, NEW w, w = WellFormed(a), NEW c
  PROVE  applyAnnotationOverrides(c, w) = applyAnnotationOverrides(c, a)
<1>1. DOMAIN a = {"any", "image", "requestsCPU", "requestsMemory", "limitsCPU", "limitsMemory",
                  "envFrom", "mounts", "env", "debug"}
  BY InjectorAssumption DEF NoAnnotations
<1>2. /\ w.image = a.image /\ w.envFrom = a.envFrom /\ w.mounts = a.mounts
      /\ w.env = a.env /\ w.debug = a.debug
      /\ w.requestsCPU = Given(a.requestsCPU) /\ w.requestsMemory = Given(a.requestsMemory)
      /\ w.limitsMemory = Given(a.limitsMemory)
      /\ w.limitsCPU = IF a.limitsCPU \in {Blank, 0} THEN Blank ELSE Given(a.limitsCPU)
  BY <1>1 DEF WellFormed
<1>3. \A x, q : OverrideQuantity(x, Given(q)) = OverrideQuantity(x, q)
  BY DEF OverrideQuantity, Given, Quantity
<1>4. Unset # Blank /\ Quantity(0)
  BY StartupAssumption DEF Quantity
<1>5. \A x : (IF w.limitsCPU = Blank THEN 0 ELSE OverrideQuantity(x, w.limitsCPU))
              = (IF a.limitsCPU = Blank THEN 0 ELSE OverrideQuantity(x, a.limitsCPU))
  <2>1. CASE a.limitsCPU \in {Blank, 0}
    BY <1>2, <1>4, <2>1 DEF OverrideQuantity
  <2>2. CASE a.limitsCPU \notin {Blank, 0}
    <3>1. w.limitsCPU = Given(a.limitsCPU) /\ w.limitsCPU # Blank
      BY <1>2, <1>4, <2>2 DEF Given
    <3> QED
      BY <1>3, <2>2, <3>1
  <2> QED
    BY <2>1, <2>2
<1>6. \A k : GetAnnotationsWithPrefix(w, k) = GetAnnotationsWithPrefix(a, k)
  BY <1>2 DEF GetAnnotationsWithPrefix
<1>7. /\ \A x : OverrideQuantity(x, w.requestsCPU) = OverrideQuantity(x, a.requestsCPU)
      /\ \A x : OverrideQuantity(x, w.requestsMemory) = OverrideQuantity(x, a.requestsMemory)
      /\ \A x : OverrideQuantity(x, w.limitsMemory) = OverrideQuantity(x, a.limitsMemory)
  BY <1>2, <1>3
<1>8. {e \in UNION {GetAnnotationsWithPrefix(w, k) : k \in EnvKinds} : Understood(e)}
      = {e \in UNION {GetAnnotationsWithPrefix(a, k) : k \in EnvKinds} : Understood(e)}
  BY <1>6
<1> DEFINE
      Env(x) == {e \in UNION {GetAnnotationsWithPrefix(x, k) : k \in EnvKinds} : Understood(e)}
      Overridden(image, rc, rm, lc, lm, envFrom, mounts, env, debug) ==
        [c EXCEPT !.image = image, !.requestsCPU = rc, !.requestsMemory = rm, !.limitsCPU = lc,
                  !.limitsMemory = lm, !.envFrom = envFrom, !.mounts = mounts, !.env = env,
                  !.debug = debug]
      Over(x) ==
        Overridden(IF x.image = Unset THEN c.image ELSE x.image,
                   OverrideQuantity(c.requestsCPU, x.requestsCPU),
                   OverrideQuantity(c.requestsMemory, x.requestsMemory),
                   IF x.limitsCPU = Blank THEN 0 ELSE OverrideQuantity(c.limitsCPU, x.limitsCPU),
                   OverrideQuantity(c.limitsMemory, x.limitsMemory),
                   c.envFrom \cup x.envFrom,
                   IF x.mounts \in {Unset, Junk} THEN c.mounts ELSE c.mounts \cup x.mounts,
                   c.env \cup Env(x),
                   x.debug = "true")
<1>9. applyAnnotationOverrides(c, w) = Over(w) /\ applyAnnotationOverrides(c, a) = Over(a)
  BY DEF applyAnnotationOverrides
<1>10. Env(w) = Env(a)
  BY <1>8
<1> HIDE DEF Env, Overridden
<1>11. Over(w) = Over(a)
  BY <1>2, <1>5, <1>7, <1>10, Zenon
<1> QED
  BY <1>9, <1>11

(* Flags with which the webhook works give every sidecar its quantities.   *)
LEMMA SidecarQuantities ==
  ASSUME NEW p, NEW f, NEW native, ~newContainerConfigFails(f), NEW s, s = Sidecar(p, f, native)
  PROVE  /\ Quantity(s.requests.cpu) /\ Quantity(s.limits.memory)
         /\ s.limits.cpu \notin {0, Blank, Junk}
<1>0. PICK a : a = p.ann
  OBVIOUS
<1>1. /\ s.requests.cpu = OverrideQuantity(f.requestsCPU, a.requestsCPU)
      /\ s.limits.memory = OverrideQuantity(f.limitsMemory, a.limitsMemory)
      /\ s.limits.cpu = CPULimit(IF a.limitsCPU = Blank THEN 0 ELSE
                           OverrideQuantity(IF f.limitsCPU = Blank THEN 0 ELSE f.limitsCPU,
                                            a.limitsCPU))
  <2>1. /\ s.requests = [cpu |-> OverrideQuantity(f.requestsCPU, a.requestsCPU),
                         memory |-> OverrideQuantity(f.requestsMemory, a.requestsMemory)]
        /\ s.limits = [cpu |-> CPULimit(IF a.limitsCPU = Blank THEN 0 ELSE
                                 OverrideQuantity(IF f.limitsCPU = Blank THEN 0 ELSE f.limitsCPU,
                                                  a.limitsCPU)),
                       memory |-> OverrideQuantity(f.limitsMemory, a.limitsMemory)]
    BY <1>0, SidecarReads
  <2> QED
    BY <2>1
<1>2. /\ Quantity(f.requestsCPU) /\ Quantity(f.limitsMemory)
      /\ f.limitsCPU \notin {Blank, 0} => Quantity(f.limitsCPU)
  BY DEF newContainerConfigFails
<1>3. Unset \notin {0, Blank, Junk}
  BY StartupAssumption
<1> QED
  BY <1>1, <1>2, <1>3 DEF OverrideQuantity, CPULimit, Quantity

(* A generated name has at most 63 characters and keeps its dash.          *)
LEMMA NameFits ==
  ASSUME NEW prefix \in Nat, NEW id, id.len \in Nat, id.dash => id.len > 0
  PROVE  /\ generateSecretName(prefix, id).len <= 63
         /\ generateSecretName(prefix, id).dash
<1> DEFINE b == SecretNameBase(prefix, id)
           len == prefix + 1 + (IF id.dash THEN id.len - 1 ELSE id.len) + 1
<1>1. len \in Nat
  OBVIOUS
<1>2. b = [len |-> IF len > 57 THEN 58 ELSE len, dash |-> TRUE]
  BY DEF SecretNameBase
<1> HIDE DEF b, len
<1>3. b.len \in Nat /\ b.len <= 58
  BY <1>1, <1>2
<1>4. b.dash = TRUE
  BY <1>2
<1>5. generateSecretName(prefix, id) = GenerateName(b)
  BY DEF generateSecretName, b
<1>6. /\ GenerateName(b).len = (IF b.len > 58 THEN 58 ELSE b.len) + 5
      /\ GenerateName(b).dash = (b.dash /\ b.len <= 58)
  BY Zenon DEF GenerateName
<1>7. GenerateName(b).len <= 63
  BY <1>3, <1>6
<1>8. GenerateName(b).dash
  BY <1>3, <1>4, <1>6, Zenon
<1> QED
  BY <1>5, <1>7, <1>8

(* What Inject leaves of a pod, field by field.                            *)
LEMMA InjectShape ==
  ASSUME NEW p, NEW f, NEW native, NEW n, IsPod(p),
         NEW q, q = Inject(p, f, native, n), NEW s, s = Sidecar(p, f, native)
  PROVE  /\ IsPod(q)
         /\ q.containers = IF native THEN p.containers ELSE p.containers \cup {s}
         /\ q.initContainers = IF native THEN p.initContainers \cup {s} ELSE p.initContainers
         /\ q.volumes = p.volumes \cup {[name |-> "telegraf-config", secret |-> n]}
         /\ q.labels = [injected |-> TRUE, secretName |-> n]
         /\ q.nameLen = generateSecretName(f.secretNamePrefix, p.id)
<1>1. DOMAIN p = {"exists", "containers", "initContainers", "volumes", "labels", "ann",
                  "id", "nameLen"}
  BY DEF IsPod
<1>2. /\ q.containers = IF native THEN p.containers ELSE p.containers \cup {s}
      /\ q.initContainers = IF native THEN p.initContainers \cup {s} ELSE p.initContainers
      /\ q.volumes = p.volumes \cup {[name |-> "telegraf-config", secret |-> n]}
      /\ q.labels = [injected |-> TRUE, secretName |-> n]
      /\ q.nameLen = generateSecretName(f.secretNamePrefix, p.id)
  BY <1>1 DEF Inject
<1>3. q = [x \in DOMAIN p |-> q[x]]
  BY <1>1 DEF Inject, IsPod
<1>4. IsPod(q)
  BY <1>1, <1>3 DEF IsPod
<1> QED
  BY <1>2, <1>4

(* A new pod is in order, whether the webhook was reached or not.          *)
LEMMA NewPodOK ==
  ASSUME NEW m \in Manifests, NEW a, NEW n \in Nat
  PROVE  PodOK(NewPod(m, a), n)
<1>1. /\ \A x \in m.containers : x.own = FALSE
      /\ \A v \in m.volumes : v.secret = 0
  BY InjectorAssumption
<1> QED
  BY <1>1 DEF PodOK, IsPod, Whole, Fits, Own, OwnVolumes, NewPod, NoLabels

LEMMA InjectedOK ==
  ASSUME NEW m \in Manifests, NEW a, NEW n \in Nat, NEW f, NEW native,
         f.secretNamePrefix \in Nat
  PROVE  PodOK(Inject(NewPod(m, a), f, native, n + 1), n + 1)
<1> DEFINE p == NewPod(m, a)
           q == Inject(p, f, native, n + 1)
           s == Sidecar(p, f, native)
<1>1. /\ \A x \in m.containers : x.own = FALSE
      /\ \A v \in m.volumes : v.secret = 0
      /\ m.id.len \in Nat /\ (m.id.dash => m.id.len > 0)
      /\ Unset # "Always"
  BY InjectorAssumption
<1>2. /\ p.containers = m.containers /\ p.initContainers = {}
      /\ p.volumes = m.volumes /\ p.id = m.id
  BY DEF NewPod, IsPod
<1>3. s.own = TRUE /\ s.name = "telegraf" /\ s.restartPolicy = IF native THEN "Always" ELSE Unset
  BY SidecarShape
<1>20. IsPod(p) /\ q = Inject(p, f, native, n + 1) /\ s = Sidecar(p, f, native)
  BY DEF NewPod, IsPod
<1> HIDE DEF p, q, s
<1>4. /\ IsPod(q)
      /\ q.containers = IF native THEN p.containers ELSE p.containers \cup {s}
      /\ q.initContainers = IF native THEN p.initContainers \cup {s} ELSE p.initContainers
      /\ q.volumes = p.volumes \cup {[name |-> "telegraf-config", secret |-> n + 1]}
      /\ q.labels = [injected |-> TRUE, secretName |-> n + 1]
      /\ q.nameLen = generateSecretName(f.secretNamePrefix, p.id)
  BY <1>20, InjectShape
<1>5. Fits(q)
  BY <1>1, <1>2, <1>4, NameFits DEF Fits
<1>6. Own(q) = {s}
  BY <1>1, <1>2, <1>3, <1>4 DEF Own
<1>7. OwnVolumes(q) = {[name |-> "telegraf-config", secret |-> n + 1]}
  BY <1>1, <1>2, <1>4 DEF OwnVolumes
<1>8. q.containers \cap q.initContainers = {}
  BY <1>1, <1>2, <1>3, <1>4
<1>9. s.restartPolicy = "Always" <=> s \in q.initContainers
  BY <1>1, <1>2, <1>3, <1>4
<1>10. Whole(q)
  BY <1>4, <1>6, <1>7, <1>8, <1>9 DEF Whole
<1>11. \A v \in q.volumes : v.secret \in 0..(n + 1)
  BY <1>1, <1>2, <1>4
<1> QED
  BY <1>3, <1>4, <1>5, <1>6, <1>10, <1>11 DEF PodOK, q, p

(* The API server takes what the webhook makes of a pod that it would take *)
(* as it is, that clashes with nothing and asks for nothing impossible.    *)
LEMMA InjectedAccepted ==
  ASSUME NEW m \in Manifests, NEW a \in Annotations, NEW f, NEW native, NEW n,
         Acceptance(NewPod(m, a)), ~Clashes(m), ~AskedFor(m, a), ~NeverWork(f),
         ~newContainerConfigFails(f),
         \A x \in QuantityFlags : f[x] \notin {Blank, Junk} => f[x] \in Int
  PROVE  Acceptance(Inject(NewPod(m, a), f, native, n))
<1>1. PICK p : p = NewPod(m, a)
  OBVIOUS
<1>2. PICK s : s = Sidecar(p, f, native)
  OBVIOUS
<1>3. PICK q : q = Inject(p, f, native, n)
  OBVIOUS
<1>4. /\ IsPod(p) /\ p.containers = m.containers /\ p.initContainers = {}
      /\ p.volumes = m.volumes /\ p.ann = a
  BY <1>1 DEF NewPod, IsPod
<1>5. \A x \in m.containers : x.own = FALSE
  BY InjectorAssumption
<1>6. s.own = TRUE /\ s.name = "telegraf"
  BY <1>2, SidecarShape
<1>7. /\ q.containers = IF native THEN p.containers ELSE p.containers \cup {s}
      /\ q.initContainers = IF native THEN p.initContainers \cup {s} ELSE p.initContainers
      /\ q.volumes = p.volumes \cup {[name |-> "telegraf-config", secret |-> n]}
  <2>1. IsPod(p) /\ q = Inject(p, f, native, n) /\ s = Sidecar(p, f, native)
    BY <1>2, <1>3, <1>4
  <2>2. /\ IsPod(q)
        /\ q.containers = IF native THEN p.containers ELSE p.containers \cup {s}
        /\ q.initContainers = IF native THEN p.initContainers \cup {s} ELSE p.initContainers
        /\ q.volumes = p.volumes \cup {[name |-> "telegraf-config", secret |-> n]}
        /\ q.labels = [injected |-> TRUE, secretName |-> n]
        /\ q.nameLen = generateSecretName(f.secretNamePrefix, p.id)
    BY <2>1, InjectShape
  <2> QED
    BY <2>2
<1>8. q.containers \cup q.initContainers = m.containers \cup {s}
  BY <1>4, <1>7
<1>9. NamesOnce(q.containers \cup q.initContainers)
  <2>1. NamesOnce(m.containers)
    BY <1>1, <1>4 DEF Acceptance, NamesOnce
  <2>2. \A x \in m.containers : x.name # "telegraf"
    BY DEF Clashes
  <2> QED
    BY <1>6, <1>8, <2>1, <2>2 DEF NamesOnce
<1>10. NamesOnce(q.volumes)
  <2>1. NamesOnce(m.volumes)
    BY <1>1, <1>4 DEF Acceptance
  <2>2. \A v \in m.volumes : v.name # "telegraf-config"
    BY DEF Clashes
  <2> QED
    BY <1>4, <1>7, <2>1, <2>2 DEF NamesOnce
<1>11. {y \in q.containers \cup q.initContainers : y.own} = {s}
  BY <1>5, <1>6, <1>8
<1>12. /\ s.image = IF a.image = Unset THEN f.image ELSE a.image
       /\ s.requests = [cpu |-> OverrideQuantity(f.requestsCPU, a.requestsCPU),
                        memory |-> OverrideQuantity(f.requestsMemory, a.requestsMemory)]
       /\ s.limits = [cpu |-> CPULimit(IF a.limitsCPU = Blank THEN 0 ELSE
                                OverrideQuantity(IF f.limitsCPU = Blank THEN 0 ELSE f.limitsCPU,
                                                 a.limitsCPU)),
                      memory |-> OverrideQuantity(f.limitsMemory, a.limitsMemory)]
       /\ s.mounts = (IF a.mounts \in {Unset, Junk} THEN {} ELSE {} \cup a.mounts)
                     \cup {"telegraf-config"}
       /\ s.env = FieldRefs \cup
            {e \in UNION {GetAnnotationsWithPrefix(a, k) : k \in EnvKinds} : Understood(e)}
       /\ s.securityContext = buildSecurityContext(f)
  BY <1>2, <1>4, SidecarReads
<1>13. /\ ~Quantity(a.requestsCPU) /\ ~Quantity(a.requestsMemory) /\ ~Quantity(a.limitsMemory)
       /\ Quantity(a.limitsCPU) => a.limitsCPU = 0
       /\ a.mounts \notin {Unset, Junk} => a.mounts \subseteq {v.name : v \in m.volumes}
       /\ a.image # Blank
  BY DEF AskedFor
<1>14. /\ f.requestsCPU \in Int /\ f.requestsMemory \in Int /\ f.limitsMemory \in Int
       /\ f.limitsCPU \notin {Blank, 0} => f.limitsCPU \in Int
  BY DEF newContainerConfigFails, Quantity, QuantityFlags
<1>15. Within(s.requests.cpu, s.limits.cpu)
  <2>1. s.requests.cpu = f.requestsCPU
    BY <1>12, <1>13 DEF OverrideQuantity
  <2>2. s.limits.cpu \in {Unset, f.limitsCPU}
        /\ (f.limitsCPU \in {Blank, 0} => s.limits.cpu = Unset)
    BY <1>12, <1>13 DEF OverrideQuantity, CPULimit
  <2>3. f.limitsCPU \notin {Blank, 0} => ~(f.requestsCPU > f.limitsCPU)
    BY DEF NeverWork
  <2> QED
    BY <1>14, <2>1, <2>2, <2>3 DEF Within
<1>16. Within(s.requests.memory, s.limits.memory)
  <2>1. s.requests.memory = f.requestsMemory /\ s.limits.memory = f.limitsMemory
    BY <1>12, <1>13 DEF OverrideQuantity
  <2>2. ~(f.requestsMemory > f.limitsMemory)
    BY DEF NeverWork
  <2> QED
    BY <1>14, <2>1, <2>2 DEF Within
<1>17. s.mounts \subseteq {v.name : v \in q.volumes}
  <2>1. \A v \in m.volumes : v.name \in {w.name : w \in q.volumes}
    BY <1>4, <1>7
  <2>2. "telegraf-config" \in {w.name : w \in q.volumes}
    <3>1. [name |-> "telegraf-config", secret |-> n].name = "telegraf-config"
      OBVIOUS
    <3>2. [name |-> "telegraf-config", secret |-> n] \in q.volumes
      BY <1>7
    <3> QED
      BY <3>1, <3>2, Zenon
  <2> QED
    BY <1>12, <1>13, <2>1, <2>2
<1>18. s.image # Blank
  BY <1>12, <1>13 DEF NeverWork
<1>19. ASSUME NEW e \in s.env, e.kind = "fieldref" PROVE e.value # Junk
  <2>1. CASE e \in FieldRefs
    BY <2>1, InjectorAssumption DEF FieldRefs
  <2>2. CASE e \in a.env
    <3>1. e.value = Junk =>
            [kind |-> "fieldref", value |-> Junk] \in {[kind |-> x.kind, value |-> x.value] : x \in a.env}
      BY <1>19, <2>2
    <3> QED
      BY <3>1 DEF AskedFor
  <2> QED
    BY <1>12, <1>19, <2>1, <2>2 DEF GetAnnotationsWithPrefix
<1>20. s.securityContext # Unset => ValidUser(s.securityContext.runAsUser)
  <2>1. ValidUser(f.runAsUser)
    BY DEF NeverWork
  <2> QED
    BY <1>12, <2>1 DEF buildSecurityContext
<1>21. Acceptance(q)
  BY <1>9, <1>10, <1>11, <1>15, <1>16, <1>17, <1>18, <1>19, <1>20 DEF Acceptance
<1> QED
  BY <1>1, <1>3, <1>21

(* The sidecar of an injected pod is the one its well-formed annotations   *)
(* ask for.                                                                *)
LEMMA InjectedSidecar ==
  ASSUME NEW m \in Manifests, NEW a \in Annotations, NEW f, NEW native, NEW n,
         NEW q, q = Inject(NewPod(m, a), f, native, n)
  PROVE  /\ Own(q) = {Sidecar(NewPod(m, a), f, native)}
         /\ Sidecar([q EXCEPT !.ann = WellFormed(@)], f, native)
              = Sidecar(NewPod(m, a), f, native)
<1>1. PICK p : p = NewPod(m, a)
  OBVIOUS
<1>2. PICK s : s = Sidecar(p, f, native)
  OBVIOUS
<1>3. /\ IsPod(p) /\ p.containers = m.containers /\ p.initContainers = {} /\ p.ann = a
  BY <1>1 DEF NewPod, IsPod
<1>4. IsPod(p) /\ q = Inject(p, f, native, n) /\ s = Sidecar(p, f, native)
  BY <1>1, <1>2, <1>3
<1>5. /\ IsPod(q)
      /\ q.containers = IF native THEN p.containers ELSE p.containers \cup {s}
      /\ q.initContainers = IF native THEN p.initContainers \cup {s} ELSE p.initContainers
      /\ q.volumes = p.volumes \cup {[name |-> "telegraf-config", secret |-> n]}
      /\ q.labels = [injected |-> TRUE, secretName |-> n]
      /\ q.nameLen = generateSecretName(f.secretNamePrefix, p.id)
  BY <1>4, InjectShape
<1>6. Own(q) = {s}
  <2>1. s.own = TRUE
    BY <1>2, SidecarShape
  <2>2. \A x \in m.containers : x.own = FALSE
    BY InjectorAssumption
  <2> QED
    BY <1>3, <1>5, <2>1, <2>2 DEF Own
<1>7. q.ann = a
  <2>1. DOMAIN p = {"exists", "containers", "initContainers", "volumes", "labels", "ann",
                    "id", "nameLen"}
    BY <1>3 DEF IsPod
  <2> QED
    BY <1>3, <1>4, <2>1 DEF Inject
<1>8. [q EXCEPT !.ann = WellFormed(@)].ann = WellFormed(a)
  BY <1>5, <1>7 DEF IsPod
<1>9. applyAnnotationOverrides(newContainerConfig(f), WellFormed(a))
        = applyAnnotationOverrides(newContainerConfig(f), a)
  BY FallsBack
<1>10. Sidecar([q EXCEPT !.ann = WellFormed(@)], f, native) = s
  <2> DEFINE Built(c) == [buildContainerSpec(c) EXCEPT !.restartPolicy =
                                                         IF native THEN "Always" ELSE @]
  <2>1. \A r : Sidecar(r, f, native)
                = Built(applyAnnotationOverrides(newContainerConfig(f), r.ann))
    BY DEF Sidecar
  <2> HIDE DEF Built
  <2> QED
    BY <1>2, <1>3, <1>8, <1>9, <2>1
<1> QED
  BY <1>1, <1>2, <1>6, <1>10

-----------------------------------------------------------------------------
(***************************************************************************)
(* The steps.                                                              *)
(***************************************************************************)

(* A created pod is in order.                                              *)
LEMMA CreateStep ==
  ASSUME PodInv, ProcessInv,
         NEW m \in Manifests, NEW a \in Annotations, NEW reached \in Reachable,
         CreatePod(m, a, reached)
  PROVE  PodInv'
<1> DEFINE new == NewPod(m, a)
           res == IF reached THEN Default(new, flags, NativeSidecars, drawn + 1) ELSE new
<1>1. \/ pod' = NoPod /\ drawn' \in {drawn, drawn + 1}
      \/ pod' = res /\ drawn' = drawn + 1
  BY DEF CreatePod, NewPod
<1>2. drawn \in Nat /\ flags.secretNamePrefix \in Nat
  BY DEF PodInv, ProcessInv, FlagsTyped
<1>3. res \in {new, Inject(new, flags, NativeSidecars, drawn + 1)}
  BY DEF Default
<1>4. PodOK(new, drawn + 1)
  BY <1>2, NewPodOK
<1>5. PodOK(Inject(new, flags, NativeSidecars, drawn + 1), drawn + 1)
  BY <1>2, InjectedOK
<1> HIDE DEF res, new
<1> QED
  BY <1>1, <1>2, <1>3, <1>4, <1>5 DEF PodInv

(* An update leaves the pod in order: the webhook cannot inject a pod that *)
(* is there, since the API server would have to take a new volume.         *)
LEMMA UpdateStep ==
  ASSUME PodInv,
         NEW a \in Annotations, NEW reached \in Reachable, UpdatePod(a, reached)
  PROVE  PodInv'
<1> DEFINE new == [pod EXCEPT !.ann = a]
           inj == Inject(new, flags, NativeSidecars, drawn + 1)
           res == IF reached THEN Default(new, flags, NativeSidecars, drawn + 1) ELSE new
<1>1. pod # NoPod /\ drawn \in Nat /\ PodOK(pod, drawn)
  BY DEF UpdatePod, PodInv
<1>2. /\ IsPod(new) /\ new.containers = pod.containers
      /\ new.initContainers = pod.initContainers /\ new.volumes = pod.volumes
      /\ new.labels = pod.labels /\ new.nameLen = pod.nameLen
  BY <1>1 DEF PodOK, IsPod
<1>3. \/ pod' = pod /\ drawn' \in {drawn, drawn + 1}
      \/ ImmutableSpec(res) = ImmutableSpec(pod) /\ pod' = res /\ drawn' = drawn
  BY DEF UpdatePod
<1>4. res \in {new, inj}
  BY DEF Default
<1> HIDE DEF new, inj, res
<1>5. inj.volumes = new.volumes \cup {[name |-> "telegraf-config", secret |-> drawn + 1]}
  <2>1. DOMAIN new = {"exists", "containers", "initContainers", "volumes", "labels", "ann",
                      "id", "nameLen"}
    BY <1>2 DEF IsPod
  <2> QED
    BY <2>1 DEF inj, Inject
<1>6. ImmutableSpec(inj) # ImmutableSpec(pod)
  <2>1. [name |-> "telegraf-config", secret |-> drawn + 1] \in inj.volumes
    BY <1>5
  <2>2. \A v \in pod.volumes : v.secret \in 0..drawn
    BY <1>1 DEF PodOK
  <2>3. [name |-> "telegraf-config", secret |-> drawn + 1] \notin pod.volumes
    BY <1>1, <2>2
  <2> QED
    BY <2>1, <2>3 DEF ImmutableSpec
<1>7. Own(new) = Own(pod) /\ OwnVolumes(new) = OwnVolumes(pod)
  BY <1>2 DEF Own, OwnVolumes
<1>8. PodOK(new, drawn)
  BY <1>1, <1>2, <1>7 DEF PodOK, Whole, Fits
<1>9. PodOK(pod, drawn + 1)
  BY <1>1 DEF PodOK
<1>10. CASE pod' = pod /\ drawn' \in {drawn, drawn + 1}
  BY <1>1, <1>9, <1>10 DEF PodInv
<1>11. CASE ImmutableSpec(res) = ImmutableSpec(pod) /\ pod' = res /\ drawn' = drawn
  <2>1. pod' = new
    BY <1>4, <1>6, <1>11
  <2> QED
    BY <1>1, <1>8, <1>11, <2>1 DEF PodInv
<1> QED
  BY <1>3, <1>10, <1>11

(* What is said of the answer to a request is said of one that creates.    *)
LEMMA CreateAnswers ==
  ASSUME PodInv, ProcessInv,
         NEW m \in Manifests, NEW a \in Annotations, NEW reached \in Reachable,
         CreatePod(m, a, reached)
  PROVE  InjectionDoesNoHarm' /\ BadQuantitiesFallBack'
<1>1. PICK new, f, native, n : /\ new = NewPod(m, a) /\ f = flags /\ native = NativeSidecars
                               /\ n = drawn + 1
  OBVIOUS
<1>2. f = flags' /\ native = NativeSidecars'
  BY <1>1 DEF CreatePod, process, NativeSidecars
<1>3. PICK res : res = IF reached THEN Default(new, f, native, n) ELSE new
  OBVIOUS
<1>4. \/ verdict' = [is |-> "denied"]
      \/ /\ ~(reached /\ Denied(new, f, native)) /\ ~Acceptance(res)
         /\ verdict' = [is |-> "rejected", manifest |-> m, ann |-> a]
      \/ /\ ~(reached /\ Denied(new, f, native))
         /\ verdict' = [is |-> "created"] /\ pod' = res
  BY <1>1, <1>3 DEF CreatePod
<1>5. \/ res = new
      \/ res = Inject(new, f, native, n) /\ (Denied(new, f, native) \/ ~newContainerConfigFails(f))
         /\ reached
  BY <1>3 DEF Default, Denied
<1>6. \A x \in QuantityFlags : f[x] \notin {Blank, Junk} => f[x] \in Int
  BY <1>1 DEF ProcessInv, FlagsTyped
<1>7. InjectionDoesNoHarm'
  <2> SUFFICES ASSUME verdict'.is = "rejected",
                      Acceptance(NewPod(m, a)), ~Clashes(m), ~AskedFor(m, a), ~NeverWork(f)
               PROVE  FALSE
    <3>1. verdict'.is = "rejected" => verdict'.manifest = m /\ verdict'.ann = a
      BY <1>4
    <3> QED
      BY <1>2, <3>1 DEF InjectionDoesNoHarm
  <2>1. ~Acceptance(res) /\ ~(reached /\ Denied(new, f, native))
    BY <1>4
  <2>2. res = Inject(new, f, native, n) /\ ~newContainerConfigFails(f)
    BY <1>1, <1>5, <2>1
  <2> QED
    BY <1>1, <1>6, <2>1, <2>2, InjectedAccepted
<1>8. BadQuantitiesFallBack'
  <2> SUFFICES ASSUME verdict'.is = "created", NEW x \in Own(pod')
               PROVE  /\ x = Sidecar([pod' EXCEPT !.ann = WellFormed(@)], f, native)
                      /\ Quantity(x.requests.cpu) /\ Quantity(x.limits.memory)
                      /\ x.limits.cpu \notin {0, Blank, Junk}
    BY <1>2 DEF BadQuantitiesFallBack
  <2>1. pod' = res /\ ~(reached /\ Denied(new, f, native))
    BY <1>4
  <2>2. Own(new) = {}
    <3>1. PodOK(new, 0)
      BY <1>1, NewPodOK
    <3> QED
      BY <1>1, <3>1 DEF PodOK, Whole, NewPod, NoLabels
  <2>3. res = Inject(new, f, native, n) /\ ~newContainerConfigFails(f)
    BY <1>5, <2>1, <2>2
  <2>4. /\ Own(res) = {Sidecar(new, f, native)}
        /\ Sidecar([res EXCEPT !.ann = WellFormed(@)], f, native) = Sidecar(new, f, native)
    BY <1>1, <2>3, InjectedSidecar
  <2>5. x = Sidecar(new, f, native)
    BY <2>1, <2>4
  <2>6. x = Sidecar([pod' EXCEPT !.ann = WellFormed(@)], f, native)
    BY <2>1, <2>4, <2>5
  <2> QED
    BY <2>3, <2>5, <2>6, SidecarQuantities
<1> QED
  BY <1>7, <1>8

(* Flags that were validated fail the webhook only where they are blank.   *)
LEMMA OnlyBlankFails ==
  ASSUME NEW f, validateRequestsAndLimits(f), newContainerConfigFails(f)
  PROVE  Blank \in {f.requestsCPU, f.requestsMemory, f.limitsMemory}
BY DEF validateRequestsAndLimits, newContainerConfigFails

Answers == InjectionDoesNoHarm /\ BadQuantitiesFallBack

Inv == ProcessInv /\ PodInv /\ DeniedOnlyForBlankFlags /\ Answers

(* Only a request that creates is answered with either.                    *)
LEMMA OtherAnswers ==
  ASSUME verdict'.is \notin {"rejected", "created"}
  PROVE  Answers'
BY DEF Answers, InjectionDoesNoHarm, BadQuantitiesFallBack

LEMMA InvHolds == Spec => []Inv
<1>1. Init => Inv
  <2> SUFFICES ASSUME Init PROVE Inv
    OBVIOUS
  <2>1. ProcessInv
    BY ProcessInit DEF Init
  <2>2. PodInv /\ DeniedOnlyForBlankFlags /\ Answers
    BY DEF Init, PodInv, DeniedOnlyForBlankFlags, NoVerdict, Answers, InjectionDoesNoHarm,
           BadQuantitiesFallBack
  <2> QED
    BY <2>1, <2>2 DEF Inv
<1>2. Inv /\ [Next]_vars => Inv'
  <2> SUFFICES ASSUME Inv, [Next]_vars PROVE Inv'
    OBVIOUS
  <2>1. ProcessInv /\ PodInv /\ DeniedOnlyForBlankFlags /\ Answers
    BY DEF Inv
  <2>2. ASSUME UNCHANGED process PROVE ProcessInv' /\ flags' = flags
    BY <2>1, <2>2, ProcessStutter
  <2>3. ASSUME NEW m \in Manifests, NEW a \in Annotations, NEW reached \in Reachable,
               CreatePod(m, a, reached)
        PROVE  Inv'
    <3>1. ProcessInv' /\ flags' = flags
      BY <2>2, <2>3 DEF CreatePod
    <3>2. PodInv'
      BY <2>1, <2>3, CreateStep
    <3>3. verdict'.is = "denied" => reached /\ newContainerConfigFails(flags)
      BY <2>3 DEF CreatePod, Denied
    <3>4. reached => stage = "serving"
      BY <2>3 DEF Reachable
    <3>5. DeniedOnlyForBlankFlags'
      BY <2>1, <3>1, <3>3, <3>4, OnlyBlankFails DEF DeniedOnlyForBlankFlags, ProcessInv
    <3>6. Answers'
      BY <2>1, <2>3, CreateAnswers DEF Answers
    <3> QED
      BY <3>1, <3>2, <3>5, <3>6 DEF Inv
  <2>4. ASSUME NEW a \in Annotations, NEW reached \in Reachable, UpdatePod(a, reached)
        PROVE  Inv'
    <3>1. ProcessInv' /\ flags' = flags
      BY <2>2, <2>4 DEF UpdatePod
    <3>2. PodInv'
      BY <2>1, <2>4, UpdateStep
    <3>3. verdict'.is = "denied" => reached /\ newContainerConfigFails(flags)
      BY <2>4 DEF UpdatePod, Denied
    <3>4. reached => stage = "serving"
      BY <2>4 DEF Reachable
    <3>5. DeniedOnlyForBlankFlags'
      BY <2>1, <3>1, <3>3, <3>4, OnlyBlankFails DEF DeniedOnlyForBlankFlags, ProcessInv
    <3>6. Answers'
      <4>1. verdict'.is \in {"denied", "refused", "updated"}
        BY <2>4 DEF UpdatePod
      <4> QED
        BY <4>1, OtherAnswers
    <3> QED
      BY <3>1, <3>2, <3>5, <3>6 DEF Inv
  <2>5. CASE DeletePod
    <3>1. ProcessInv'
      BY <2>2, <2>5 DEF DeletePod
    <3>2. PodInv' /\ DeniedOnlyForBlankFlags'
      BY <2>1, <2>5 DEF DeletePod, PodInv, DeniedOnlyForBlankFlags, NoVerdict
    <3>3. Answers'
      BY <2>5, OtherAnswers DEF DeletePod, NoVerdict
    <3> QED
      BY <3>1, <3>2, <3>3 DEF Inv
  <2>6. CASE Operator
    <3>1. ProcessInv'
      BY <2>1, <2>6, ProcessStep DEF Operator
    <3>2. PodInv'
      BY <2>1, <2>6 DEF Operator, PodInv
    <3>3. DeniedOnlyForBlankFlags'
      BY <2>6 DEF Operator, DeniedOnlyForBlankFlags, NoVerdict
    <3>4. Answers'
      BY <2>6, OtherAnswers DEF Operator, NoVerdict
    <3> QED
      BY <3>1, <3>2, <3>3, <3>4 DEF Inv
  <2>7. CASE UNCHANGED vars
    <3>1. ProcessInv' /\ flags' = flags
      BY <2>2, <2>7 DEF vars
    <3>2. PodInv' /\ DeniedOnlyForBlankFlags'
      BY <2>1, <2>7, <3>1 DEF vars, PodInv, DeniedOnlyForBlankFlags
    <3>3. Answers'
      BY <2>1, <2>7 DEF vars, process, Answers, InjectionDoesNoHarm, BadQuantitiesFallBack,
                        NativeSidecars
    <3> QED
      BY <3>1, <3>2, <3>3 DEF Inv
  <2> QED
    BY <2>3, <2>4, <2>5, <2>6, <2>7 DEF Next
<1> QED
  BY <1>1, <1>2, PTL DEF Spec

(* For every manifest, every annotation map and every history of updates,  *)
(* redeployments and missed webhook calls: a pod is injected as a whole,   *)
(* once and in one place, or not at all.                                   *)
THEOREM InjectedAsAWhole == Spec => []InjectionIsWhole
<1>1. Inv => InjectionIsWhole
  BY DEF Inv, PodInv, PodOK, Whole, InjectionIsWhole
<1> QED
  BY <1>1, InvHolds, PTL

(* For every prefix on the command line and every pod name: the name of    *)
(* the secret fits its 63 characters and keeps the dash before the suffix. *)
THEOREM SecretNamesFit == Spec => []SecretNameFits
<1>1. Inv => SecretNameFits
  BY DEF Inv, PodInv, PodOK, Fits, SecretNameFits
<1> QED
  BY <1>1, InvHolds, PTL

(* For every command line, parsed in every order of arguments: the webhook *)
(* turns a pod away only where a required quantity was left blank.         *)
THEOREM OnlyBlankFlagsDeny == Spec => []DeniedOnlyForBlankFlags
<1>1. Inv => DeniedOnlyForBlankFlags
  BY DEF Inv
<1> QED
  BY <1>1, InvHolds, PTL

(* No edit of the annotations makes the webhook inject a pod again, as     *)
(* long as the gate of the native sidecars is as it was.                   *)
THEOREM InjectedOnce == Spec => []InjectedIsSettled
<1>1. Inv => InjectedIsSettled
  <2> SUFFICES ASSUME Inv, pod # NoPod, pod.labels.injected,
                      NativeSidecars = (\E x \in pod.initContainers : x.own),
                      NEW a \in Annotations
               PROVE  hasTelegrafContainer([pod EXCEPT !.ann = a], NativeSidecars)
    BY DEF InjectedIsSettled, shouldInjectContainer
  <2>1. IsPod(pod) /\ Whole(pod) /\ \A x \in Own(pod) : x.name = "telegraf"
    BY DEF Inv, PodInv, PodOK
  <2>2. /\ [pod EXCEPT !.ann = a].containers = pod.containers
        /\ [pod EXCEPT !.ann = a].initContainers = pod.initContainers
    BY <2>1 DEF IsPod
  <2>3. PICK x \in Own(pod) : Own(pod) = {x}
    BY <2>1 DEF Whole
  <2>4. x.own /\ TelegrafNamed(x) /\ x \in pod.containers \cup pod.initContainers
    BY <2>1, <2>3 DEF Own, TelegrafNamed
  <2>5. CASE x \in pod.initContainers
    <3>1. NativeSidecars
      BY <2>4, <2>5
    <3> QED
      BY <2>2, <2>4, <2>5, <3>1 DEF hasTelegrafContainer
  <2>6. CASE x \notin pod.initContainers
    <3>1. \A y \in pod.initContainers : ~y.own
      BY <2>3, <2>6 DEF Own
    <3>2. ~NativeSidecars
      BY <3>1
    <3> QED
      BY <2>2, <2>4, <2>6, <3>2 DEF hasTelegrafContainer
  <2> QED
    BY <2>5, <2>6
<1> QED
  BY <1>1, InvHolds, PTL

(* For every manifest, annotation map and command line: the API server     *)
(* rejects an injected pod only for what the pod itself, its annotations   *)
(* or flags that can never work ask for; never for a value that does not   *)
(* parse.                                                                  *)
THEOREM InjectionIsHarmless == Spec => []InjectionDoesNoHarm
<1>1. Inv => InjectionDoesNoHarm
  BY DEF Inv, Answers
<1> QED
  BY <1>1, InvHolds, PTL

(* For every annotation map: the sidecar is the one the pod would have got *)
(* without the quantities that do not parse, and has all its quantities.   *)
THEOREM BadQuantitiesAlwaysFallBack == Spec => []BadQuantitiesFallBack
<1>1. Inv => BadQuantitiesFallBack
  BY DEF Inv, Answers
<1> QED
  BY <1>1, InvHolds, PTL

(* For every command line, of any number of arguments in any order, and    *)
(* for lists of gates of any length: a process serves only if all of it is *)
(* acceptable, and with what it says last about each flag and each gate.   *)
THEOREM AlwaysServesAsTold == Spec => []ServesAsTold
<1>1. Inv => ServesAsTold
  BY ReadsAll DEF Inv
<1> QED
  BY <1>1, InvHolds, PTL

(* For every finite set of gates and every list of them on the command     *)
(* line: the text of the registry, given to a registry in any state,       *)
(* brings back these very gates and no error.                              *)
THEOREM GatesAlwaysRoundTrip == Spec => []GatesRoundTrip
<1>1. Inv => GatesRoundTrip
  BY TextSaysAll DEF Inv
<1> QED
  BY <1>1, InvHolds, PTL

=============================================================================
