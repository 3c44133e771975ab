--------------------------- MODULE SidecarInjector ---------------------------
(***************************************************************************)
(* The admission webhook (internal/injectorwebhook): one pod on its way    *)
(* through the API server, created once and updated at any time later,     *)
(* while the operator is redeployed with other flags and gates.            *)
(***************************************************************************)
EXTENDS Startup

CONSTANTS
  Manifests,    \* pods users create
  Annotations,  \* annotation maps, for manifests and for later edits
  MaxNames      \* bound: secret names drawn

(* The annotations the webhook reads: one with the prefix of the operator  *)
(* is there, and the values.  Environment variables come from annotations  *)
(* named by kind and variable, the mounts from one JSON object.            *)
NoAnnotations ==
  [any |-> FALSE, image |-> Unset, requestsCPU |-> Unset, requestsMemory |-> Unset,
   limitsCPU |-> Unset, limitsMemory |-> Unset, envFrom |-> {}, mounts |-> Unset,
   env |-> {}, debug |-> Unset]

(* Nothing in a manifest was made by the operator.                         *)
ASSUME InjectorAssumption ==
  /\ Unset # "Always" /\ Junk # "path"
  /\ \A a \in Annotations : DOMAIN a = DOMAIN NoAnnotations
  /\ MaxNames \in Nat
  /\ \A m \in Manifests :
       /\ \A x \in m.containers : x.own = FALSE
       /\ \A v \in m.volumes : v.secret = 0
       /\ m.id.len \in Nat /\ (m.id.dash => m.id.len > 0)

VARIABLES
  pod,      \* the pod the API server holds, or NoPod
  drawn,    \* secret names generated so far
  verdict   \* what became of the last request

vars == <<process, pod, drawn, verdict>>

NoPod == [exists |-> FALSE]
NoLabels == [injected |-> FALSE, secretName |-> 0]
NoVerdict == [is |-> "none"]
NativeSidecars == gates["operator.nativesidecars"]

Init == StartupInit /\ pod = NoPod /\ drawn = 0 /\ verdict = NoVerdict

-----------------------------------------------------------------------------
(***************************************************************************)
(* The container (sidecar.go).  A quantity is a number; 0 is no quantity.  *)
(***************************************************************************)
newContainerConfigFails(f) ==
  \/ ~Quantity(f.requestsCPU) \/ ~Quantity(f.requestsMemory)
  \/ f.limitsCPU \notin {Blank, 0} /\ ~Quantity(f.limitsCPU)
  \/ ~Quantity(f.limitsMemory)

(* Nil when nothing is set.  A list of capabilities is a set of names; an  *)
(* empty name between two commas stays in it.                              *)
buildSecurityContext(f) ==
  IF f.capAdd = Blank /\ f.capDrop = Blank /\ \A o \in Optional : f[o] = Unset
  THEN Unset
  ELSE [runAsUser |-> f.runAsUser, runAsGroup |-> f.runAsGroup,
        runAsNonRoot |-> f.runAsNonRoot, readOnlyRootFS |-> f.readOnlyRootFS,
        allowPrivEsc |-> f.allowPrivEsc,
        add |-> IF f.capAdd = Blank THEN {} ELSE f.capAdd,
        drop |-> IF f.capDrop = Blank THEN {} ELSE f.capDrop]

newContainerConfig(f) ==
  [requestsCPU |-> f.requestsCPU, requestsMemory |-> f.requestsMemory,
   limitsCPU |-> IF f.limitsCPU = Blank THEN 0 ELSE f.limitsCPU,
   limitsMemory |-> f.limitsMemory, image |-> f.image, debug |-> FALSE,
   env |-> [name : {"PODNAME", "NODENAME", "NAMESPACE"}, kind : {"fieldref"}, value : {"path"}],
   envFrom |-> {}, mounts |-> {},
   watchConfig |-> f.watchConfig, securityContext |-> buildSecurityContext(f)]

(* Mutant: the error is ignored, and what ParseQuantity returns is zero.   *)
MutantOverrideQuantity(default, a) ==
  IF a = Unset THEN default ELSE IF Quantity(a) THEN a ELSE 0

OverrideQuantity(default, a) == IF Quantity(a) THEN a ELSE default

(* The variables that annotations of one kind ask for.                     *)
EnvKinds == {"literal", "fieldref", "secretkeyref", "configmapkeyref"}
GetAnnotationsWithPrefix(a, kind) == {e \in a.env : e.kind = kind}

(* A key reference without a "." in it is dropped; literals and field      *)
(* paths are taken as they are.                                            *)
Understood(e) == e.kind \in {"secretkeyref", "configmapkeyref"} => e.value # Junk

(* A volume-mounts annotation that is no JSON object is dropped as a whole.*)
applyAnnotationOverrides(c, a) ==
  [c EXCEPT
     !.image          = IF a.image = Unset THEN @ ELSE a.image,
     !.requestsCPU    = OverrideQuantity(@, a.requestsCPU),
     !.requestsMemory = OverrideQuantity(@, a.requestsMemory),
     !.limitsCPU      = IF a.limitsCPU = Blank THEN 0
                        ELSE OverrideQuantity(@, a.limitsCPU),
     !.limitsMemory   = OverrideQuantity(@, a.limitsMemory),
     !.envFrom        = @ \cup a.envFrom,
     !.mounts         = IF a.mounts \in {Unset, Junk} THEN @ ELSE @ \cup a.mounts,
     !.env            = @ \cup {e \in UNION {GetAnnotationsWithPrefix(a, k) : k \in EnvKinds} :
                                   Understood(e)},
     !.debug          = a.debug = "true"]

(* Mutant: a CPU limit of zero is written down.                            *)
MutantCPULimit(q) == q

CPULimit(q) == IF q = 0 THEN Unset ELSE q

buildContainerSpec(c) ==
  [name |-> "telegraf", own |-> TRUE,
   image |-> c.image, env |-> c.env, envFrom |-> c.envFrom,
   command |-> (IF c.debug THEN {<<"--debug">>} ELSE {})
               \cup (IF c.watchConfig = Blank THEN {} ELSE {<<"--watch-config", c.watchConfig>>}),
   requests |-> [cpu |-> c.requestsCPU, memory |-> c.requestsMemory],
   limits |-> [cpu |-> CPULimit(c.limitsCPU), memory |-> c.limitsMemory],
   mounts |-> c.mounts \cup {"telegraf-config"},
   securityContext |-> c.securityContext, restartPolicy |-> Unset]

-----------------------------------------------------------------------------
(***************************************************************************)
(* Admission (injector.go).  A pod: its containers in each of the two      *)
(* lists, its volumes, the labels, the annotations, and the length of the  *)
(* identifier its secret is named for.                                     *)
(***************************************************************************)
TelegrafNamed(x) == x.name \in {"telegraf", "my-telegraf"}

(* Mutant: only the ordinary containers are looked at.                     *)
MutantHasTelegrafContainer(p, native) == \E x \in p.containers : TelegrafNamed(x)

hasTelegrafContainer(p, native) ==
  \E x \in IF native THEN p.initContainers ELSE p.containers : TelegrafNamed(x)

shouldInjectContainer(p, native) ==
  ~hasTelegrafContainer(p, native) /\ p.ann.any

(* Mutant: cut one too late.                                               *)
MutantSecretNameBase(prefix, id) ==
  LET len == prefix + 1 + (IF id.dash THEN id.len - 1 ELSE id.len) + 1
  IN  [len |-> IF len > 58 THEN 59 ELSE len, dash |-> TRUE]

(* The text handed to GenerateName: prefix, identifier without a trailing  *)
(* dash, cut at 57, and whether it ends in the dash before the suffix.     *)
SecretNameBase(prefix, id) ==
  LET len == prefix + 1 + (IF id.dash THEN id.len - 1 ELSE id.len) + 1
  IN  [len |-> IF len > 57 THEN 58 ELSE len, dash |-> TRUE]

(* names.SimpleNameGenerator: the base is cut at 58, 5 characters follow.  *)
GenerateName(base) ==
  [len |-> (IF base.len > 58 THEN 58 ELSE base.len) + 5,
   dash |-> base.dash /\ base.len <= 58]

generateSecretName(prefix, id) == GenerateName(SecretNameBase(prefix, id))

(* A native sidecar is an init container that is restarted for ever.       *)
Sidecar(p, f, native) ==
  [buildContainerSpec(applyAnnotationOverrides(newContainerConfig(f), p.ann))
     EXCEPT !.restartPolicy = IF native THEN "Always" ELSE @]

(* SidecarInjector.Default on a pod it should inject.                      *)
Inject(p, f, native, secretName) ==
  [p EXCEPT
     !.containers     = IF native THEN @ ELSE @ \cup {Sidecar(p, f, native)},
     !.initContainers = IF native THEN @ \cup {Sidecar(p, f, native)} ELSE @,
     !.volumes        = @ \cup {[name |-> "telegraf-config", secret |-> secretName]},
     !.labels         = [injected |-> TRUE, secretName |-> secretName],
     !.nameLen        = generateSecretName(f.secretNamePrefix, p.id)]

(* Mutant: the label gets a name of its own.                               *)
MutantDefault(p, f, native, secretName) ==
  IF shouldInjectContainer(p, native)
  THEN [Inject(p, f, native, secretName) EXCEPT !.labels.secretName = secretName + 1]
  ELSE p

Default(p, f, native, secretName) ==
  IF shouldInjectContainer(p, native) THEN Inject(p, f, native, secretName) ELSE p

Denied(p, f, native) == shouldInjectContainer(p, native) /\ newContainerConfigFails(f)

(* What the API server makes of a new pod: names are used once, and the    *)
(* sidecar asks for no more than its limits, mounts what is there, has an  *)
(* image, and refers to fields that exist.                                 *)
ValidUser(u) == u # Unset => u >= 0
Within(request, limit) == limit # Unset => request <= limit
NamesOnce(S) == \A x, y \in S : x.name = y.name => x = y
Acceptance(p) ==
  /\ NamesOnce(p.containers \cup p.initContainers) /\ NamesOnce(p.volumes)
  /\ \A x \in {y \in p.containers \cup p.initContainers : y.own} :
       /\ Within(x.requests.cpu, x.limits.cpu) /\ Within(x.requests.memory, x.limits.memory)
       /\ x.mounts \subseteq {v.name : v \in p.volumes}
       /\ x.image # Blank
       /\ \A e \in x.env : e.kind = "fieldref" => e.value # Junk
       /\ x.securityContext # Unset => ValidUser(x.securityContext.runAsUser)

ImmutableSpec(p) == <<p.containers, p.initContainers, p.volumes>>

(* The process answers the API server only while it serves, and not always.*)
Reachable == IF stage = "serving" THEN BOOLEAN ELSE {FALSE}

(* A manifest, as it comes to the webhook.                                 *)
NewPod(m, a) ==
  [exists |-> TRUE, containers |-> m.containers, initContainers |-> {},
   volumes |-> m.volumes, labels |-> NoLabels, ann |-> a, id |-> m.id,
   nameLen |-> [len |-> 0, dash |-> FALSE]]

(* A manifest is admitted, denied by the webhook, or rejected by the API   *)
(* server after the webhook; with failurePolicy Ignore it is taken as it   *)
(* is when the webhook is not reached.                                     *)
CreatePod(m, a, reached) ==
  LET new == NewPod(m, a)
      res == IF reached THEN Default(new, flags, NativeSidecars, drawn + 1) ELSE new
  IN  /\ pod = NoPod /\ drawn < MaxNames
      /\ \/ /\ reached /\ Denied(new, flags, NativeSidecars)
            /\ verdict' = [is |-> "denied"] /\ UNCHANGED <<pod, drawn>>
         \/ /\ ~(reached /\ Denied(new, flags, NativeSidecars)) /\ ~Acceptance(res)
            /\ verdict' = [is |-> "rejected", manifest |-> m, ann |-> a]
            /\ drawn' = drawn + 1 /\ UNCHANGED pod
         \/ /\ ~(reached /\ Denied(new, flags, NativeSidecars)) /\ Acceptance(res)
            /\ verdict' = [is |-> "created"]
            /\ drawn' = drawn + 1 /\ pod' = res
      /\ UNCHANGED process

(* The annotations of the pod are edited.  The webhook sees updates too;   *)
(* the API server refuses an update that changes the containers or volumes.*)
UpdatePod(a, reached) ==
  LET new == [pod EXCEPT !.ann = a]
      res == IF reached THEN Default(new, flags, NativeSidecars, drawn + 1) ELSE new
  IN  /\ pod # NoPod /\ pod.ann # a /\ drawn < MaxNames
      /\ \/ /\ reached /\ Denied(new, flags, NativeSidecars)
            /\ verdict' = [is |-> "denied"] /\ UNCHANGED <<pod, drawn>>
         \/ /\ ~(reached /\ Denied(new, flags, NativeSidecars))
            /\ ImmutableSpec(res) # ImmutableSpec(pod)
            /\ verdict' = [is |-> "refused"] /\ drawn' = drawn + 1 /\ UNCHANGED pod
         \/ /\ ~(reached /\ Denied(new, flags, NativeSidecars))
            /\ ImmutableSpec(res) = ImmutableSpec(pod)
            /\ verdict' = [is |-> "updated"] /\ pod' = res /\ UNCHANGED drawn
      /\ UNCHANGED process

DeletePod ==
  /\ pod # NoPod
  /\ pod' = NoPod /\ verdict' = NoVerdict
  /\ UNCHANGED <<process, drawn>>

(* The operator starts, stops, or is deployed anew.                        *)
Operator == StartupNext /\ verdict' = NoVerdict /\ UNCHANGED <<pod, drawn>>

Next ==
  \/ \E m \in Manifests, a \in Annotations, reached \in Reachable : CreatePod(m, a, reached)
  \/ \E a \in Annotations, reached \in Reachable : UpdatePod(a, reached)
  \/ DeletePod
  \/ Operator

Spec == Init /\ [][Next]_vars

(* A process runs on while it can.                                         *)
FairSpec == Spec /\ WF_vars(Progress /\ Operator)

-----------------------------------------------------------------------------
(* An injection is whole: a pod that says it is injected has one sidecar   *)
(* of the operator, in one of the lists, and one volume of the operator,   *)
(* of the secret the controller will create; any other pod has none.  The  *)
(* sidecar is restarted for ever exactly where it is an init container:    *)
(* elsewhere the pod would not start, or would not end.                    *)
Own(p) == {x \in p.containers \cup p.initContainers : x.own}
OwnVolumes(p) == {v \in p.volumes : v.secret # 0}

InjectionIsWhole ==
  pod # NoPod =>
    IF pod.labels.injected
    THEN /\ \E x \in Own(pod) : Own(pod) = {x}
         /\ \A x \in Own(pod) : x.restartPolicy = "Always" <=> x \in pod.initContainers
         /\ pod.containers \cap pod.initContainers = {}
         /\ pod.labels.secretName > 0
         /\ OwnVolumes(pod) = {[name |-> "telegraf-config", secret |-> pod.labels.secretName]}
    ELSE Own(pod) = {} /\ OwnVolumes(pod) = {}

(* An injected pod is left alone from then on: as long as the gate stays   *)
(* as it was, the webhook has nothing to add, whatever is edited.          *)
InjectedIsSettled ==
  pod # NoPod /\ pod.labels.injected
    /\ NativeSidecars = (\E x \in pod.initContainers : x.own)
  => \A a \in Annotations : ~shouldInjectContainer([pod EXCEPT !.ann = a], NativeSidecars)

(* Flags that main.go accepts make the webhook work: a pod is turned away  *)
(* only where a required quantity was left blank.                          *)
DeniedOnlyForBlankFlags ==
  verdict.is = "denied" =>
    Blank \in {flags.requestsCPU, flags.requestsMemory, flags.limitsMemory}

(* The webhook does no harm: the API server rejects a pod after injection  *)
(* only where it would have without the webhook, the pod clashes with what *)
(* the operator adds (a name in use), its annotations ask for it (a        *)
(* request or limit that does parse, a mount of a volume it lacks, no      *)
(* image, a bad field path), or the flags can never work.  A quantity or   *)
(* reference that does not parse, a CPU limit of zero or any other         *)
(* annotation is never the reason.                                         *)
Clashes(m) ==
  \/ \E x \in m.containers : x.name = "telegraf"
  \/ \E v \in m.volumes : v.name = "telegraf-config"

AskedFor(m, a) ==
  \/ Quantity(a.requestsCPU) \/ Quantity(a.requestsMemory)
  \/ (Quantity(a.limitsCPU) /\ a.limitsCPU # 0) \/ Quantity(a.limitsMemory)
  \/ a.mounts \notin {Unset, Junk} /\ ~(a.mounts \subseteq {v.name : v \in m.volumes})
  \/ a.image = Blank
  \/ [kind |-> "fieldref", value |-> Junk] \in {[kind |-> e.kind, value |-> e.value] : e \in a.env}

NeverWork(f) ==
  \/ f.limitsCPU \notin {Blank, 0} /\ f.requestsCPU > f.limitsCPU
  \/ f.requestsMemory > f.limitsMemory
  \/ f.image = Blank
  \/ ~ValidUser(f.runAsUser)

InjectionDoesNoHarm ==
  verdict.is = "rejected" =>
    \/ ~Acceptance(NewPod(verdict.manifest, verdict.ann))
    \/ Clashes(verdict.manifest) \/ AskedFor(verdict.manifest, verdict.ann)
    \/ NeverWork(flags)

(* A quantity in an annotation that does not parse counts as not given     *)
(* ("using default value"), and "0" or nothing means no CPU limit.         *)
Given(q) == IF Quantity(q) THEN q ELSE Unset
WellFormed(a) ==
  [a EXCEPT !.requestsCPU = Given(@), !.requestsMemory = Given(@),
            !.limitsMemory = Given(@),
            !.limitsCPU = IF @ \in {Blank, 0} THEN Blank ELSE Given(@)]

BadQuantitiesFallBack ==
  pod # NoPod /\ verdict.is = "created" =>
    \A x \in Own(pod) :
      /\ x = Sidecar([pod EXCEPT !.ann = WellFormed(@)], flags, NativeSidecars)
      /\ Quantity(x.requests.cpu) /\ Quantity(x.limits.memory)
      /\ x.limits.cpu \notin {0, Blank, Junk}

(* A generated name fits a secret and a label (63) and keeps the dash in   *)
(* front of its random suffix, however long the prefix and the pod's name. *)
SecretNameFits ==
  pod # NoPod /\ pod.labels.injected => pod.nameLen.len <= 63 /\ pod.nameLen.dash

(* Only new pods are injected ("inject the sidecar container into newly    *)
(* created Pods"): no update of a running pod is refused because of what   *)
(* the webhook did to it.                                                  *)
UpdatesAreLeftAlone == verdict.is # "refused"

=============================================================================
