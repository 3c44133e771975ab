# Formal models of the Telegraf sidecar operator

TLA+ modules for `telegraf-sidecar-operator`, the TLC configurations that check
them on small instances, and proofs checked by TLAPS. Paths below are relative
to the repository, line numbers are those of the modelled commit. `PROJECT.json`
maps every definition to the lines it stands for.

## The system

A pod with a `telegraf.influxdata.com/...` annotation is given a telegraf sidecar
by a mutating admission webhook. The webhook invents the name of a secret, mounts
it and writes it into a label. A controller sees the labelled pod, builds a
`telegraf.conf` from a *class* (a file of the operator) and the annotations, and
creates the secret with the pod as owner. The kubelet waits for the secret, the
garbage collector removes it when the pod is gone.

| Component | State | Operations | Hard part |
|---|---|---|---|
| Pod controller, `internal/controller/pod_controller.go` | none of its own: informer caches, work queue, API server | `Reconcile`, `reconcile`, predicates of `SetupWithManager` | stale caches, retries, pods deleted and re-created under the same name, crashes, several replicas |
| Telegraf configuration, `internal/controller/telegraf.go` | `annotationValues`, `telegrafConfig` during one reconcile | `applyAnnotationOverrides`, `buildConfigData` | integer widths, who wins a merge, gates, which errors are fatal |
| Class data, `internal/classdata` | `data` under a `sync.RWMutex` | `NewDirectoryHandler`, `GetDataForClass`, `Update` | the map is filled in place from a directory that changes; two lock phases |
| Webhook, `internal/injectorwebhook` | none: the pod under admission, the flags | `Default`, `newContainerConfig`, `applyAnnotationOverrides`, `buildContainerSpec`, `generateSecretName` | runs again on every update, under other flags and gates |
| Feature gates, `internal/featuregate` | registry of gates | `Register`, `Set`, flag parsing | gates differ between the operator that admitted a pod and the one that sees it later |
| Start-up, `cmd/main.go`, with `internal/config` | flags | parsing, validation, caches, leader election, wiring | flags accepted here and refused later; an error that is only logged; exits and restarts |
| Metadata, `internal/metadata` | constants | `GetAnnotationsWithPrefix` | – |
| Version, chart and manifests | – | – | – |

The components meet in four places: the labels (webhook to controller), the
class data handler (shared by all workers of the controller), the gates
(read by webhook and configuration), and `main`, whose flags the webhook is built
from and whose class data handler the controller gets even when it is nil.

What makes each correct:

- controller: every injected pod gets its secret, or an event saying why not; no
  pod is lost between queue, timers and workers; nothing that exists is
  overwritten; a secret's owner is the pod that mounts it; secrets do not
  outlive their pods; all in all, a secret has a simple life cycle;
- configuration: bad annotations are ignored one by one, gates are honoured, the
  merge order is fixed;
- class data: lookups only see validated data, failures roll back, locks are
  released; all in all, an atomic store;
- webhook: an injection is whole or absent, happens once, and is no reason for the
  API server to reject a pod;
- gates and start-up: a process serves exactly what its command line says, and
  comes up whenever that makes sense.

## Modules

| Module | Models | Extended by |
|---|---|---|
| `PodController` | pod controller, its caches, queue, workers, replicas; API server, garbage collector; the webhook as far as labels go, start-up as far as class data go | `MCPodController`, `PodControllerProofs`, `LifecycleProofs` |
| `SecretLifecycle` | what the controller promises about secrets; implemented by `PodController` | – |
| `ClassData` | class data handler | `MCClassData`, `ClassDataProofs` |
| `ClassStore` | what the handler promises its callers; implemented by `ClassData` | – |
| `TelegrafConfig` | one run of `applyAnnotationOverrides` and `buildConfigData` | `MCTelegrafConfig`, `TelegrafConfigProofs` |
| `Startup` | command line, flag types, gates, validation, manager, exits and restarts | `SidecarInjector`, `StartupProofs` |
| `SidecarInjector` | one pod through admission and edits, composed with the process of `Startup` | `MCSidecarInjector`, `SidecarInjectorProofs` |
| `Induction` | no code: induction over the naturals, for the proofs about loops | `StartupProofs`, `TelegrafConfigProofs` |
| `StartupProofs` | no code: lemmas about `Startup` | `SidecarInjectorProofs` |

Operators called `Mutant...` are variants of the definition that follows them, each
with one plausible mistake; no specification uses them. With the definition
replaced by its mutant, TLC finds the property listed beside it in `PROJECT.json`
violated, so every property is known to be able to fail.

### PodController

`pods`, `secrets`, `nextUid`, `events` are the API server. Each replica has
`podCache`, `secretCache` (its informers), `queue`, `delayed` (backoff and
`RequeueAfter`) and `work` (per key, the place of `Reconcile` and the pod it
holds). A pod incarnation is a UID handed out in order.

| Action | Code |
|---|---|
| `CreatePod`, `UpdatePod`, `DeletePod` | users; `CreatePod` applies `Default` unless the webhook is not reached (`failurePolicy=ignore`) |
| `CreateForeignSecret`, `DeleteSecret`, labels in `Manifests` | what users may do besides, switched by `Interference` |
| `DeliverPod`, `DeliverSecret` | informer events, selectors of `main.go:242-266`, predicates and `Owns` of `SetupWithManager` |
| `Elect`, `Crash`, `TimerFires`, `Dequeue` | leader election, process restart, work queue with `MaxConcurrentReconciles` |
| `GetPod`, `GetSecret`, `Build`, `Create` | `Reconcile`/`reconcile`, cut at every call that reads or writes shared state |
| `GetPodFails`, `GetSecretFails`, `CreateFails` | the error returns; a `Create` may fail before or after it took effect |
| `CollectGarbage` | the garbage collector, by UID |

A cache holds old contents until a delivery, which brings it to the present
(intermediate versions may be skipped, as after a new list) or reports the
deletion of the incarnation it held. A worker keeps the pod it read while
everything else moves on.

`loaded` is the set of replicas whose `NewDirectoryHandler` succeeded when they
started; `ClassLoads` lets it fail at a start (`"classes"` in `Interference`), which
`main.go:217-220` logs and forgets. `Build` then panics on the nil handler;
controller-runtime recovers, counts it as an error and retries, without an event.

`SecretLifecycle` is the promise read off the API server: per incarnation, a secret is
absent, is made once for a pod that waits (or too late for one that is gone) from
annotations that build, never changes, and is removed only when its pod is
gone. `IsSecretLifecycle` says that `PodController` implements it.

A secret name is a token equal to the UID the name was drawn for: the five random
characters of `generateSecretName` are taken not to repeat. A second pod
can have the same name only by a manifest that already carries the labels
(`"carry"`). Annotations are model values, of which the model only needs to know
whether `buildConfigData` succeeds and whether there are warnings; `TelegrafConfig`
looks inside.

### ClassData

`dir` is the directory, `data` the shared map, `writer` the write lock; `pc`, `cp`,
`todo` belong to the goroutines. `Copy` and `Lock` are the two lock phases of
`Update`; `ReadDir` and `ReadFile` read entry by entry, in the order of `ReadDir`,
while `ChangeDir` changes the directory; `Return` is every way out. `Main` runs
`NewDirectoryHandler`, before anybody else has the handler and without the lock. `prev`
and `base` are history: the data when the writer got the mutex, the classes found
at the start.

`ClassStore` goes from one validated version to the next in one step; an update begins
(and keeps the version of that moment), then succeeds with a version that has at least
the classes of the one before, or fails back to the version it kept. The mapping
(`Visible`) shows callers `prev` while somebody writes. That a failing update goes
back to the version at its beginning, and not to the one before it, is part of the
abstract specification because it is what the code does (finding 2).

### TelegrafConfig

Texts are tokens, numbers are integers with the ranges of
`ParseInt(..., 16)` and `ParseUint(..., 8)` and the wrap-around of `uint16`. A TOML
block is the set of plugins it names; each value records where it came from. `Parsed` is
the loop over the listed ports, as a recursive function of how many were read: a
text that does not parse is left out, with a warning (`Warnings`), and a repeated port stays.

### Startup

An argument is one flag with its text; a list of gates is a sequence of items, each a
sign and a name. `ParseFlag` and `ParseGates` take one argument; the first that is
refused ends the process, a list of gates after all its items were applied
(`flag.go:77-103`). `Validate` is the two checks of `main`, `RunManager` and
`ManagerFails` stand for creating the manager, adding controller, webhook and probes,
and running it. `Restart` starts over with the same command line, `Redeploy` with another
one. The reference definitions of the properties (`Told`, `ToldGate`, `Acceptable`) read
the command line as a whole, without going through it in order.

### SidecarInjector

The pod has containers in either list, volumes, labels and annotations. `CreatePod` and
`UpdatePod` call `Default` with the flags and gates of the process of `Startup`, if
that process is serving and is reached (`failurePolicy=ignore`). `Sidecar` is the container
with image, resources, environment, mounts, command, security context and restart
policy. `Acceptance` is what the API server checks of the result, as far as the
operator can be to blame: names used once, requests within limits, mounts with
volumes, an image, field paths, user ids. An update that changes containers or volumes
is refused. Secret names are counted; their lengths are computed as in
`generateSecretName`.

## Runs

Deadlock checking is on for `ClassData` and `SidecarInjector`. `PodController` may stop when its
bounds are used up, `TelegrafConfig` when its configuration is built.

| Run | Instance | Shows |
|---|---|---|
| `PodController_fresh` | 1 replica, 1 pod name, 2 incarnations, 1 fault, 1 crash, class data that may fail to load | `NoPodForgotten`, `OwnerRefsResolve`, `NamesAreFresh`, `SecretsAreWhole`, `CreateOnly`, `ServedPodKeepsSecret`, `NoSilentExit`, `IsSecretLifecycle` |
| `PodController_replicas` | 2 replicas, no leader election, 1 fault, 1 crash, symmetric | `NoPodForgotten`, `CreateOnly` when replicas race |
| `PodController_shared` | labels carried over, secrets created and deleted by others, unfiltered caches | `CreateOnly` and `Incarnations` hold whatever users do |
| `PodController_live` | 2 pod names, one of which can never be served, 1 worker, 2 incarnations, fair | `EventuallyServed`, `NoLeak` |
| `PodController_mishaps` | 1 incarnation of either of 2 names, one over 63 bytes, 1 fault, 1 crash, class data that may fail to load, fair | `EventuallyServed`, `ServedOrTold`, `NoLeak` |
| `PodController_carry` | labels carried over | **violated**: `NoSilentExit`, see findings |
| `ClassData_updaters` | 3 updaters, 2 files, fair | `AnswersParse`, `Validated`, `ClassesStay`, `Guarded`, `IsClassStore`, `UpdateReturns` |
| `ClassData_rollback` | 2 updaters, 1 file | **violated**: `FailedUpdateReverts` |
| `TelegrafConfig_merge` | 34992 annotation maps, 4 settings of the gates | `InvalidValuesAreIgnored`, `GatesAreHonoured`, `InputsPrecedence`, `ParsedPortsAreScraped` |
| `TelegrafConfig_ports` | the same | **violated**: `PortsAreScraped` |
| `SidecarInjector_admission` | 9 command lines, 5 manifests, 7 annotation maps, 2 secret names, 1 exit of the manager, fair start-up | `InjectionIsWhole`, `InjectedIsSettled`, `DeniedOnlyForBlankFlags`, `InjectionDoesNoHarm`, `BadQuantitiesFallBack`, `SecretNameFits`, `ServesAsTold`, `GatesRoundTrip`, `AcceptableServes` |
| `SidecarInjector_updates` | the same | **violated**: `UpdatesAreLeftAlone` |

Bounds. Two incarnations of one name are the smallest case in which a worker, a
cache or an owner reference can belong to the wrong one. The steps of `Reconcile`
only touch their own key, so a second key adds competition for workers and
nothing else: `PodController_live` has one worker for two keys, one of which is retried for
ever. One fault and one crash hit every point of `Reconcile`; the
theorems below hold without any of these bounds. Two updaters are what the
lost update needs, a third can come between them. The values of `TelegrafConfig` sit on both sides of every
limit of the integer types. The command lines are refused at each stage (an optional flag, an
unknown gate, a quantity, a blank watch-config), contradict themselves, or are good with
either kind of sidecar; the identifiers sit on both sides of the cut of the name.

Fairness. Weak fairness of deliveries, timers, steps of a running worker, election
and garbage collection: client-go, controller-runtime and the Kubernetes controllers
keep doing these while they are possible. `GetPod` is strongly fair because the
work queue is first in, first out, so busy workers cannot pass over a key for
ever. Faults, crashes and users are not fair. `EventuallyServed` and `ServedOrTold` allow for a
process that runs without class data, which nothing repairs but a restart. In `ClassData` a
running goroutine is weakly fair; `Lock` is strongly fair since `sync.RWMutex` does not starve
a writer. In `SidecarInjector` the steps of `main` and the restart of a container that
exited are weakly fair (the chart runs the operator as a Deployment); exits of a
manager, redeployments and users are not.

## Findings

1. `pod_controller.go:176`: `AlreadyExists` from `Create` ends the request without a
   requeue even when the secret belongs to somebody else, while the same situation
   found by `Get` is requeued (`:123-126`). With a secret cache that lags, a pod
   created with the labels of a deleted pod is left without secret for good.
   Without carried labels this cannot happen (`NothingForgotten`).
2. `classdata.go:64-74`: the copy kept for a rollback is made before the write lock
   is taken, so a failing update can undo another one. `Update` has no callers
   yet; with a single updater the copy cannot grow old.
3. `telegraf.go:108,120`: ports above 32767 are refused, negative ones accepted. What does
   hold is `ParsedPortsAreScraped`: every port up to 32767 that is asked for is scraped, and
   no other but what `uint16` makes of a negative number.
4. `injector.go:53`: the webhook also acts on updates, where its result is refused by
   the API server, so an annotation cannot be added to a running pod.

## Proofs

All theorems hold for every value of the constants: any number of replicas, pods, workers,
incarnations, faults, crashes, files, updaters, manifests, annotations, ports, gates and
command lines. The named assumptions type the constants and say little more:

- `StartupAssumption`: an argument sets one flag where it sets gates, a list of gates is a
  sequence, a quantity that parses is an integer, the tokens for texts are told apart and
  are no integers, the registry is finite, has no gate without a name, and has the one of
  the native sidecars (`gates.go`);
- `InjectorAssumption`: annotation maps have the annotations `applyAnnotationOverrides` reads,
  manifests do not contain the operator's own container, volume or secret;
- `ConfigAssumption`: annotation maps have the annotations `TelegrafConfig` reads, a list of
  ports is a sequence, an absent annotation is told from an empty or a malformed one.

`PodControllerProofs`:

- `TypeCorrect`: `Spec => []TypeOK`;
- `OwnersResolve`: `Spec => []OwnerRefsResolve`;
- `NothingForgotten`: `Interference \subseteq {"classes"}` implies `Spec => []NoPodForgotten`.

`OwnerRefsResolve` is not inductive: it depends on the pod in a worker's hands. The
invariant `Incarnations` says that every copy of a pod, in a cache or in a worker,
agrees in name and labels with the living pod of its UID, and that every UID in use
was handed out. Type correctness is proved together with it, since an event needs
the UID of a real pod. `IncarnationsQuiet` covers the many actions that create
neither pods nor secrets at once, `IncarnationsStep` the rest.

`NoPodForgotten` needs more: `Reconcile` drops a request on the word of a secret
cache or of `AlreadyExists`. `NamesAreFresh` says why this is sound while only the
webhook writes labels: a secret's name belongs to one incarnation, every secret
of that name is owned by it, and a cached secret of a living pod is still there.
`ForgottenStep` then goes through the actions: a delivery that changes what the
cache shows queues the key (`PredicatePasses`), a request leaves the worker only
into `delayed` or with the pod served.

`LifecycleProofs` builds on it. `HowSecretsMove` says once and for all what a step can do to
the secrets: nothing, make one for the pod in a worker's hands, somebody's interference,
or garbage collection; `HowPodsMove` does the same for pods. From them:

- `OperatorOnlyCreates` (`CreateOnly`) and `SecretsStayWhole` (`SecretsAreWhole`) under any
  interference, and `CopiesAgree` (`Incarnations`);
- `LivingPodKeepsSecret` (`ServedPodKeepsSecret`) unless others delete secrets;
- `NamesStayFresh` (`NamesAreFresh`), `NoRequestEndsInSilence` (`NoSilentExit`) and
  `ImplementsSecretLifecycle` (`IsSecretLifecycle`) while only the webhook writes the labels
  (`Interference \subseteq {"classes"}`). The run `PodController_carry` shows that `NoSilentExit` needs
  that hypothesis.

`ClassDataProofs` proves `GuardedHolds` (`Guarded`) and from it `ClassDataTyped`, `LookupsParse`
(`AnswersParse`), `AlwaysValidated` (`Validated`), `ClassesAreNotLost` (`ClassesStay`) and
`ImplementsClassStore` (`IsClassStore`). `Guarded` says that only the writer is past `Lock`, that the
copy it would restore was validated data when it was made, and that nothing known at
the start is missing from data or copies. Validated, not current: that is the difference
between these theorems and finding 2.

`Induction` has what the loops need. The library's induction theorems take a predicate, which
the provers cannot instantiate; `NatSetInduction` says the same of a set and is derived from
the naturals being well founded under `<`. A loop is a recursive function, which to TLAPS is
a `CHOOSE`: `RunExists` and `LoopExists` show by induction that a function satisfying the recursion
exists, `SetGatesRuns` and `ParsedLoops` that the chosen one therefore does.

`StartupProofs` is about reading a command line. `SetGatesSays` says what a list of gates does,
by induction over its items (`AfterItems`, `ItemStep`): a gate ends up as the last item naming it
says, others keep their value, and the list is refused if some item names no gate.
`RoundTrip` says that the text `String` prints, put back into `Set`, restores the gates.
`ProcessInv` is the invariant of `main`: after `n` arguments every flag and every gate is what the
first `n` arguments say (`ReadSoFar`, kept by `ToldAppend` and `ToldGateAppend`), and what is past
validation was validated. `ReadsAll` and `TextSaysAll` take the two properties from it.

`SidecarInjectorProofs` composes this with the pod. The inductive invariant `Inv` is `ProcessInv`,
`PodInv`, `DeniedOnlyForBlankFlags` and `Answers`. `Answers` is `InjectionDoesNoHarm` and
`BadQuantitiesFallBack`: they speak of the last answer and of the flags it was given under, and
`OtherAnswers` says that a step that creates no pod leaves nothing to show.

- `AlwaysServesAsTold` (`ServesAsTold`) and `GatesAlwaysRoundTrip` (`GatesRoundTrip`): from `ProcessInv`;
- `InjectedAsAWhole` (`InjectionIsWhole`), `InjectedOnce` (`InjectedIsSettled`) and `SecretNamesFit`
  (`SecretNameFits`): `PodInv` needs that every secret name in a volume was drawn before. An
  update that injects therefore adds a new volume, the API server refuses it, and the pod
  stays whole;
- `OnlyBlankFlagsDeny` (`DeniedOnlyForBlankFlags`);
- `InjectionIsHarmless` (`InjectionDoesNoHarm`): `InjectedAccepted` goes through `Acceptance` check by
  check: the sidecar's names are its own, its mounts have volumes, and without a quantity in the
  annotations its requests and limits are those of the flags, which `ProcessInv` types;
- `BadQuantitiesAlwaysFallBack` (`BadQuantitiesFallBack`): `FallsBack` for one quantity,
  `InjectedSidecar` for the container in the pod.

`TelegrafConfigProofs` is about a single computation: `Computed` says that the two steps compute
`ConfigOf` and `Warnings` of the annotations.

- `GatesAlwaysHonoured` (`GatesAreHonoured`): `ThroughReads` says that taking a raw block out changes nothing
  but that block, `BuildReads` that the configuration depends on it through its gate only;
- `InvalidValuesAlwaysIgnored` (`InvalidValuesAreIgnored`): after each turn of the loop the texts
  kept are those that parse and no others (`KeptStep`, `ParsedKeeps`). `ParsedFirst` and `WellFormedSame` conclude that the annotations without their malformed
  parts give the same configuration, `WarningsTell` that there is a warning exactly
  when there were some or the deprecated annotation was used;
- `InputsAlwaysPrecede` (`InputsPrecedence`): `MergeKeeps` says that `Merge` loses no
  plugin and prefers its second argument; `PortsAre` says when there is a port to scrape;
- `ParsedPortsAlwaysScraped` (`ParsedPortsAreScraped`): `PortsAre` relates ports and texts,
  `Layers` and `OperatorsPlugin` find the operator's plugin in the merged inputs, `WrapsAround` says what
  the conversion to `uint16` does to the numbers that get that far.

Only model-checked: the liveness properties (`EventuallyServed`, `ServedOrTold`, `NoLeak`, `UpdateReturns`,
`AcceptableServes`). They rest on fairness, hence on `ENABLED`, which TLAPS does not reason about
here. Every invariant, action property and refinement of a passing run is a theorem.

## Not modelled

- Pod termination: a pod with a deletion timestamp is still a pod; deletion is one
  step. Label edits on running pods; a pod's generation.
- Failure of `SetOwnerReference` (pods and secrets are in the scheme, in one namespace).
- A secret deleted and made again between two deliveries is seen as one update.
- Characters: TOML and label texts, dots or dashes where a secret name is cut.
- Two processes at once during a rolling update: the webhook is served by one.
- A flag without a value that takes the next argument for it; the zap flags; metrics,
  probes, HTTP/2 and the durations of leader election.
- `Register`'s panic on a duplicate name: the three names are constants of `gates.go`.
- What the API server says about names of environment variables, capabilities and
  mount paths.
- Version, chart and manifests (declarative; the webhook's verbs and failure policy
  are in the modules), logging.

## Plan

1. Theorems: step lemmas towards the liveness properties (that no action but the expected
   one ends a waiting state), as far as they say something without fairness.
2. `PodController` with label edits, and a comparison of ordinary and controller owner
   references once the repository says what should happen to a deleted secret.
3. The webhook of two processes with different gates during a rolling update.
