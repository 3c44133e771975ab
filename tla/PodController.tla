---------------------------- MODULE PodController ----------------------------
(***************************************************************************)
(* The pod controller of the operator (internal/controller) together with  *)
(* what it runs on: the API server, the admission webhook that labels the  *)
(* pods, the informer caches it reads, the work queue that calls it, the   *)
(* garbage collector, and the replicas of the operator process.            *)
(*                                                                         *)
(* A pod incarnation is named by its UID, a number handed out in order of  *)
(* admission.  generateSecretName draws a random suffix for every pod it   *)
(* injects, so the name drawn for incarnation u is a token of its own, and *)
(* the token is u.  The same name reaches a second incarnation only through *)
(* a manifest that already carries the labels ("carry" in Interference).   *)
(***************************************************************************)
EXTENDS Naturals, FiniteSets

CONSTANTS
  Replicas,       \* operator processes (chart: replicaCount)
  LeaderElect,    \* --leader-elect
  MaxConcurrent,  \* MaxConcurrentReconciles (4 in main.go)
  Optimised,      \* ~ --disable-cache-optimizations
  Pods,           \* pod names: the keys of the work queue
  LongNamed,      \* pod names that are not valid label values (over 63 bytes)
  Annotations,    \* the annotation maps a pod can have
  Plain,          \* the one without a telegraf.influxdata.com annotation
  Warned,         \* maps for which applyAnnotationOverrides returns warnings
  Buildable,      \* maps for which buildConfigData succeeds
  Interference,   \* what goes on besides users creating, editing, deleting pods
  MaxUid,         \* bound: pod incarnations
  MaxFaults,      \* bound: failed API calls
  MaxCrashes      \* bound: crashes of an operator process

ASSUME ConstantsAssumption ==
  /\ LeaderElect \in BOOLEAN /\ Optimised \in BOOLEAN
  /\ MaxUid \in Nat /\ MaxFaults \in Nat /\ MaxCrashes \in Nat
  /\ MaxConcurrent \in Nat \ {0}
  /\ LongNamed \subseteq Pods
  /\ Plain \in Annotations
  /\ Warned \subseteq Annotations /\ Buildable \subseteq Annotations
  /\ Interference \subseteq {"carry", "foreign", "delete", "classes"}

Uids == 1..MaxUid
NoName == 0     \* the secret-name label is missing: Go reads ""

(***************************************************************************)
(* A pod: the two labels the webhook sets, and the annotations.            *)
(***************************************************************************)
Labels == [injected : {"absent", "true", "false"}, secretName : 0..MaxUid]
Pod == [uid : 0..MaxUid, labels : Labels, ann : Annotations]
NoLabels == [injected |-> "absent", secretName |-> NoName]
NoPod == [uid |-> 0, labels |-> NoLabels, ann |-> Plain]

(***************************************************************************)
(* A secret: who made it (the managed-by label), its owner references and  *)
(* the annotations its telegraf.conf was built from.                       *)
(***************************************************************************)
OwnerRef == [uid : Uids, name : Pods, controller : BOOLEAN]
Secret == [by : {"none", "operator", "foreign"}, owners : SUBSET OwnerRef,
           conf : Annotations]
NoSecret == [by |-> "none", owners |-> {}, conf |-> Plain]
Foreign == [by |-> "foreign", owners |-> {}, conf |-> Plain]

Reasons == {"InvalidAnnotationFormat", "InvalidTelegrafConfiguration",
            "CreateSecretInClusterError", "TelegrafConfigCreateSuccessful"}

(***************************************************************************)
(* A worker of the controller: where Reconcile stands, the pod it read.    *)
(***************************************************************************)
Work == [pc : {"idle", "secret", "build", "create"}, obj : Pod]
Idle == [pc |-> "idle", obj |-> NoPod]

VARIABLES
  pods,         \* API server: the pod of each name, or NoPod
  secrets,      \* API server: the secret of each name, or NoSecret
  nextUid,      \* API server: the next pod UID
  events,       \* API server: the events recorded on each incarnation
  leading,      \* the replicas whose controller is running
  podCache,     \* per replica, what its pod informer holds
  secretCache,  \* per replica, what its secret informer holds
  queue,        \* per replica, keys in the work queue or dirty in it
  delayed,      \* per replica, keys waiting for a backoff or a RequeueAfter
  work,         \* per replica and key, the worker that processes the key
  faults, crashes,  \* counters of the bounded mishaps
  loaded        \* the replicas that found their class data when they started

api == <<pods, secrets, nextUid, events>>
process == <<leading, podCache, secretCache, queue, delayed, work>>
vars == <<api, process, faults, crashes, loaded>>

Alive(u) == \E p \in Pods : pods[p].uid = u
SecretNamed(store, n) == IF n = NoName THEN NoSecret ELSE store[n]
OwnedBy(s, u) == \E o \in s.owners : o.uid = u

(***************************************************************************)
(* The cache selectors of main.go: with the optimisations on, the pod      *)
(* informer holds pods labelled injected=true and the secret informer the  *)
(* secrets with the managed-by label of the operator.                      *)
(***************************************************************************)
PodView(pod) ==
  IF Optimised /\ pod.labels.injected # "true" THEN NoPod ELSE pod

SecretView(s) ==
  IF Optimised /\ s.by # "operator" THEN NoSecret ELSE s

(***************************************************************************)
(* SetupWithManager: which informer events put a key in the queue.  A      *)
(* create or delete passes on the label alone, an update only when labels  *)
(* or annotations changed (the generation of a pod does not move here).    *)
(***************************************************************************)
PodPredicate(old, new) ==
  LET obj == IF new = NoPod THEN old ELSE new
  IN  /\ obj.labels.injected # "absent"
      /\ \/ old = NoPod \/ new = NoPod
         \/ old.labels # new.labels
         \/ old.ann # new.ann

(***************************************************************************)
(* Owns(&Secret{}): the request goes to the controller owner only.         *)
(***************************************************************************)
OwnerRequests(s) == {o.name : o \in {x \in s.owners : x.controller}}

(***************************************************************************)
(* main.go logs a failure of NewDirectoryHandler and goes on, with a nil   *)
(* handler, until the process ends.  It cannot fail unless the directory   *)
(* of classes is missing, empty or spoilt when the process starts.         *)
(***************************************************************************)
ClassLoads(failing) == IF "classes" \in Interference THEN failing ELSE {}

Init ==
  /\ pods = [p \in Pods |-> NoPod]
  /\ secrets = [n \in Uids |-> NoSecret]
  /\ nextUid = 1
  /\ events = {}
  /\ leading = {}
  /\ podCache = [r \in Replicas |-> [p \in Pods |-> NoPod]]
  /\ secretCache = [r \in Replicas |-> [n \in Uids |-> NoSecret]]
  /\ queue = [r \in Replicas |-> {}]
  /\ delayed = [r \in Replicas |-> {}]
  /\ work = [r \in Replicas |-> [p \in Pods |-> Idle]]
  /\ faults = 0 /\ crashes = 0
  /\ loaded \in {Replicas} \cup ClassLoads(SUBSET Replicas)

-----------------------------------------------------------------------------
(***************************************************************************)
(* Users and the API server.                                               *)
(***************************************************************************)

(* A pod manifest: a plain one, or one copied from an injected pod, which  *)
(* already has the telegraf container and both labels.                     *)
Manifests ==
  [sidecar : {FALSE}, labels : {NoLabels}, ann : Annotations]
  \cup IF "carry" \notin Interference THEN {} ELSE
       [sidecar : {TRUE}, ann : Annotations,
        labels : [injected : {"true", "false"}, secretName : 0..(nextUid - 1)]]

shouldInjectContainer(m) == ~m.sidecar /\ m.ann # Plain

(* Mutant: the secret name has no random suffix.                           *)
MutantDefault(m, name) ==
  IF shouldInjectContainer(m)
  THEN [injected |-> "true", secretName |-> 1]
  ELSE m.labels

(* SidecarInjector.Default, as far as the controller can tell.             *)
Default(m, name) ==
  IF shouldInjectContainer(m)
  THEN [injected |-> "true", secretName |-> name]
  ELSE m.labels

(* A pod is admitted.  failurePolicy is Ignore: when the webhook is not    *)
(* reached, the manifest is taken as it is.                                *)
CreatePod(p, m, reached) ==
  /\ pods[p] = NoPod /\ nextUid \in Uids
  /\ pods' = [pods EXCEPT ![p] =
       [uid |-> nextUid, ann |-> m.ann,
        labels |-> IF reached THEN Default(m, nextUid) ELSE m.labels]]
  /\ nextUid' = nextUid + 1
  /\ UNCHANGED <<secrets, events, process, faults, crashes, loaded>>

(* The annotations of a running pod are edited.  The webhook sees updates  *)
(* too: where it would inject, the API server refuses the update because   *)
(* of the changed pod spec, and the edit goes through only when the        *)
(* webhook is not reached (module SidecarInjector).                        *)
UpdatePod(p, a) ==
  /\ pods[p] # NoPod /\ pods[p].ann # a
  /\ pods' = [pods EXCEPT ![p].ann = a]
  /\ UNCHANGED <<secrets, nextUid, events, process, faults, crashes, loaded>>

DeletePod(p) ==
  /\ pods[p] # NoPod
  /\ pods' = [pods EXCEPT ![p] = NoPod]
  /\ UNCHANGED <<secrets, nextUid, events, process, faults, crashes, loaded>>

(* Somebody else creates, or deletes, a secret of one of these names.      *)
CreateForeignSecret(n) ==
  /\ "foreign" \in Interference /\ secrets[n] = NoSecret
  /\ secrets' = [secrets EXCEPT ![n] = Foreign]
  /\ UNCHANGED <<pods, nextUid, events, process, faults, crashes, loaded>>

DeleteSecret(n) ==
  /\ "delete" \in Interference /\ secrets[n] # NoSecret
  /\ secrets' = [secrets EXCEPT ![n] = NoSecret]
  /\ UNCHANGED <<pods, nextUid, events, process, faults, crashes, loaded>>

(* The garbage collector removes a secret none of whose owners is left.    *)
CollectGarbage(n) ==
  /\ secrets[n].owners # {}
  /\ \A o \in secrets[n].owners : ~Alive(o.uid)
  /\ secrets' = [secrets EXCEPT ![n] = NoSecret]
  /\ UNCHANGED <<pods, nextUid, events, process, faults, crashes, loaded>>

-----------------------------------------------------------------------------
(***************************************************************************)
(* Informers, leadership and the work queue (controller-runtime).          *)
(***************************************************************************)

(* What the pod informer may hold next: the pod of now, what came between  *)
(* skipped (a new list after a broken watch), or the deletion of the       *)
(* incarnation it held, although a successor may exist already.            *)
Observable(old, pod) ==
  ({PodView(pod)} \cup IF old.uid # pod.uid THEN {NoPod} ELSE {}) \ {old}

(* An event arrives at the pod informer of r.  Only a running controller   *)
(* has its handler attached.                                               *)
DeliverPod(r, p) ==
  LET old == podCache[r][p]
  IN  \E new \in Observable(old, pods[p]) :
        /\ podCache' = [podCache EXCEPT ![r][p] = new]
        /\ queue' = IF r \in leading /\ PodPredicate(old, new)
                    THEN [queue EXCEPT ![r] = @ \cup {p}] ELSE queue
        /\ UNCHANGED <<api, leading, secretCache, delayed, work, faults, crashes, loaded>>

DeliverSecret(r, n) ==
  LET old == secretCache[r][n]
      new == SecretView(secrets[n])
  IN  /\ old # new
      /\ secretCache' = [secretCache EXCEPT ![r][n] = new]
      /\ queue' = IF r \in leading
                  THEN [queue EXCEPT ![r] =
                          @ \cup OwnerRequests(old) \cup OwnerRequests(new)]
                  ELSE queue
      /\ UNCHANGED <<api, leading, podCache, delayed, work, faults, crashes, loaded>>

(* Mutant: what the cache holds at the start raises no events.             *)
MutantElect(r) ==
  /\ r \notin leading
  /\ LeaderElect => leading = {}
  /\ leading' = leading \cup {r}
  /\ UNCHANGED <<api, podCache, secretCache, queue, delayed, work, faults, crashes, loaded>>

(* The controller of r starts: every pod in its cache is a create event.   *)
Elect(r) ==
  /\ r \notin leading
  /\ LeaderElect => leading = {}
  /\ leading' = leading \cup {r}
  /\ queue' = [queue EXCEPT ![r] =
       {p \in Pods : podCache[r][p] # NoPod /\ PodPredicate(NoPod, podCache[r][p])}]
  /\ UNCHANGED <<api, podCache, secretCache, delayed, work, faults, crashes, loaded>>

(* The process dies and comes back: queue, timers and workers are gone, the *)
(* caches are listed anew, the classes are read anew, and it stands for    *)
(* election again.                                                         *)
Crash(r) ==
  /\ crashes < MaxCrashes
  /\ crashes' = crashes + 1
  /\ leading' = leading \ {r}
  /\ podCache' = [podCache EXCEPT ![r] = [p \in Pods |-> PodView(pods[p])]]
  /\ secretCache' = [secretCache EXCEPT ![r] = [n \in Uids |-> SecretView(secrets[n])]]
  /\ queue' = [queue EXCEPT ![r] = {}]
  /\ delayed' = [delayed EXCEPT ![r] = {}]
  /\ work' = [work EXCEPT ![r] = [p \in Pods |-> Idle]]
  /\ loaded' \in {loaded \cup {r}} \cup ClassLoads({loaded \ {r}})
  /\ UNCHANGED <<api, faults>>

(* A backoff, or the 5 seconds of a RequeueAfter, are over.                *)
TimerFires(r, p) ==
  /\ p \in delayed[r]
  /\ delayed' = [delayed EXCEPT ![r] = @ \ {p}]
  /\ queue' = [queue EXCEPT ![r] = @ \cup {p}]
  /\ UNCHANGED <<api, leading, podCache, secretCache, work, faults, crashes, loaded>>

-----------------------------------------------------------------------------
(***************************************************************************)
(* Reconcile, one action per call that can see or change shared state.     *)
(***************************************************************************)
Fault == faults < MaxFaults /\ faults' = faults + 1
Record(u, reasons) == events' = events \cup ({u} \X reasons)
Goto(r, p, pc) == work' = [work EXCEPT ![r][p].pc = pc]
Finish(r, p) == work' = [work EXCEPT ![r][p] = Idle]
Requeue(r, p) == delayed' = [delayed EXCEPT ![r] = @ \cup {p}]

shouldAttemptReconcilation(pod) == pod.labels.injected # "absent"

(* A free worker takes the key, which nobody else processes.               *)
Dequeue(r, p) ==
  /\ p \in queue[r] /\ work[r][p] = Idle
  /\ Cardinality({q \in Pods : work[r][q] # Idle}) < MaxConcurrent
  /\ queue' = [queue EXCEPT ![r] = @ \ {p}]

(* Mutant: a pod that is not found is not told from an empty one.          *)
MutantGetPod(r, p) ==
  /\ Dequeue(r, p)
  /\ work' = [work EXCEPT ![r][p] = [pc |-> "secret", obj |-> podCache[r][p]]]
  /\ UNCHANGED <<api, leading, podCache, secretCache, delayed, faults, crashes, loaded>>

(* r.Get of the pod; not found and not injected both end the request.      *)
GetPod(r, p) ==
  LET obj == podCache[r][p]
  IN  /\ Dequeue(r, p)
      /\ IF obj # NoPod /\ shouldAttemptReconcilation(obj)
         THEN work' = [work EXCEPT ![r][p] = [pc |-> "secret", obj |-> obj]]
         ELSE UNCHANGED work
      /\ UNCHANGED <<api, leading, podCache, secretCache, delayed, faults, crashes, loaded>>

GetPodFails(r, p) ==
  /\ Dequeue(r, p) /\ Fault
  /\ Requeue(r, p)
  /\ UNCHANGED <<api, leading, podCache, secretCache, work, crashes, loaded>>

(* Mutant: a secret that does not match the annotations any more is        *)
(* deleted, to be made again.                                              *)
MutantGetSecret(r, p) ==
  LET obj == work[r][p].obj
      n   == obj.labels.secretName
      s   == SecretNamed(secretCache[r], n)
  IN  /\ work[r][p].pc = "secret"
      /\ Goto(r, p, "build")
      /\ secrets' = IF s # NoSecret /\ s.conf # obj.ann
                    THEN [secrets EXCEPT ![n] = NoSecret] ELSE secrets
      /\ UNCHANGED <<pods, nextUid, events, leading, podCache, secretCache, queue,
                     delayed, faults, crashes, loaded>>

(* r.Get of the secret: ours ends the request, somebody else's asks for    *)
(* another try in 5 seconds, none goes on to reconcile.                    *)
GetSecret(r, p) ==
  LET obj == work[r][p].obj
      s   == SecretNamed(secretCache[r], obj.labels.secretName)
  IN  /\ work[r][p].pc = "secret"
      /\ \/ s # NoSecret /\ OwnedBy(s, obj.uid)
            /\ Finish(r, p) /\ UNCHANGED delayed
         \/ s # NoSecret /\ ~OwnedBy(s, obj.uid)
            /\ Finish(r, p) /\ Requeue(r, p)
         \/ s = NoSecret
            /\ Goto(r, p, "build") /\ UNCHANGED delayed
      /\ UNCHANGED <<api, leading, podCache, secretCache, queue, faults, crashes, loaded>>

GetSecretFails(r, p) ==
  /\ work[r][p].pc = "secret" /\ Fault
  /\ Finish(r, p) /\ Requeue(r, p)
  /\ UNCHANGED <<api, leading, podCache, secretCache, queue, crashes, loaded>>

(* Mutants: a configuration that cannot be built is not tried again; the   *)
(* pod is not told; the error is logged and the secret made all the same.  *)
MutantBuild(r, p) ==
  LET obj == work[r][p].obj
      ok  == obj.ann \in Buildable
  IN  /\ work[r][p].pc = "build"
      /\ Record(obj.uid, IF ok THEN {} ELSE {"InvalidTelegrafConfiguration"})
      /\ IF ok THEN Goto(r, p, "create") ELSE Finish(r, p)
      /\ UNCHANGED <<pods, secrets, nextUid, leading, podCache, secretCache,
                     queue, delayed, faults, crashes, loaded>>

MutantBuildSilent(r, p) ==
  LET ok == work[r][p].obj.ann \in Buildable
  IN  /\ work[r][p].pc = "build"
      /\ IF ok THEN Goto(r, p, "create") /\ UNCHANGED delayed
               ELSE Finish(r, p) /\ Requeue(r, p)
      /\ UNCHANGED <<api, leading, podCache, secretCache, queue, faults, crashes, loaded>>

MutantBuildAnyway(r, p) ==
  /\ work[r][p].pc = "build"
  /\ Goto(r, p, "create")
  /\ UNCHANGED <<api, leading, podCache, secretCache, queue, delayed, faults, crashes, loaded>>

(* applyAnnotationOverrides and buildConfigData: warnings are recorded and *)
(* do not stop the request, an error does and is retried.  With a nil      *)
(* handler GetDataForClass panics; controller-runtime recovers and counts  *)
(* it as an error, of which the pod is not told.                           *)
Build(r, p) ==
  LET obj == work[r][p].obj
      ok  == obj.ann \in Buildable /\ r \in loaded
  IN  /\ work[r][p].pc = "build"
      /\ Record(obj.uid,
           (IF obj.ann \in Warned THEN {"InvalidAnnotationFormat"} ELSE {})
           \cup (IF ~ok /\ r \in loaded THEN {"InvalidTelegrafConfiguration"} ELSE {}))
      /\ IF ok THEN Goto(r, p, "create") /\ UNCHANGED delayed
               ELSE Finish(r, p) /\ Requeue(r, p)
      /\ UNCHANGED <<pods, secrets, nextUid, leading, podCache, secretCache,
                     queue, faults, crashes, loaded>>

(* Mutants: no owner reference; an owner reference to the pod of now.      *)
MutantNewSecret(p, obj) ==
  [by |-> "operator", conf |-> obj.ann, owners |-> {}]

MutantNewSecretLate(p, obj) ==
  [by |-> "operator", conf |-> obj.ann,
   owners |-> {[uid |-> pods[p].uid, name |-> p, controller |-> FALSE]}]

(* The secret of obj, with SetOwnerReference: an owner, not a controller.  *)
NewSecret(p, obj) ==
  [by |-> "operator", conf |-> obj.ann,
   owners |-> {[uid |-> obj.uid, name |-> p, controller |-> FALSE]}]

(* The API server refuses a secret without a name, and one whose           *)
(* telegraf.influxdata.com/pod label is no label value.                    *)
Valid(p, n) == n # NoName /\ p \notin LongNamed

(* Mutant: a secret that exists is updated.                                *)
MutantCreate(r, p) ==
  LET obj == work[r][p].obj
      n   == obj.labels.secretName
  IN  /\ work[r][p].pc = "create"
      /\ Finish(r, p)
      /\ secrets' = IF Valid(p, n) THEN [secrets EXCEPT ![n] = NewSecret(p, obj)] ELSE secrets
      /\ UNCHANGED <<pods, nextUid, events, leading, podCache, secretCache, queue,
                     delayed, faults, crashes, loaded>>

(* r.Create.  A name that is taken ends the request like a success.        *)
Create(r, p) ==
  LET obj == work[r][p].obj
      n   == obj.labels.secretName
  IN  /\ work[r][p].pc = "create"
      /\ Finish(r, p)
      /\ \/ /\ ~Valid(p, n)
            /\ Record(obj.uid, {"CreateSecretInClusterError"})
            /\ Requeue(r, p) /\ UNCHANGED secrets
         \/ /\ Valid(p, n) /\ secrets[n] = NoSecret
            /\ secrets' = [secrets EXCEPT ![n] = NewSecret(p, obj)]
            /\ Record(obj.uid, {"TelegrafConfigCreateSuccessful"})
            /\ UNCHANGED delayed
         \/ /\ Valid(p, n) /\ secrets[n] # NoSecret
            /\ UNCHANGED <<secrets, events, delayed>>
      /\ UNCHANGED <<pods, nextUid, leading, podCache, secretCache, queue,
                     faults, crashes, loaded>>

(* Mutant: the error is logged and not returned.                           *)
MutantCreateFails(r, p, applied) ==
  LET obj == work[r][p].obj
      n   == obj.labels.secretName
  IN  /\ work[r][p].pc = "create" /\ Fault
      /\ applied => Valid(p, n) /\ secrets[n] = NoSecret
      /\ secrets' = IF applied THEN [secrets EXCEPT ![n] = NewSecret(p, obj)]
                    ELSE secrets
      /\ Finish(r, p)
      /\ UNCHANGED <<pods, nextUid, events, leading, podCache, secretCache, queue,
                     delayed, crashes, loaded>>

(* r.Create fails on the way there (applied = FALSE) or on the way back.   *)
CreateFails(r, p, applied) ==
  LET obj == work[r][p].obj
      n   == obj.labels.secretName
  IN  /\ work[r][p].pc = "create" /\ Fault
      /\ applied => Valid(p, n) /\ secrets[n] = NoSecret
      /\ secrets' = IF applied THEN [secrets EXCEPT ![n] = NewSecret(p, obj)]
                    ELSE secrets
      /\ Record(obj.uid, {"CreateSecretInClusterError"})
      /\ Finish(r, p) /\ Requeue(r, p)
      /\ UNCHANGED <<pods, nextUid, leading, podCache, secretCache, queue, crashes, loaded>>

-----------------------------------------------------------------------------
Users ==
  \/ \E p \in Pods :
       \/ \E m \in Manifests, reached \in BOOLEAN : CreatePod(p, m, reached)
       \/ \E a \in Annotations : UpdatePod(p, a)
       \/ DeletePod(p)
  \/ \E n \in Uids : CreateForeignSecret(n) \/ DeleteSecret(n)

Worker(r, p) == GetSecret(r, p) \/ Build(r, p) \/ Create(r, p)

Faulty(r, p) ==
  \/ GetPodFails(r, p) \/ GetSecretFails(r, p)
  \/ \E applied \in BOOLEAN : CreateFails(r, p, applied)

Next ==
  \/ Users
  \/ \E n \in Uids : CollectGarbage(n)
  \/ \E r \in Replicas :
       \/ Elect(r) \/ Crash(r)
       \/ \E n \in Uids : DeliverSecret(r, n)
       \/ \E p \in Pods : \/ DeliverPod(r, p) \/ TimerFires(r, p)
                          \/ GetPod(r, p) \/ Worker(r, p) \/ Faulty(r, p)

Spec == Init /\ [][Next]_vars

(***************************************************************************)
(* Fairness.  Watches deliver, timers fire, a worker that started finishes,*)
(* a leader is elected and garbage is collected.  The queue is first in,   *)
(* first out, so a key in it is taken although the workers are busy with   *)
(* other keys again and again: strong fairness of GetPod.                  *)
(***************************************************************************)
Fairness ==
  /\ \A n \in Uids : WF_vars(CollectGarbage(n))
  /\ \A r \in Replicas :
       /\ WF_vars(Elect(r))
       /\ \A n \in Uids : WF_vars(DeliverSecret(r, n))
       /\ \A p \in Pods : /\ WF_vars(DeliverPod(r, p))
                          /\ WF_vars(TimerFires(r, p))
                          /\ SF_vars(GetPod(r, p))
                          /\ WF_vars(Worker(r, p))

FairSpec == Spec /\ Fairness

-----------------------------------------------------------------------------
(***************************************************************************)
(* Properties.                                                             *)
(***************************************************************************)

(* Every variable has its type. *)
TypeOK ==
  /\ pods \in [Pods -> Pod]
  /\ secrets \in [Uids -> Secret]
  /\ nextUid \in 1..(MaxUid + 1)
  /\ events \in SUBSET (Uids \X Reasons)
  /\ leading \in SUBSET Replicas
  /\ podCache \in [Replicas -> [Pods -> Pod]]
  /\ secretCache \in [Replicas -> [Uids -> Secret]]
  /\ queue \in [Replicas -> SUBSET Pods]
  /\ delayed \in [Replicas -> SUBSET Pods]
  /\ work \in [Replicas -> [Pods -> Work]]
  /\ faults \in 0..MaxFaults /\ crashes \in 0..MaxCrashes
  /\ loaded \in SUBSET Replicas

Injected(pod) == pod # NoPod /\ shouldAttemptReconcilation(pod)
Owned(pod) == OwnedBy(SecretNamed(secrets, pod.labels.secretName), pod.uid)

Pending(r, p, u) ==
  \/ p \in queue[r] \cup delayed[r]
  \/ work[r][p].pc # "idle" /\ work[r][p].obj.uid = u

(* No pod is forgotten: once a running controller has seen an injected pod *)
(* that is still there, the pod's key is queued, waiting for a retry or    *)
(* being processed for that very incarnation, or the pod owns the secret   *)
(* it mounts.  In particular the two silent exits of Reconcile, "already   *)
(* exists" on Get and on Create, are only taken for a pod that is served.  *)
NoPodForgotten ==
  \A r \in leading, p \in Pods :
    LET c == podCache[r][p]
    IN  Injected(c) /\ pods[p].uid = c.uid => Pending(r, p, c.uid) \/ Owned(c)

(* A request ends in silence only for a pod that is served: when a worker  *)
(* is done with a pod that still exists, the pod owns the secret it mounts *)
(* or the key is tried again ("not owned by this pod's UID ... so we       *)
(* requeue the object").                                                   *)
NoSilentExit ==
  [][\A r \in Replicas, p \in Pods :
       LET obj == work[r][p].obj
       IN  /\ work[r][p].pc # "idle" /\ work'[r][p].pc = "idle"
           /\ r \in leading' /\ pods'[p].uid = obj.uid
           => \/ p \in delayed'[r]
              \/ OwnedBy(SecretNamed(secrets', obj.labels.secretName), obj.uid)]_vars

(* The owner reference of a secret is the pod it serves: if the owner is   *)
(* alive, the name in the reference is that pod's name and the secret is   *)
(* the one its label, and so its volume, names.  The reference is built    *)
(* from a pod read from a cache some calls earlier.                        *)
OwnerRefsResolve ==
  \A n \in Uids : \A o \in secrets[n].owners :
    Alive(o.uid) => /\ pods[o.name].uid = o.uid
                    /\ pods[o.name].labels.secretName = n

(* The operator only creates: no step rewrites a secret that exists, be it *)
(* its own or somebody else's, whatever the caches say.                    *)
CreateOnly ==
  [][\A n \in Uids : secrets[n] # NoSecret => secrets'[n] \in {secrets[n], NoSecret}]_vars

(* A pod keeps its secret: as long as a pod lives, the secret it owns      *)
(* stays.  The garbage collector goes by the UID in the owner reference.   *)
ServedPodKeepsSecret ==
  [][\A n \in Uids, p \in Pods :
       OwnedBy(secrets[n], pods[p].uid) /\ pods'[p].uid = pods[p].uid
         => OwnedBy(secrets'[n], pods[p].uid)]_vars

(* Every injected pod whose configuration can be built, and whose name     *)
(* fits a label, gets its secret, whatever calls fail, whichever replica   *)
(* crashes and however often its annotations are edited on the way, unless *)
(* a process runs without class data: then as soon as it is restarted with *)
(* them.                                                                   *)
EventuallyServed ==
  \A p \in Pods \ LongNamed, u \in Uids :
    /\ pods[p].uid = u /\ Injected(PodView(pods[p]))
    /\ pods[p].ann \in Buildable
    ~> \/ pods[p].uid # u \/ Owned(pods[p])
       \/ pods[p].ann \notin Buildable \/ loaded # Replicas

(* Nobody waits in silence: an injected pod gets its secret or an event    *)
(* that says why not; only a nil class data handler says nothing.          *)
ServedOrTold ==
  \A p \in Pods, u \in Uids :
    pods[p].uid = u /\ Injected(PodView(pods[p]))
    ~> \/ pods[p].uid # u \/ Owned(pods[p])
       \/ \E e \in {"InvalidTelegrafConfiguration", "CreateSecretInClusterError"} :
             <<u, e>> \in events
       \/ loaded # Replicas

(* No secret leaks: once a pod is gone, its secret is gone for good in the *)
(* end, also when a worker that read the pod earlier creates it late.      *)
NoLeak ==
  \A u \in Uids : u < nextUid /\ ~Alive(u) ~> [](secrets[u] = NoSecret)

(* A secret is whole: it was built by a process that had the class data,   *)
(* from annotations it could build from, although errors and panics are    *)
(* followed by retries and a worker may act long after it looked.          *)
SecretsAreWhole ==
  /\ \A n \in Uids : secrets[n].by = "operator" => secrets[n].conf \in Buildable
  /\ \A r \in Replicas, p \in Pods :
       work[r][p].pc = "create" => r \in loaded /\ work[r][p].obj.ann \in Buildable

(***************************************************************************)
(* The promise of the controller, module SecretLifecycle, read off the API *)
(* server.                                                                 *)
(***************************************************************************)
Lifecycle == INSTANCE SecretLifecycle WITH
  next <- nextUid,
  alive <- {u \in Uids : Alive(u)},
  wanted <- {u \in Uids : \E p \in Pods : pods[p].uid = u /\ Injected(pods[p])},
  secret <- [n \in Uids |-> IF secrets[n] = NoSecret THEN {} ELSE {secrets[n].conf}]

(* As long as only the webhook writes the labels, the controller with all  *)
(* its caches, retries, replicas and crashes implements the life cycle.    *)
IsSecretLifecycle == Lifecycle!Spec

-----------------------------------------------------------------------------
(***************************************************************************)
(* Inductive invariants.                                                   *)
(***************************************************************************)

(* x is a copy of an incarnation of p: its UID was handed out, and whoever *)
(* bears that UID today is p and has the labels of the copy.               *)
Issued(p, x) ==
  \/ x = NoPod
  \/ /\ x.uid \in Uids /\ x.uid < nextUid
     /\ \A q \in Pods : pods[q].uid = x.uid => q = p /\ pods[q].labels = x.labels

(* One incarnation, one name, one set of labels: every copy of a pod, in   *)
(* the API server, a cache or the hands of a worker, and every owner       *)
(* reference made from such a copy, agrees with the living pod of its UID. *)
Incarnations ==
  /\ \A p \in Pods : Issued(p, pods[p])
  /\ \A r \in Replicas, p \in Pods :
       /\ Issued(p, podCache[r][p]) /\ Issued(p, work[r][p].obj)
       /\ work[r][p].pc # "idle" => Injected(work[r][p].obj)
  /\ \A n \in Uids : \A o \in secrets[n].owners : o.uid < nextUid
  /\ OwnerRefsResolve

(* While only the webhook writes the labels, a secret name belongs to one  *)
(* incarnation, every secret is owned by it, and a cached secret of a      *)
(* living pod is still there: what a worker read is stale and still right. *)
Genuine(x) == Injected(x) => x.labels.secretName = x.uid

NamesAreFresh ==
  /\ \A p \in Pods : Genuine(pods[p])
  /\ \A r \in Replicas, p \in Pods :
       Genuine(podCache[r][p]) /\ Genuine(work[r][p].obj)
  /\ \A n \in Uids : secrets[n] # NoSecret =>
       /\ n < nextUid /\ OwnedBy(secrets[n], n)
       /\ secrets[n].by = "operator"
  /\ \A r \in Replicas, n \in Uids : secretCache[r][n] # NoSecret =>
       n < nextUid /\ (Alive(n) => secrets[n] # NoSecret)

=============================================================================
