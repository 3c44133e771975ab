------------------------- MODULE PodControllerProofs -------------------------
(***************************************************************************)
(* Proofs about PodController, for any number of replicas, pods, workers,  *)
(* failed calls and crashes.                                               *)
(***************************************************************************)
EXTENDS PodController, TLAPS

(* A reflector hands out what the API server holds, or that it holds       *)
(* nothing: both are values of their type.                                 *)
LEMMA ViewsTyped ==
  /\ NoPod \in Pod /\ NoSecret \in Secret /\ Foreign \in Secret /\ Idle \in Work
  /\ \A x \in Pod : PodView(x) \in Pod
  /\ \A s \in Secret : SecretView(s) \in Secret
BY ConstantsAssumption
   DEF NoPod, NoSecret, Foreign, Idle, Pod, Secret, Work, Labels, NoLabels, NoName,
       PodView, SecretView

(* What Reconcile does to the record of its worker.                        *)
LEMMA WorkTyped ==
  ASSUME work \in [Replicas -> [Pods -> Work]], NEW r \in Replicas, NEW p \in Pods
  PROVE  /\ Finish(r, p) => work' \in [Replicas -> [Pods -> Work]]
         /\ \A pc \in {"build", "create"} :
              Goto(r, p, pc) => work' \in [Replicas -> [Pods -> Work]]
         /\ \A x \in Pod : work' = [work EXCEPT ![r][p] = [pc |-> "secret", obj |-> x]]
              => work' \in [Replicas -> [Pods -> Work]]
<1>1. work[r][p] \in Work
  OBVIOUS
<1>2. \A w \in Work : [work EXCEPT ![r][p] = w] \in [Replicas -> [Pods -> Work]]
  OBVIOUS
<1>3. ASSUME NEW pc \in {"build", "create"}
      PROVE  [work[r][p] EXCEPT !.pc = pc] \in Work
  BY <1>1 DEF Work
<1>4. \A pc : [work EXCEPT ![r][p].pc = pc] = [work EXCEPT ![r][p] = [work[r][p] EXCEPT !.pc = pc]]
  OBVIOUS
<1>5. \A x \in Pod : [pc |-> "secret", obj |-> x] \in Work
  BY DEF Work
<1> QED
  BY <1>2, <1>3, <1>4, <1>5, ViewsTyped DEF Finish, Goto

(* The initial state has the types.                                        *)
LEMMA InitTypeOK == Init => TypeOK
<1> SUFFICES ASSUME Init PROVE TypeOK
  OBVIOUS
<1> QED
  BY ViewsTyped, ConstantsAssumption DEF Init, TypeOK, Uids, ClassLoads

(* Every action of the model keeps the types; an event and an owner        *)
(* reference carry a UID that was handed out because a worker past GetPod  *)
(* holds an injected pod.                                                  *)
LEMMA TypeStep ==
  ASSUME TypeOK, Incarnations, [Next]_vars
  PROVE  TypeOK'
<1> USE ConstantsAssumption DEF TypeOK, Uids
<1>1. ASSUME NEW p \in Pods, NEW m \in Manifests, NEW reached \in BOOLEAN,
             CreatePod(p, m, reached)
      PROVE  TypeOK'
  <2>1. m.ann \in Annotations /\ m.labels \in Labels
    <3>1. CASE m \in [sidecar : {FALSE}, labels : {NoLabels}, ann : Annotations]
      BY <3>1 DEF Labels, NoLabels, NoName
    <3>2. CASE m \in [sidecar : {TRUE}, ann : Annotations,
                      labels : [injected : {"true", "false"},
                                secretName : 0..(nextUid - 1)]]
      BY <3>2 DEF Labels
    <3> QED
      BY <3>1, <3>2 DEF Manifests
  <2>2. Default(m, nextUid) \in Labels
    BY <1>1, <2>1 DEF Default, Labels, CreatePod
  <2>3. pods' \in [Pods -> Pod]
    BY <1>1, <2>1, <2>2 DEF CreatePod, Pod
  <2> QED
    BY <1>1, <2>3 DEF CreatePod, process
<1>2. ASSUME NEW p \in Pods, NEW a \in Annotations, UpdatePod(p, a)
      PROVE  TypeOK'
  BY <1>2 DEF UpdatePod, process, Pod
<1>3. ASSUME NEW p \in Pods, DeletePod(p)
      PROVE  TypeOK'
  BY <1>3, ViewsTyped DEF DeletePod, process
<1>4. ASSUME NEW n \in Uids, CreateForeignSecret(n) \/ DeleteSecret(n) \/ CollectGarbage(n)
      PROVE  TypeOK'
  BY <1>4, ViewsTyped DEF CreateForeignSecret, DeleteSecret, CollectGarbage, process
<1>5. ASSUME NEW r \in Replicas, NEW n \in Uids, DeliverSecret(r, n)
      PROVE  TypeOK'
  <2>1. SecretView(secrets[n]) \in Secret
    BY ViewsTyped
  <2>2. \A s \in Secret : OwnerRequests(s) \subseteq Pods
    BY DEF OwnerRequests, Secret, OwnerRef
  <2>3. secretCache[r][n] \in Secret
    OBVIOUS
  <2>4. queue' \in [Replicas -> SUBSET Pods]
    BY <1>5, <2>1, <2>2, <2>3 DEF DeliverSecret
  <2>5. secretCache' \in [Replicas -> [Uids -> Secret]]
    BY <1>5, <2>1 DEF DeliverSecret
  <2> QED
    BY <1>5, <2>4, <2>5 DEF DeliverSecret, api
<1>6. ASSUME NEW r \in Replicas, Elect(r)
      PROVE  TypeOK'
  BY <1>6 DEF Elect, api
<1>7. ASSUME NEW r \in Replicas, Crash(r)
      PROVE  TypeOK'
  <2>1. /\ [p \in Pods |-> PodView(pods[p])] \in [Pods -> Pod]
        /\ [n \in Uids |-> SecretView(secrets[n])] \in [Uids -> Secret]
        /\ [p \in Pods |-> Idle] \in [Pods -> Work]
    BY ViewsTyped
  <2>2. loaded' \in SUBSET Replicas
    BY <1>7 DEF Crash, ClassLoads
  <2> QED
    BY <1>7, <2>1, <2>2 DEF Crash, api
<1>8. ASSUME NEW r \in Replicas, NEW p \in Pods, DeliverPod(r, p)
      PROVE  TypeOK'
  <2>1. Observable(podCache[r][p], pods[p]) \subseteq Pod
    BY ViewsTyped DEF Observable
  <2>2. podCache' \in [Replicas -> [Pods -> Pod]]
    BY <1>8, <2>1 DEF DeliverPod
  <2>3. queue' \in [Replicas -> SUBSET Pods]
    BY <1>8 DEF DeliverPod
  <2> QED
    BY <1>8, <2>2, <2>3 DEF DeliverPod, api
<1>9. ASSUME NEW r \in Replicas, NEW p \in Pods, TimerFires(r, p)
      PROVE  TypeOK'
  BY <1>9 DEF TimerFires, api
<1>10. ASSUME NEW r \in Replicas, NEW p \in Pods, GetPod(r, p)
       PROVE  TypeOK'
  <2>1. podCache[r][p] \in Pod
    OBVIOUS
  <2>2. work' \in [Replicas -> [Pods -> Work]]
    BY <1>10, <2>1, WorkTyped DEF GetPod
  <2> QED
    BY <1>10, <2>2 DEF GetPod, Dequeue, api
<1>11. ASSUME NEW r \in Replicas, NEW p \in Pods, GetPodFails(r, p)
       PROVE  TypeOK'
  BY <1>11 DEF GetPodFails, Dequeue, Fault, Requeue, api
<1>12. ASSUME NEW r \in Replicas, NEW p \in Pods, GetSecret(r, p)
       PROVE  TypeOK'
  <2>1. work' \in [Replicas -> [Pods -> Work]]
    BY <1>12, WorkTyped DEF GetSecret
  <2>2. delayed' \in [Replicas -> SUBSET Pods]
    <3>1. Requeue(r, p) \/ UNCHANGED delayed
      BY <1>12 DEF GetSecret
    <3> QED
      BY <3>1 DEF Requeue
  <2> QED
    BY <1>12, <2>1, <2>2 DEF GetSecret, api
<1>13. ASSUME NEW r \in Replicas, NEW p \in Pods, GetSecretFails(r, p)
       PROVE  TypeOK'
  BY <1>13, ViewsTyped DEF GetSecretFails, Fault, Finish, Requeue, api
<1>14. ASSUME NEW r \in Replicas, NEW p \in Pods, Build(r, p)
       PROVE  TypeOK'
  <2>1. work[r][p].obj.uid \in Uids
    BY <1>14 DEF Build, Incarnations, Issued, Injected
  <2>2. events' \in SUBSET (Uids \X Reasons)
    <3>1. PICK reasons \in SUBSET Reasons :
            events' = events \cup ({work[r][p].obj.uid} \X reasons)
      BY <1>14 DEF Build, Record, Reasons
    <3> QED
      BY <3>1, <2>1
  <2>3. (Goto(r, p, "create") /\ UNCHANGED delayed) \/ (Finish(r, p) /\ Requeue(r, p))
    BY <1>14 DEF Build
  <2>4. work' \in [Replicas -> [Pods -> Work]]
    BY <2>3, WorkTyped
  <2>5. delayed' \in [Replicas -> SUBSET Pods]
    BY <2>3 DEF Requeue
  <2> QED
    BY <1>14, <2>2, <2>4, <2>5 DEF Build
<1>15. ASSUME NEW r \in Replicas, NEW p \in Pods,
              Create(r, p) \/ \E applied \in BOOLEAN : CreateFails(r, p, applied)
       PROVE  TypeOK'
  <2> DEFINE obj == work[r][p].obj
  <2>1. obj.uid \in Uids /\ obj \in Pod
    <3>1. work[r][p].pc = "create"
      BY <1>15 DEF Create, CreateFails
    <3>2. work[r][p] \in Work
      OBVIOUS
    <3>3. Injected(obj) /\ Issued(p, obj)
      BY <3>1 DEF Incarnations
    <3> QED
      BY <3>2, <3>3 DEF Issued, Injected, Work
  <2>2. NewSecret(p, obj) \in Secret
    BY <2>1 DEF NewSecret, Secret, OwnerRef, Pod
  <2>3. secrets' \in [Uids -> Secret]
    BY <1>15, <2>2 DEF Create, CreateFails
  <2>4. events' \in SUBSET (Uids \X Reasons)
    BY <1>15, <2>1 DEF Create, CreateFails, Record, Reasons
  <2>5. work' \in [Replicas -> [Pods -> Work]]
    BY <1>15, WorkTyped DEF Create, CreateFails
  <2>6. /\ delayed' \in [Replicas -> SUBSET Pods] 
        /\ faults' \in 0..MaxFaults
    <3>1. Requeue(r, p) \/ UNCHANGED delayed
      BY <1>15 DEF Create, CreateFails
    <3>2. Fault \/ UNCHANGED faults
      BY <1>15 DEF Create, CreateFails
    <3>3. delayed' \in [Replicas -> SUBSET Pods]
      BY <3>1 DEF Requeue
    <3> QED
      BY <3>2, <3>3 DEF Fault
  <2> QED
    BY <1>15, <2>3, <2>4, <2>5, <2>6 DEF Create, CreateFails
<1>16. CASE UNCHANGED vars
  BY <1>16 DEF vars, api, process
<1> QED
  BY <1>1, <1>2, <1>3, <1>4, <1>5, <1>6, <1>7, <1>8, <1>9, <1>10, <1>11, <1>12,
     <1>13, <1>14, <1>15, <1>16
     DEF Next, Users, Worker, Faulty

-----------------------------------------------------------------------------
(***************************************************************************)
(* One incarnation, one name, one set of labels.                           *)
(***************************************************************************)
(* Nothing exists at the start.                                            *)
LEMMA InitIncarnations == Init => Incarnations
<1> SUFFICES ASSUME Init PROVE Incarnations
  OBVIOUS
<1>1. /\ \A p \in Pods : pods[p] = NoPod
      /\ \A r \in Replicas, p \in Pods : podCache[r][p] = NoPod /\ work[r][p] = Idle
      /\ \A n \in Uids : secrets[n].owners = {}
  BY DEF Init, NoSecret
<1> QED
  BY <1>1 DEF Incarnations, Issued, OwnerRefsResolve, Idle

(* Where the copies of a step that admits no pod come from: a cache takes  *)
(* the living pod, a worker takes the cached one, a secret the worker's.   *)
LEMMA IncarnationsQuiet ==
  ASSUME TypeOK, TypeOK', Incarnations, nextUid' = nextUid,
         \A p \in Pods : \/ pods'[p] \in {NoPod, pods[p]}
                         \/ /\ pods[p] # NoPod /\ pods'[p].uid = pods[p].uid
                            /\ pods'[p].labels = pods[p].labels,
         \A r \in Replicas, p \in Pods :
           \/ podCache'[r][p] \in {NoPod, podCache[r][p]}
           \/ podCache'[r][p] = pods[p] /\ pods' = pods,
         \A r \in Replicas, p \in Pods :
           \/ work'[r][p] = Idle
           \/ /\ work'[r][p].obj = work[r][p].obj
              /\ work'[r][p].pc = "idle" <=> work[r][p].pc = "idle"
           \/ work'[r][p].obj = podCache[r][p] /\ Injected(podCache[r][p]),
         \A n \in Uids :
           \/ secrets'[n] \in {secrets[n], NoSecret, Foreign}
           \/ \E r \in Replicas, p \in Pods :
                /\ work[r][p].pc = "create" /\ n = work[r][p].obj.labels.secretName
                /\ secrets'[n] = NewSecret(p, work[r][p].obj) /\ pods' = pods
  PROVE  Incarnations'
<1> USE ConstantsAssumption DEF Uids
<1>1. ASSUME NEW p \in Pods, NEW x, Issued(p, x) PROVE Issued(p, x)'
  BY <1>1 DEF Issued, NoPod
<1>2. \A p \in Pods : Issued(p, pods[p])'
  <2> SUFFICES ASSUME NEW p \in Pods PROVE Issued(p, pods[p])'
    OBVIOUS
  <2>1. CASE pods'[p] = NoPod
    BY <2>1 DEF Issued
  <2>2. CASE pods'[p].uid = pods[p].uid /\ pods'[p].labels = pods[p].labels
    <3>1. Issued(p, pods[p])
      BY DEF Incarnations
    <3>2. CASE pods'[p] = pods[p]
      BY <1>1, <3>1, <3>2 DEF Issued
    <3> QED
      BY <2>1, <2>2, <3>1, <3>2 DEF Issued, NoPod
  <2> QED
    BY <2>1, <2>2
<1>3. ASSUME NEW r \in Replicas, NEW p \in Pods
      PROVE  /\ Issued(p, podCache[r][p])' /\ Issued(p, work[r][p].obj)'
             /\ work'[r][p].pc # "idle" => Injected(work'[r][p].obj)
  <2>1. Issued(p, NoPod)'
    BY DEF Issued
  <2>2. /\ Issued(p, pods[p]) /\ Issued(p, podCache[r][p]) /\ Issued(p, work[r][p].obj)
        /\ work[r][p].pc # "idle" => Injected(work[r][p].obj)
    BY DEF Incarnations
  <2>3. Idle.pc = "idle" /\ Idle.obj = NoPod
    BY DEF Idle
  <2>4. /\ podCache'[r][p] = podCache[r][p] => Issued(p, podCache[r][p])'
        /\ podCache'[r][p] = NoPod => Issued(p, podCache[r][p])'
        /\ podCache'[r][p] = pods[p] => Issued(p, podCache[r][p])'
    BY <1>1, <1>2, <2>1, <2>2 DEF Issued
  <2>5. Issued(p, work[r][p].obj)'
    BY <1>1, <2>1, <2>2, <2>3 DEF Issued
  <2> QED
    BY <2>2, <2>3, <2>4, <2>5 DEF Injected
<1>4. ASSUME NEW n \in Uids, NEW o \in secrets'[n].owners
      PROVE  /\ o.uid < nextUid'
             /\ Alive(o.uid)' => /\ pods'[o.name].uid = o.uid
                                 /\ pods'[o.name].labels.secretName = n
  <2>1. CASE o \in secrets[n].owners
    <3>1. o \in OwnerRef
      BY <2>1 DEF TypeOK, Secret
    <3>2. o.uid < nextUid
      BY <2>1 DEF Incarnations
    <3>3. ASSUME Alive(o.uid)' PROVE Alive(o.uid) /\ \E q \in Pods : pods'[q].uid = o.uid
      <4>1. PICK q \in Pods : pods'[q].uid = o.uid
        BY <3>3 DEF Alive
      <4> QED
        BY <3>1, <4>1 DEF Alive, OwnerRef, NoPod
    <3>4. ASSUME Alive(o.uid)' 
          PROVE  pods'[o.name].uid = o.uid /\ pods'[o.name].labels.secretName = n
      <4>1. pods[o.name].uid = o.uid /\ pods[o.name].labels.secretName = n
        BY <2>1, <3>3, <3>4 DEF Incarnations, OwnerRefsResolve
      <4>2. PICK q \in Pods : pods'[q].uid = o.uid
        BY <3>3, <3>4
      <4>3. q = o.name
        BY <3>1, <4>1, <4>2 DEF Incarnations, Issued, OwnerRef, NoPod
      <4> QED
        BY <3>1, <4>1, <4>2, <4>3 DEF OwnerRef, NoPod
    <3> QED
      BY <3>2, <3>4
  <2>2. ASSUME NEW r \in Replicas, NEW p \in Pods, work[r][p].pc = "create",
               n = work[r][p].obj.labels.secretName,
               secrets'[n] = NewSecret(p, work[r][p].obj), pods' = pods
        PROVE  /\ o.uid < nextUid'
               /\ Alive(o.uid)' => /\ pods'[o.name].uid = o.uid
                                   /\ pods'[o.name].labels.secretName = n
    <3>1. o.uid = work[r][p].obj.uid /\ o.name = p
      BY <2>2 DEF NewSecret
    <3>2. Issued(p, work[r][p].obj) /\ work[r][p].obj # NoPod
      BY <2>2 DEF Incarnations, Injected
    <3> QED
      BY <2>2, <3>1, <3>2 DEF Issued, Alive
  <2>3. NoSecret.owners = {} /\ Foreign.owners = {}
    BY DEF NoSecret, Foreign
  <2> QED
    BY <2>1, <2>2, <2>3
<1> QED
  BY <1>2, <1>3, <1>4 DEF Incarnations, OwnerRefsResolve

(* Before r.Create, a worker holds what it held, what the cache held, or   *)
(* nothing, and goes on only with an injected pod.                         *)
LEMMA WorkObjects ==
  ASSUME TypeOK, NEW r \in Replicas, NEW p \in Pods,
         \/ GetPod(r, p) \/ GetSecret(r, p) \/ GetSecretFails(r, p) \/ Build(r, p)
  PROVE  \A s \in Replicas, q \in Pods :
           \/ work'[s][q] = Idle
           \/ /\ work'[s][q].obj = work[s][q].obj
              /\ work'[s][q].pc = "idle" <=> work[s][q].pc = "idle"
           \/ work'[s][q].obj = podCache[s][q] /\ Injected(podCache[s][q])
<1>1. \A s \in Replicas, q \in Pods : <<s, q>> # <<r, p>> => work'[s][q] = work[s][q]
  BY DEF GetPod, GetSecret, GetSecretFails, Build, Finish, Goto, TypeOK
<1>2. \/ work'[r][p] = Idle
      \/ /\ work'[r][p].obj = work[r][p].obj
         /\ work'[r][p].pc = "idle" <=> work[r][p].pc = "idle"
      \/ work'[r][p].obj = podCache[r][p] /\ Injected(podCache[r][p])
  <2>1. CASE GetPod(r, p)
    BY <2>1 DEF GetPod, TypeOK, Injected
  <2>2. ASSUME NEW pc \in {"build", "create"}, Goto(r, p, pc), work[r][p].pc # "idle"
        PROVE  /\ work'[r][p].obj = work[r][p].obj
               /\ work'[r][p].pc = "idle" <=> work[r][p].pc = "idle"
    <3>1. work[r][p] \in Work
      BY DEF TypeOK
    <3>2. work'[r][p] = [work[r][p] EXCEPT !.pc = pc]
      BY <2>2 DEF Goto, TypeOK
    <3> QED
      BY <2>2, <3>1, <3>2 DEF Work
  <2>3. Finish(r, p) => work'[r][p] = Idle
    BY DEF Finish, TypeOK
  <2> QED
    BY <2>1, <2>2, <2>3 DEF GetSecret, GetSecretFails, Build
<1> QED
  BY <1>1, <1>2

(* Every action keeps the copies of an incarnation in agreement.           *)
LEMMA IncarnationsStep ==
  ASSUME TypeOK, TypeOK', Incarnations, [Next]_vars
  PROVE  Incarnations'
<1> USE ConstantsAssumption DEF Uids
<1>1. ASSUME NEW p \in Pods, NEW m \in Manifests, NEW reached \in BOOLEAN,
             CreatePod(p, m, reached)
      PROVE  Incarnations'
  <2>1. /\ pods[p] = NoPod /\ nextUid \in Uids /\ nextUid' = nextUid + 1
        /\ pods'[p].uid = nextUid
        /\ \A q \in Pods \ {p} : pods'[q] = pods[q]
        /\ UNCHANGED <<secrets, podCache, work>>
    BY <1>1 DEF CreatePod, process, TypeOK
  <2>2. ASSUME NEW q \in Pods, NEW x, Issued(q, x) PROVE Issued(q, x)'
    <3>1. nextUid \in Nat /\ nextUid' \in Nat /\ nextUid < nextUid'
      BY <2>1 DEF TypeOK
    <3>2. CASE x = NoPod
      BY <3>2 DEF Issued
    <3>3. CASE x # NoPod
      <4>1. x.uid \in Uids /\ x.uid < nextUid
        BY <2>2, <3>3 DEF Issued
      <4>2. x.uid < nextUid' /\ x.uid # pods'[p].uid
        BY <2>1, <3>1, <4>1
      <4>3. \A o \in Pods : pods'[o].uid = x.uid => o = q /\ pods'[o].labels = x.labels
        BY <2>1, <2>2, <3>3, <4>2 DEF Issued
      <4> QED
        BY <4>1, <4>2, <4>3 DEF Issued
    <3> QED
      BY <3>2, <3>3
  <2>3. Issued(p, pods[p])'
    <3>1. \A q \in Pods : pods[q].uid < nextUid
      BY DEF Incarnations, Issued, NoPod, TypeOK
    <3> QED
      BY <2>1, <3>1 DEF Issued, TypeOK
  <2>4. \A q \in Pods : Issued(q, pods[q])'
    BY <2>1, <2>2, <2>3 DEF Incarnations
  <2>5. OwnerRefsResolve'
    <3> SUFFICES ASSUME NEW n \in Uids, NEW o \in secrets[n].owners, Alive(o.uid)'
                 PROVE  pods'[o.name].uid = o.uid /\ pods'[o.name].labels.secretName = n
      BY <2>1 DEF OwnerRefsResolve
    <3>1. o \in OwnerRef /\ o.uid < nextUid
      BY DEF TypeOK, Secret, Incarnations
    <3>2. Alive(o.uid)
      <4>1. PICK q \in Pods : pods'[q].uid = o.uid
        BY DEF Alive
      <4>2. q # p
        BY <2>1, <3>1, <4>1 DEF TypeOK, OwnerRef
      <4> QED
        BY <2>1, <4>1, <4>2 DEF Alive
    <3>3. pods[o.name].uid = o.uid /\ pods[o.name].labels.secretName = n
      BY <3>2 DEF Incarnations, OwnerRefsResolve
    <3>4. o.name # p
      BY <2>1, <3>1, <3>3 DEF NoPod, OwnerRef
    <3> QED
      BY <2>1, <3>1, <3>3, <3>4 DEF OwnerRef
  <2>6. \A r \in Replicas, q \in Pods :
          /\ Issued(q, podCache[r][q])' /\ Issued(q, work[r][q].obj)'
          /\ work[r][q].pc # "idle" => Injected(work[r][q].obj)'
    BY <2>1, <2>2 DEF Incarnations, Injected
  <2>7. \A n \in Uids : \A o \in secrets'[n].owners : o.uid < nextUid'
    BY <2>1 DEF Incarnations, TypeOK, Secret, OwnerRef
  <2> QED
    BY <2>1, <2>4, <2>5, <2>6, <2>7 DEF Incarnations
<1>2. ASSUME NEW p \in Pods, NEW a \in Annotations, UpdatePod(p, a)
      PROVE  Incarnations'
  BY <1>2, IncarnationsQuiet DEF UpdatePod, process, TypeOK, Pod
<1>3. ASSUME NEW p \in Pods, DeletePod(p)
      PROVE  Incarnations'
  BY <1>3, IncarnationsQuiet DEF DeletePod, process, TypeOK
<1>4. ASSUME NEW n \in Uids, CreateForeignSecret(n) \/ DeleteSecret(n) \/ CollectGarbage(n)
      PROVE  Incarnations'
  BY <1>4, IncarnationsQuiet
     DEF CreateForeignSecret, DeleteSecret, CollectGarbage, process, TypeOK
<1>5. ASSUME NEW r \in Replicas, NEW n \in Uids, DeliverSecret(r, n)
      PROVE  Incarnations'
  BY <1>5, IncarnationsQuiet DEF DeliverSecret, api
<1>6. ASSUME NEW r \in Replicas, Elect(r)
      PROVE  Incarnations'
  BY <1>6, IncarnationsQuiet DEF Elect, api
<1>7. ASSUME NEW r \in Replicas, Crash(r)
      PROVE  Incarnations'
  <2>1. /\ UNCHANGED <<pods, nextUid, secrets>>
        /\ \A p \in Pods : work'[r][p] = Idle /\ podCache'[r][p] \in {NoPod, pods[p]}
        /\ \A q \in Replicas \ {r} : work'[q] = work[q] /\ podCache'[q] = podCache[q]
    BY <1>7 DEF Crash, api, PodView, TypeOK
  <2> QED
    BY <2>1, IncarnationsQuiet
<1>8. ASSUME NEW r \in Replicas, NEW p \in Pods, DeliverPod(r, p)
      PROVE  Incarnations'
  <2>1. Observable(podCache[r][p], pods[p]) \subseteq {NoPod, pods[p]}
    BY DEF Observable, PodView
  <2>2. /\ UNCHANGED <<pods, nextUid, secrets, work>>
        /\ podCache'[r][p] \in {NoPod, pods[p]}
        /\ \A s \in Replicas, q \in Pods : <<s, q>> # <<r, p>> => podCache'[s][q] = podCache[s][q]
    BY <1>8, <2>1 DEF DeliverPod, api, TypeOK
  <2> QED
    BY <2>2, IncarnationsQuiet
<1>9. ASSUME NEW r \in Replicas, NEW p \in Pods, TimerFires(r, p) \/ GetPodFails(r, p)
      PROVE  Incarnations'
  BY <1>9, IncarnationsQuiet DEF TimerFires, GetPodFails, api
<1>10. ASSUME NEW r \in Replicas, NEW p \in Pods,
              \/ GetPod(r, p) \/ GetSecret(r, p) \/ GetSecretFails(r, p) \/ Build(r, p)
       PROVE  Incarnations'
  <2>1. UNCHANGED <<pods, nextUid, secrets, podCache>>
    BY <1>10 DEF GetPod, GetSecret, GetSecretFails, Build, api
  <2> QED
    BY <1>10, <2>1, WorkObjects, IncarnationsQuiet
<1>11. ASSUME NEW r \in Replicas, NEW p \in Pods,
              Create(r, p) \/ \E applied \in BOOLEAN : CreateFails(r, p, applied)
       PROVE  Incarnations'
  <2>1. /\ UNCHANGED <<pods, nextUid, podCache>>
        /\ work[r][p].pc = "create" /\ work' = [work EXCEPT ![r][p] = Idle]
    BY <1>11 DEF Create, CreateFails, Finish
  <2>2. \A s \in Replicas, q \in Pods : work'[s][q] \in {Idle, work[s][q]}
    BY <2>1 DEF TypeOK
  <2>3. \/ secrets' = secrets
        \/ secrets' = [secrets EXCEPT ![work[r][p].obj.labels.secretName] =
                                         NewSecret(p, work[r][p].obj)]
    BY <1>11 DEF Create, CreateFails
  <2>4. \A n \in Uids : \/ secrets'[n] = secrets[n]
                        \/ /\ n = work[r][p].obj.labels.secretName
                           /\ secrets'[n] = NewSecret(p, work[r][p].obj)
    BY <2>3 DEF TypeOK
  <2> QED
    BY <2>1, <2>2, <2>4, IncarnationsQuiet
<1>12. CASE UNCHANGED vars
  BY <1>12, IncarnationsQuiet DEF vars, api, process
<1> QED
  BY <1>1, <1>2, <1>3, <1>4, <1>5, <1>6, <1>7, <1>8, <1>9, <1>10, <1>11, <1>12
     DEF Next, Users, Worker, Faulty

(* Type correctness and the incarnation invariant, proved together: the    *)
(* UID in an owner reference or an event is one that was handed out.       *)
LEMMA IncarnationsHold == Spec => [](TypeOK /\ Incarnations)
<1>1. Init => TypeOK /\ Incarnations
  BY InitTypeOK, InitIncarnations
<1>2. TypeOK /\ Incarnations /\ [Next]_vars => (TypeOK /\ Incarnations)'
  BY TypeStep, IncarnationsStep
<1> QED
  BY <1>1, <1>2, PTL DEF Spec

(* Every variable keeps its type, whatever users, failures and crashes do. *)
THEOREM TypeCorrect == Spec => []TypeOK
BY IncarnationsHold, PTL

(* An owner reference written by Reconcile resolves: a living owner has    *)
(* the name in the reference and mounts that very secret, although the     *)
(* reference was made from a cached pod and whatever users do.             *)
THEOREM OwnersResolve == Spec => []OwnerRefsResolve
<1>1. Incarnations => OwnerRefsResolve
  BY DEF Incarnations
<1> QED
  BY <1>1, IncarnationsHold, PTL

-----------------------------------------------------------------------------
(***************************************************************************)
(* A secret name belongs to one incarnation, as long as only the webhook   *)
(* writes the labels and only the operator and the garbage collector touch *)
(* the secrets.                                                            *)
(***************************************************************************)
LEMMA InitFresh == Init => NamesAreFresh
<1> SUFFICES ASSUME Init PROVE NamesAreFresh
  OBVIOUS
<1>1. Genuine(NoPod)
  BY DEF Genuine, Injected
<1> QED
  BY <1>1 DEF Init, NamesAreFresh, Idle

(* The secret of a living pod stays.  So does every cached copy's truth.   *)
LEMMA FreshStep ==
  ASSUME Interference \subseteq {"classes"}, TypeOK, TypeOK', Incarnations, NamesAreFresh, [Next]_vars
  PROVE  NamesAreFresh'
<1> USE ConstantsAssumption DEF Uids
<1>a. Genuine(NoPod) /\ \A x : Genuine(x) => Genuine(PodView(x))
  BY DEF Genuine, Injected, PodView
<1>b. ASSUME NEW n \in Uids, Alive(n)', pods' = pods PROVE Alive(n)
  BY <1>b DEF Alive
<1>1. ASSUME NEW p \in Pods, NEW m \in Manifests, NEW reached \in BOOLEAN,
             CreatePod(p, m, reached)
      PROVE  NamesAreFresh'
  <2>1. /\ nextUid \in Uids /\ nextUid' = nextUid + 1
        /\ \A q \in Pods \ {p} : pods'[q] = pods[q]
        /\ UNCHANGED <<secrets, secretCache, podCache, work>>
        /\ pods'[p] = [uid |-> nextUid, ann |-> m.ann,
                       labels |-> IF reached THEN Default(m, nextUid) ELSE m.labels]
    BY <1>1 DEF CreatePod, process, TypeOK
  <2>2. m.labels = NoLabels
    BY DEF Manifests
  <2>3. Genuine(pods'[p])
    BY <2>1, <2>2 DEF Genuine, Injected, Default, NoLabels, shouldAttemptReconcilation
  <2>4. \A q \in Pods : Genuine(pods'[q])
    BY <2>1, <2>3 DEF NamesAreFresh
  <2>5. ASSUME NEW n \in Uids, n < nextUid, Alive(n)' PROVE Alive(n)
    <3>1. PICK q \in Pods : pods'[q].uid = n
      BY <2>5 DEF Alive
    <3>2. q # p
      BY <2>1, <2>5, <3>1 DEF TypeOK
    <3> QED
      BY <2>1, <3>1, <3>2 DEF Alive
  <2>6. \A r \in Replicas, n \in Uids : secretCache'[r][n] # NoSecret =>
          n < nextUid' /\ (Alive(n)' => secrets'[n] # NoSecret)
    BY <2>1, <2>5 DEF NamesAreFresh, TypeOK
  <2>7. \A n \in Uids : secrets'[n] # NoSecret =>
          n < nextUid' /\ OwnedBy(secrets'[n], n) /\ secrets'[n].by = "operator"
    BY <2>1 DEF NamesAreFresh, TypeOK
  <2> QED
    BY <2>1, <2>4, <2>6, <2>7 DEF NamesAreFresh, OwnedBy
<1>2. ASSUME NEW p \in Pods, NEW a \in Annotations, UpdatePod(p, a)
      PROVE  NamesAreFresh'
  <2>1. /\ pods[p] # NoPod /\ pods' = [pods EXCEPT ![p].ann = a]
        /\ UNCHANGED <<nextUid, secrets, secretCache, podCache, work>>
    BY <1>2 DEF UpdatePod, process
  <2>2. \A q \in Pods : pods'[q].uid = pods[q].uid /\ pods'[q].labels = pods[q].labels
    BY <2>1 DEF TypeOK, Pod
  <2>3. \A q \in Pods : pods'[q] = NoPod => pods[q] = NoPod
    BY <2>1, <2>2 DEF Incarnations, Issued, NoPod, TypeOK
  <2>4. \A q \in Pods : Genuine(pods'[q])
    <3> SUFFICES ASSUME NEW q \in Pods PROVE Genuine(pods'[q])
      OBVIOUS
    <3>1. CASE q = p
      BY <2>1, <2>2, <3>1 DEF NamesAreFresh, Genuine, Injected, shouldAttemptReconcilation
    <3>2. CASE q # p
      BY <2>1, <3>2 DEF NamesAreFresh, TypeOK
    <3> QED
      BY <3>1, <3>2
  <2>5. \A n \in Uids : Alive(n)' => Alive(n)
    BY <2>2 DEF Alive
  <2> QED
    BY <2>1, <2>4, <2>5 DEF NamesAreFresh, OwnedBy
<1>3. ASSUME NEW p \in Pods, DeletePod(p)
      PROVE  NamesAreFresh'
  <2>1. /\ \A q \in Pods : pods'[q] \in {NoPod, pods[q]}
        /\ UNCHANGED <<nextUid, secrets, secretCache, podCache, work>>
    BY <1>3 DEF DeletePod, process, TypeOK
  <2>2. \A n \in Uids : Alive(n)' => Alive(n)
    BY <2>1 DEF Alive, NoPod
  <2> QED
    BY <1>a, <2>1, <2>2 DEF NamesAreFresh, OwnedBy
<1>4. ASSUME NEW n \in Uids, CreateForeignSecret(n) \/ DeleteSecret(n)
      PROVE  NamesAreFresh'
  BY <1>4 DEF CreateForeignSecret, DeleteSecret
<1>5. ASSUME NEW n \in Uids, CollectGarbage(n)
      PROVE  NamesAreFresh'
  <2>1. /\ secrets'[n] = NoSecret /\ \A k \in Uids \ {n} : secrets'[k] = secrets[k]
        /\ UNCHANGED <<pods, nextUid, secretCache, podCache, work>>
    BY <1>5 DEF CollectGarbage, process, TypeOK
  <2>2. ~Alive(n)
    <3>1. secrets[n] # NoSecret
      BY <1>5 DEF CollectGarbage, NoSecret
    <3>2. PICK o \in secrets[n].owners : o.uid = n
      BY <3>1 DEF NamesAreFresh, OwnedBy
    <3> QED
      BY <1>5, <3>2 DEF CollectGarbage
  <2> QED
    BY <1>b, <2>1, <2>2 DEF NamesAreFresh, OwnedBy
<1>6. ASSUME NEW r \in Replicas, NEW n \in Uids, DeliverSecret(r, n)
      PROVE  NamesAreFresh'
  <2>1. /\ UNCHANGED <<pods, nextUid, secrets, podCache, work>>
        /\ secretCache'[r][n] \in {NoSecret, secrets[n]}
        /\ \A s \in Replicas, k \in Uids :
             <<s, k>> # <<r, n>> => secretCache'[s][k] = secretCache[s][k]
    BY <1>6 DEF DeliverSecret, SecretView, api, TypeOK
  <2> QED
    BY <1>b, <2>1 DEF NamesAreFresh, OwnedBy
<1>7. ASSUME NEW r \in Replicas, Crash(r)
      PROVE  NamesAreFresh'
  <2>1. /\ UNCHANGED <<pods, nextUid, secrets>>
        /\ \A p \in Pods : work'[r][p] = Idle /\ podCache'[r][p] \in {NoPod, pods[p]}
        /\ \A n \in Uids : secretCache'[r][n] \in {NoSecret, secrets[n]}
        /\ \A q \in Replicas \ {r} : /\ work'[q] = work[q] /\ podCache'[q] = podCache[q]
                                     /\ secretCache'[q] = secretCache[q]
    BY <1>7 DEF Crash, api, PodView, SecretView, TypeOK
  <2>2. \A q \in Replicas, p \in Pods :
          Genuine(podCache'[q][p]) /\ Genuine(work'[q][p].obj)
    BY <1>a, <2>1 DEF NamesAreFresh, Idle
  <2>3. \A q \in Replicas, n \in Uids : secretCache'[q][n] # NoSecret =>
          n < nextUid' /\ (Alive(n)' => secrets'[n] # NoSecret)
    BY <1>b, <2>1 DEF NamesAreFresh
  <2> QED
    BY <2>1, <2>2, <2>3 DEF NamesAreFresh, OwnedBy
<1>8. ASSUME NEW r \in Replicas, NEW p \in Pods, DeliverPod(r, p)
      PROVE  NamesAreFresh'
  <2>1. Observable(podCache[r][p], pods[p]) \subseteq {NoPod, pods[p]}
    BY DEF Observable, PodView
  <2>2. /\ UNCHANGED <<pods, nextUid, secrets, secretCache, work>>
        /\ podCache'[r][p] \in {NoPod, pods[p]}
        /\ \A s \in Replicas, q \in Pods : <<s, q>> # <<r, p>> => podCache'[s][q] = podCache[s][q]
    BY <1>8, <2>1 DEF DeliverPod, api, TypeOK
  <2>3. \A s \in Replicas, q \in Pods : Genuine(podCache'[s][q])
    BY <1>a, <2>2 DEF NamesAreFresh
  <2> QED
    BY <1>b, <2>2, <2>3 DEF NamesAreFresh, OwnedBy
<1>9. ASSUME NEW r \in Replicas,
             Elect(r) \/ \E p \in Pods : TimerFires(r, p) \/ GetPodFails(r, p)
      PROVE  NamesAreFresh'
  <2>1. UNCHANGED <<pods, nextUid, secrets, secretCache, podCache, work>>
    BY <1>9 DEF Elect, TimerFires, GetPodFails, api
  <2> QED
    BY <1>b, <2>1 DEF NamesAreFresh, OwnedBy
<1>10. ASSUME NEW r \in Replicas, NEW p \in Pods,
              \/ GetPod(r, p) \/ GetSecret(r, p) \/ GetSecretFails(r, p) \/ Build(r, p)
       PROVE  NamesAreFresh'
  <2>1. UNCHANGED <<pods, nextUid, secrets, podCache, secretCache>>
    BY <1>10 DEF GetPod, GetSecret, GetSecretFails, Build, api
  <2>2. \A s \in Replicas, q \in Pods :
          work'[s][q].obj \in {work[s][q].obj, podCache[s][q], NoPod}
    BY <1>10, WorkObjects DEF Idle
  <2> QED
    BY <1>a, <1>b, <2>1, <2>2 DEF NamesAreFresh, OwnedBy
<1>11. ASSUME NEW r \in Replicas, NEW p \in Pods,
              Create(r, p) \/ \E applied \in BOOLEAN : CreateFails(r, p, applied)
       PROVE  NamesAreFresh'
  <2> DEFINE obj == work[r][p].obj
  <2>1. /\ UNCHANGED <<pods, nextUid, podCache, secretCache>>
        /\ work[r][p].pc = "create" /\ work' = [work EXCEPT ![r][p] = Idle]
    BY <1>11 DEF Create, CreateFails, Finish
  <2>2. \A s \in Replicas, q \in Pods : work'[s][q] \in {Idle, work[s][q]}
    BY <2>1 DEF TypeOK
  <2>3. /\ Injected(obj) /\ obj.uid < nextUid /\ obj.labels.secretName = obj.uid
    BY <2>1 DEF Incarnations, Issued, NamesAreFresh, Genuine, Injected
  <2>4. \A n \in Uids : \/ secrets'[n] = secrets[n]
                        \/ n = obj.uid /\ secrets'[n] = NewSecret(p, obj)
    BY <1>11, <2>3 DEF Create, CreateFails, TypeOK
  <2>5. NewSecret(p, obj) # NoSecret /\ NewSecret(p, obj).by = "operator"
        /\ OwnedBy(NewSecret(p, obj), obj.uid)
    BY DEF NewSecret, NoSecret, OwnedBy
  <2>6. \A n \in Uids : secrets'[n] # NoSecret =>
          n < nextUid' /\ OwnedBy(secrets'[n], n) /\ secrets'[n].by = "operator"
    BY <2>1, <2>3, <2>4, <2>5 DEF NamesAreFresh
  <2>7. \A q \in Replicas, n \in Uids : secretCache'[q][n] # NoSecret =>
          n < nextUid' /\ (Alive(n)' => secrets'[n] # NoSecret)
    BY <1>b, <2>1, <2>4, <2>5 DEF NamesAreFresh
  <2>8. \A s \in Replicas, q \in Pods : Genuine(work'[s][q].obj)
    BY <1>a, <2>2 DEF NamesAreFresh, Idle
  <2> QED
    BY <2>1, <2>6, <2>7, <2>8 DEF NamesAreFresh, OwnedBy
<1>12. CASE UNCHANGED vars
  BY <1>12, <1>b DEF vars, api, process, NamesAreFresh, OwnedBy
<1> QED
  BY <1>1, <1>2, <1>3, <1>4, <1>5, <1>6, <1>7, <1>8, <1>9, <1>10, <1>11, <1>12
     DEF Next, Users, Worker, Faulty

-----------------------------------------------------------------------------
(***************************************************************************)
(* No pod is forgotten.                                                    *)
(***************************************************************************)

(* The predicates let every change of an injected pod pass: two copies     *)
(* with the same labels are the same incarnation, since the labels hold    *)
(* its secret name.                                                        *)
LEMMA PredicatePasses ==
  ASSUME NEW old \in Pod, NEW new \in Pod, Genuine(old), Genuine(new),
         Injected(new), old # new
  PROVE  PodPredicate(old, new)
BY DEF PodPredicate, Genuine, Injected, shouldAttemptReconcilation, Pod, Labels

(* Every action keeps each injected pod pending or served; the two silent  *)
(* exits of Reconcile are where the invariants on names are needed.        *)
LEMMA ForgottenStep ==
  ASSUME Interference \subseteq {"classes"}, TypeOK, TypeOK', Incarnations, Incarnations',
         NamesAreFresh, NamesAreFresh', NoPodForgotten, [Next]_vars
  PROVE  NoPodForgotten'
<1> USE ConstantsAssumption DEF Uids
<1> SUFFICES ASSUME NEW r \in leading', NEW p \in Pods,
                    Injected(podCache'[r][p]), pods'[p].uid = podCache'[r][p].uid
             PROVE  Pending(r, p, podCache[r][p].uid)' \/ Owned(podCache[r][p])'
  BY DEF NoPodForgotten
<1> DEFINE u == podCache'[r][p].uid
<1>r. r \in Replicas
  BY DEF TypeOK
<1>u. u \in Uids /\ podCache'[r][p].labels.secretName = u
  BY <1>r DEF Incarnations, Issued, Injected, NamesAreFresh, Genuine
<1> DEFINE Kept == \/ p \in queue'[r] \cup delayed'[r]
                   \/ work'[r][p].pc # "idle" /\ work'[r][p].obj.uid = u
                   \/ secrets'[u] # NoSecret
<1>o. SUFFICES Kept
  <2>1. secrets'[u] # NoSecret => Owned(podCache[r][p])'
    BY <1>u DEF NamesAreFresh, Owned, SecretNamed, NoName
  <2> QED
    BY <2>1 DEF Pending
(* What the invariant says of p before a step that leaves its copy alone.  *)
<1>k. ASSUME r \in leading, podCache'[r][p] = podCache[r][p], pods'[p].uid = pods[p].uid
      PROVE  /\ Alive(u)
             /\ \/ Pending(r, p, u) \/ secrets[u] # NoSecret
  <2>1. Pending(r, p, u) \/ Owned(podCache[r][p])
    BY <1>k DEF NoPodForgotten
  <2>2. Owned(podCache[r][p]) => secrets[u] # NoSecret
    BY <1>k, <1>u DEF Owned, SecretNamed, NoName, OwnedBy, NoSecret
  <2> QED
    BY <1>k, <2>1, <2>2 DEF Alive
(* A step that loses neither key, worker nor secret.                       *)
<1>q. ASSUME r \in leading, podCache'[r][p] = podCache[r][p], pods'[p].uid = pods[p].uid,
             p \in queue[r] \cup delayed[r] => p \in queue'[r] \cup delayed'[r],
             \/ p \in queue'[r] \cup delayed'[r]
             \/ work'[r][p].obj = work[r][p].obj
                /\ (work[r][p].pc # "idle" => work'[r][p].pc # "idle"),
             secrets[u] # NoSecret => secrets'[u] # NoSecret
      PROVE  Kept
  BY <1>k, <1>q DEF Pending
<1>1. ASSUME NEW q \in Pods, NEW m \in Manifests, NEW reached \in BOOLEAN,
             CreatePod(q, m, reached)
      PROVE  Kept
  <2>1. /\ pods'[q].uid = nextUid /\ (q # p => pods'[p] = pods[p])
        /\ UNCHANGED <<secrets, process>>
    BY <1>1 DEF CreatePod, TypeOK
  <2>2. q # p
    <3>1. podCache'[r][p].uid < nextUid
      BY <1>r, <1>u, <2>1 DEF Incarnations, Issued, Injected, process
    <3> QED
      BY <2>1, <3>1 DEF TypeOK
  <2> QED
    BY <1>q, <2>1, <2>2 DEF process
<1>2. ASSUME NEW q \in Pods, (\E a \in Annotations : UpdatePod(q, a)) \/ DeletePod(q)
      PROVE  Kept
  <2>1. UNCHANGED <<secrets, process>> /\ pods'[p].uid \in {0, pods[p].uid}
    <3>1. CASE DeletePod(q)
      BY <3>1 DEF DeletePod, TypeOK, NoPod
    <3>2. ASSUME NEW a \in Annotations, UpdatePod(q, a) PROVE pods'[p].uid = pods[p].uid
      BY <3>2 DEF UpdatePod, TypeOK, Pod
    <3> QED
      BY <1>2, <3>1, <3>2 DEF UpdatePod
  <2> QED
    BY <1>q, <1>u, <2>1 DEF process
<1>3. ASSUME NEW n \in Uids, CreateForeignSecret(n) \/ DeleteSecret(n)
      PROVE  Kept
  BY <1>3 DEF CreateForeignSecret, DeleteSecret
<1>4. ASSUME NEW n \in Uids, CollectGarbage(n)
      PROVE  Kept
  <2>1. /\ UNCHANGED <<pods, process>>
        /\ \A k \in Uids \ {n} : secrets'[k] = secrets[k]
    BY <1>4 DEF CollectGarbage, TypeOK
  <2>2. ~Alive(n)
    <3>1. secrets[n] # NoSecret
      BY <1>4 DEF CollectGarbage, NoSecret
    <3>2. PICK o \in secrets[n].owners : o.uid = n
      BY <3>1 DEF NamesAreFresh, OwnedBy
    <3> QED
      BY <1>4, <3>2 DEF CollectGarbage
  <2>3. u # n
    BY <1>k, <2>1, <2>2 DEF process
  <2> QED
    BY <1>q, <1>u, <2>1, <2>3 DEF process
<1>5. ASSUME NEW s \in Replicas, NEW n \in Uids, DeliverSecret(s, n)
      PROVE  Kept
  <2>1. /\ UNCHANGED <<api, leading, podCache, delayed, work>>
        /\ queue[r] \subseteq queue'[r]
    BY <1>5 DEF DeliverSecret, TypeOK
  <2> QED
    BY <1>q, <2>1 DEF api
<1>6. ASSUME NEW s \in Replicas, Elect(s)
      PROVE  Kept
  <2>1. UNCHANGED <<api, podCache, delayed, work>>
    BY <1>6 DEF Elect
  <2>2. CASE r = s
    <3>1. PodPredicate(NoPod, podCache[r][p]) /\ podCache[r][p] # NoPod
      BY <2>1 DEF PodPredicate, Injected, shouldAttemptReconcilation
    <3>2. p \in queue'[r]
      BY <1>6, <1>r, <2>2, <3>1 DEF Elect, TypeOK
    <3> QED
      BY <3>2 DEF Pending
  <2>3. CASE r # s
    <3>1. r \in leading /\ queue'[r] = queue[r]
      BY <1>6, <1>r, <2>3 DEF Elect, TypeOK
    <3> QED
      BY <1>q, <2>1, <3>1 DEF api
  <2> QED
    BY <2>2, <2>3
<1>7. ASSUME NEW s \in Replicas, Crash(s)
      PROVE  Kept
  <2>1. /\ UNCHANGED api /\ r \in leading /\ r # s
        /\ podCache'[r] = podCache[r] /\ queue'[r] = queue[r]
        /\ delayed'[r] = delayed[r] /\ work'[r] = work[r]
    BY <1>7, <1>r DEF Crash, TypeOK
  <2> QED
    BY <1>q, <2>1 DEF api
<1>8. ASSUME NEW s \in Replicas, NEW q \in Pods, DeliverPod(s, q)
      PROVE  Kept
  <2>1. UNCHANGED <<api, leading, delayed, work>>
    BY <1>8 DEF DeliverPod
  <2>2. CASE r = s /\ p = q
    <3>1. PICK new \in Observable(podCache[r][p], pods[p]) :
            /\ podCache' = [podCache EXCEPT ![r][p] = new]
            /\ queue' = IF r \in leading /\ PodPredicate(podCache[r][p], new)
                        THEN [queue EXCEPT ![r] = @ \cup {p}] ELSE queue
      BY <1>8, <2>2 DEF DeliverPod
    <3>2. podCache'[r][p] = new /\ new # podCache[r][p]
      BY <3>1, <1>r DEF TypeOK, Observable
    <3>3. Genuine(podCache[r][p]) /\ Genuine(new) /\ podCache[r][p] \in Pod /\ new \in Pod
      BY <1>r, <3>2 DEF NamesAreFresh, TypeOK
    <3>4. PodPredicate(podCache[r][p], new)
      BY <3>2, <3>3, PredicatePasses
    <3>5. p \in queue'[r]
      BY <1>r, <2>1, <3>1, <3>4 DEF TypeOK
    <3> QED
      BY <3>5 DEF Pending
  <2>3. CASE ~(r = s /\ p = q)
    <3>1. podCache'[r][p] = podCache[r][p] /\ queue[r] \subseteq queue'[r]
      BY <1>8, <1>r, <2>3 DEF DeliverPod, TypeOK
    <3> QED
      BY <1>q, <2>1, <3>1 DEF api
  <2> QED
    BY <2>2, <2>3
<1>9. ASSUME NEW s \in Replicas, NEW q \in Pods, TimerFires(s, q)
      PROVE  Kept
  <2>1. /\ UNCHANGED <<api, leading, podCache, work>>
        /\ p \in queue[r] \cup delayed[r] => p \in queue'[r] \cup delayed'[r]
    BY <1>9, <1>r DEF TimerFires, TypeOK
  <2> QED
    BY <1>q, <2>1 DEF api
<1>10. ASSUME NEW s \in Replicas, NEW q \in Pods, GetPod(s, q)
       PROVE  Kept
  <2>1. UNCHANGED <<api, leading, podCache, delayed>>
    BY <1>10 DEF GetPod
  <2>2. CASE r = s /\ p = q
    <3>1. work'[r][p] = [pc |-> "secret", obj |-> podCache[r][p]]
      BY <1>10, <1>r, <2>1, <2>2 DEF GetPod, Injected, TypeOK
    <3> QED
      BY <2>1, <3>1 DEF Pending
  <2>3. CASE ~(r = s /\ p = q)
    <3>1. work'[r][p] = work[r][p] /\ (p \in queue[r] => p \in queue'[r])
      BY <1>10, <1>r, <2>3 DEF GetPod, Dequeue, TypeOK
    <3> QED
      BY <1>q, <2>1, <3>1 DEF api
  <2> QED
    BY <2>2, <2>3
<1>11. ASSUME NEW s \in Replicas, NEW q \in Pods, GetPodFails(s, q)
       PROVE  Kept
  <2>1. /\ UNCHANGED <<api, leading, podCache, work>>
        /\ p \in queue[r] \cup delayed[r] => p \in queue'[r] \cup delayed'[r]
    BY <1>11, <1>r DEF GetPodFails, Dequeue, Requeue, TypeOK
  <2> QED
    BY <1>q, <2>1 DEF api
<1>12. ASSUME NEW s \in Replicas, NEW q \in Pods,
              GetSecret(s, q) \/ GetSecretFails(s, q) \/ Build(s, q) \/ Create(s, q)
              \/ \E applied \in BOOLEAN : CreateFails(s, q, applied)
       PROVE  Kept
  <2>1. UNCHANGED <<pods, nextUid, leading, podCache, queue>>
    BY <1>12 DEF GetSecret, GetSecretFails, Build, Create, CreateFails, api
  <2>2. delayed[r] \subseteq delayed'[r]
    <3>1. Requeue(s, q) \/ UNCHANGED delayed
      BY <1>12 DEF GetSecret, GetSecretFails, Build, Create, CreateFails
    <3>2. delayed'[r] \in {delayed[r], delayed[r] \cup {q}}
      BY <1>r, <3>1 DEF Requeue, TypeOK
    <3> QED
      BY <3>2
  <2>3. secrets[u] # NoSecret => secrets'[u] # NoSecret
    BY <1>12, <1>u DEF GetSecret, GetSecretFails, Build, Create, CreateFails, api,
                       TypeOK, NewSecret, NoSecret
  <2>4. CASE ~(r = s /\ p = q)
    <3>1. Finish(s, q) \/ Goto(s, q, "build") \/ Goto(s, q, "create")
      BY <1>12 DEF GetSecret, GetSecretFails, Build, Create, CreateFails
    <3>2. work'[r][p] = work[r][p]
      BY <1>r, <2>4, <3>1 DEF Finish, Goto, TypeOK
    <3> QED
      BY <1>q, <2>1, <2>2, <2>3, <3>2
  <2>5. CASE r = s /\ p = q
    <3> DEFINE obj == work[r][p].obj
    <3>1. CASE Requeue(r, p)
      BY <1>r, <3>1 DEF Requeue, Pending, TypeOK
    <3>2. ASSUME NEW pc \in {"build", "create"}, Goto(r, p, pc)
          PROVE  Kept
      <4>1. work[r][p] \in Work
        BY <1>r DEF TypeOK
      <4>2. work'[r][p] = [work[r][p] EXCEPT !.pc = pc]
        BY <1>r, <3>2 DEF Goto, TypeOK
      <4>3. work'[r][p].obj = obj /\ work'[r][p].pc # "idle"
        BY <4>1, <4>2 DEF Work
      <4> QED
        BY <1>q, <2>1, <2>2, <2>3, <4>3
    (* The silent exits: the pod the worker holds is the one at stake, or   *)
    (* the key is pending for another reason.                              *)
    <3>3. CASE secrets'[obj.uid] # NoSecret \/ u # obj.uid
      BY <1>k, <2>1, <2>2, <2>3, <3>3 DEF Pending
    <3>4. ASSUME work[r][p].pc # "idle" PROVE obj.labels.secretName = obj.uid /\ obj.uid \in Uids
      BY <1>r, <3>4 DEF Incarnations, Issued, NamesAreFresh, Genuine, Injected
    <3>5. CASE GetSecret(r, p)
      <4>1. work[r][p].pc # "idle" /\ secrets' = secrets
        BY <3>5 DEF GetSecret, api
      <4>2. ASSUME SecretNamed(secretCache[r], obj.labels.secretName) # NoSecret, u = obj.uid
            PROVE  secrets'[obj.uid] # NoSecret
        BY <1>k, <1>r, <2>1, <3>4, <4>1, <4>2 DEF SecretNamed, NoName, NamesAreFresh
      <4> QED
        BY <3>1, <3>2, <3>3, <3>5, <4>2 DEF GetSecret
    <3>6. CASE Create(r, p)
      <4>1. Requeue(r, p) \/ secrets'[obj.uid] # NoSecret
        BY <3>4, <3>6 DEF Create, TypeOK, NewSecret, NoSecret
      <4> QED
        BY <3>1, <3>3, <4>1
    <3> QED
      BY <1>12, <2>5, <3>1, <3>2, <3>5, <3>6 DEF GetSecretFails, Build, CreateFails
  <2> QED
    BY <2>4, <2>5
<1>13. CASE UNCHANGED vars
  BY <1>q, <1>13 DEF vars, api, process
<1> QED
  BY <1>1, <1>2, <1>3, <1>4, <1>5, <1>6, <1>7, <1>8, <1>9, <1>10, <1>11, <1>12, <1>13
     DEF Next, Users, Worker, Faulty

(* While the webhook alone writes the labels, Reconcile forgets no pod: an *)
(* injected pod a running controller has seen is queued, in work, waiting  *)
(* for a retry, or owns its secret, with any number of replicas, workers,  *)
(* failed calls and crashes.                                               *)
THEOREM NothingForgotten ==
  ASSUME Interference \subseteq {"classes"}
  PROVE  Spec => []NoPodForgotten
<1> DEFINE IInv == TypeOK /\ Incarnations /\ NamesAreFresh /\ NoPodForgotten
<1>1. Init => IInv
  <2>1. Init => NoPodForgotten
    BY DEF Init, NoPodForgotten
  <2> QED
    BY <2>1, InitTypeOK, InitIncarnations, InitFresh
<1>2. IInv /\ [Next]_vars => IInv'
  <2> SUFFICES ASSUME IInv, [Next]_vars PROVE IInv'
    OBVIOUS
  <2>1. TypeOK' /\ Incarnations'
    BY TypeStep, IncarnationsStep
  <2>2. NamesAreFresh'
    BY <2>1, FreshStep
  <2>3. NoPodForgotten'
    BY <2>1, <2>2, ForgottenStep
  <2> QED
    BY <2>1, <2>2, <2>3
<1> QED
  BY <1>1, <1>2, PTL DEF Spec

=============================================================================
