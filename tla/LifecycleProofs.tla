--------------------------- MODULE LifecycleProofs ---------------------------
(***************************************************************************)
(* What becomes of the secrets: they are only created, they are whole, a   *)
(* living pod keeps its own, no request ends in silence, and in all the    *)
(* controller implements SecretLifecycle.                                  *)
(***************************************************************************)
EXTENDS PodControllerProofs

(* The ways a secret comes and goes.                                       *)
Made(n, r, p) ==
  /\ work[r][p].pc = "create" /\ n = work[r][p].obj.labels.secretName
  /\ secrets[n] = NoSecret
  /\ secrets' = [secrets EXCEPT ![n] = NewSecret(p, work[r][p].obj)]

Seized(n) ==
  /\ "foreign" \in Interference /\ secrets[n] = NoSecret
  /\ secrets' = [secrets EXCEPT ![n] = Foreign]

Deleted(n) ==
  /\ "delete" \in Interference
  /\ secrets' = [secrets EXCEPT ![n] = NoSecret]

Collected(n) ==
  /\ secrets[n].owners # {} /\ \A o \in secrets[n].owners : ~Alive(o.uid)
  /\ secrets' = [secrets EXCEPT ![n] = NoSecret]

SecretMoves(n) ==
  \/ Seized(n) \/ Deleted(n) \/ Collected(n)
  \/ \E r \in Replicas, p \in Pods : Made(n, r, p)

(* There is no other way: updates of pods, informers, workers and crashes  *)
(* leave the secrets alone, and pods stay while a secret moves.            *)
LEMMA HowSecretsMove ==
  ASSUME TypeOK, [Next]_vars
  PROVE  \/ UNCHANGED secrets
         \/ UNCHANGED <<pods, nextUid>> /\ \E n \in Uids : SecretMoves(n)
<1> DEFINE Goal == \/ UNCHANGED secrets
                   \/ UNCHANGED <<pods, nextUid>> /\ \E n \in Uids : SecretMoves(n)
<1>1. ASSUME NEW p \in Pods, NEW m \in Manifests, NEW reached \in BOOLEAN,
             CreatePod(p, m, reached)
      PROVE  UNCHANGED secrets
  BY <1>1 DEF CreatePod
<1>2. ASSUME NEW p \in Pods, NEW a \in Annotations, UpdatePod(p, a)
      PROVE  UNCHANGED secrets
  BY <1>2 DEF UpdatePod
<1>3. ASSUME NEW p \in Pods, DeletePod(p)
      PROVE  UNCHANGED secrets
  BY <1>3 DEF DeletePod
<1>4. ASSUME NEW n \in Uids, CreateForeignSecret(n) \/ DeleteSecret(n) \/ CollectGarbage(n)
      PROVE  Goal
  BY <1>4 DEF CreateForeignSecret, DeleteSecret, CollectGarbage, SecretMoves,
              Seized, Deleted, Collected
<1>5. ASSUME NEW r \in Replicas, NEW n \in Uids, DeliverSecret(r, n)
      PROVE  UNCHANGED secrets
  BY <1>5 DEF DeliverSecret, api
<1>6. ASSUME NEW r \in Replicas, Elect(r) \/ Crash(r)
      PROVE  UNCHANGED secrets
  BY <1>6 DEF Elect, Crash, api
<1>7. ASSUME NEW r \in Replicas, NEW p \in Pods, DeliverPod(r, p) \/ TimerFires(r, p)
      PROVE  UNCHANGED secrets
  BY <1>7 DEF DeliverPod, TimerFires, api
<1>8. ASSUME NEW r \in Replicas, NEW p \in Pods, GetPod(r, p) \/ GetPodFails(r, p)
      PROVE  UNCHANGED secrets
  BY <1>8 DEF GetPod, GetPodFails, api
<1>9. ASSUME NEW r \in Replicas, NEW p \in Pods,
             GetSecret(r, p) \/ GetSecretFails(r, p) \/ Build(r, p)
      PROVE  UNCHANGED secrets
  BY <1>9 DEF GetSecret, GetSecretFails, Build, api
<1>10. ASSUME NEW r \in Replicas, NEW p \in Pods,
              Create(r, p) \/ \E applied \in BOOLEAN : CreateFails(r, p, applied)
       PROVE  Goal
  <2>1. Valid(p, work[r][p].obj.labels.secretName)
          => work[r][p].obj.labels.secretName \in Uids
    BY DEF Valid, NoName, TypeOK, Work, Pod, Labels, Uids
  <2>2. \/ UNCHANGED secrets
        \/ /\ Valid(p, work[r][p].obj.labels.secretName)
           /\ Made(work[r][p].obj.labels.secretName, r, p)
    BY <1>10 DEF Create, CreateFails, Made
  <2>3. UNCHANGED <<pods, nextUid>>
    BY <1>10 DEF Create, CreateFails
  <2> QED
    BY <2>1, <2>2, <2>3 DEF SecretMoves
<1>11. CASE UNCHANGED vars
  BY <1>11 DEF vars, api
<1> QED
  BY <1>1, <1>2, <1>3, <1>4, <1>5, <1>6, <1>7, <1>8, <1>9, <1>10, <1>11
     DEF Next, Users, Worker, Faulty

(* The operator only creates, whatever else touches the secrets and        *)
(* however stale the caches are: the API server refuses a name in use.     *)
THEOREM OperatorOnlyCreates == Spec => CreateOnly
<1>1. ASSUME TypeOK, [Next]_vars, NEW n \in Uids, secrets[n] # NoSecret
      PROVE  secrets'[n] \in {secrets[n], NoSecret}
  BY <1>1, HowSecretsMove DEF SecretMoves, Made, Seized, Deleted, Collected, TypeOK
<1>2. TypeOK /\ [Next]_vars =>
        [\A n \in Uids : secrets[n] # NoSecret => secrets'[n] \in {secrets[n], NoSecret}]_vars
  BY <1>1
<1> QED
  BY <1>2, TypeCorrect, PTL DEF Spec, CreateOnly

(* As long as nobody deletes secrets by hand, a living pod keeps the       *)
(* secret it owns.                                                         *)
THEOREM LivingPodKeepsSecret ==
  ASSUME "delete" \notin Interference
  PROVE  Spec => ServedPodKeepsSecret
<1>1. ASSUME TypeOK, [Next]_vars, NEW n \in Uids, NEW p \in Pods,
             OwnedBy(secrets[n], pods[p].uid), pods'[p].uid = pods[p].uid
      PROVE  OwnedBy(secrets'[n], pods[p].uid)
  <2>1. secrets[n].owners # {} /\ secrets[n] # NoSecret
    BY <1>1 DEF OwnedBy, NoSecret
  <2>2. ~ Collected(n)
    BY <1>1 DEF OwnedBy, Collected, Alive
  <2>3. secrets'[n] = secrets[n]
    BY <1>1, <2>1, <2>2, HowSecretsMove
       DEF SecretMoves, Made, Seized, Deleted, Collected, TypeOK
  <2> QED
    BY <1>1, <2>3
<1>2. TypeOK /\ [Next]_vars =>
        [\A n \in Uids, p \in Pods :
           OwnedBy(secrets[n], pods[p].uid) /\ pods'[p].uid = pods[p].uid
             => OwnedBy(secrets'[n], pods[p].uid)]_vars
  BY <1>1
<1> QED
  BY <1>2, TypeCorrect, PTL DEF Spec, ServedPodKeepsSecret

-----------------------------------------------------------------------------
(* A worker that goes on keeps the pod it read.                            *)
LEMMA GotoMoves ==
  ASSUME work \in [Replicas -> [Pods -> Work]], NEW r \in Replicas, NEW p \in Pods,
         NEW pc \in {"build", "create"}, Goto(r, p, pc)
  PROVE  work'[r][p].pc = pc /\ work'[r][p].obj = work[r][p].obj
<1> DEFINE w == [work[r][p] EXCEPT !.pc = pc]
<1>1. w.pc = pc /\ w.obj = work[r][p].obj
  BY DEF Work
<1>2. work' = [work EXCEPT ![r][p] = w]
  BY DEF Goto
<1> HIDE DEF w
<1>3. work'[r][p] = w
  BY <1>2
<1> QED
  BY <1>1, <1>3

(* Every worker keeps the promise that it only creates what was built.     *)
LEMMA WholeStep ==
  ASSUME TypeOK, SecretsAreWhole, [Next]_vars
  PROVE  SecretsAreWhole'
<1> DEFINE Whole(r, p) ==
      work[r][p].pc = "create" => r \in loaded /\ work[r][p].obj.ann \in Buildable
<1> USE DEF TypeOK
<1>1. ASSUME NEW n \in Uids PROVE secrets'[n].by = "operator" => secrets'[n].conf \in Buildable
  <2>1. CASE UNCHANGED secrets
    BY <2>1 DEF SecretsAreWhole
  <2>2. ASSUME NEW k \in Uids, NEW r \in Replicas, NEW p \in Pods, Made(k, r, p)
        PROVE  secrets'[n].by = "operator" => secrets'[n].conf \in Buildable
    BY <2>2 DEF Made, SecretsAreWhole, NewSecret
  <2>3. ASSUME NEW k \in Uids, Seized(k) \/ Deleted(k) \/ Collected(k)
        PROVE  secrets'[n].by = "operator" => secrets'[n].conf \in Buildable
    <3>1. secrets'[n] \in {secrets[n], Foreign, NoSecret}
      BY <2>3 DEF Seized, Deleted, Collected
    <3> QED
      BY <3>1 DEF SecretsAreWhole, Foreign, NoSecret
  <2> QED
    BY <2>1, <2>2, <2>3, HowSecretsMove DEF SecretMoves
<1>2. ASSUME NEW q \in Replicas, NEW o \in Pods PROVE Whole(q, o)'
  <2>0. Whole(q, o)
    BY DEF SecretsAreWhole
  <2>1. CASE Users \/ (\E n \in Uids : CollectGarbage(n)) \/ UNCHANGED vars
    BY <2>0, <2>1 DEF Users, CreatePod, UpdatePod, DeletePod, CreateForeignSecret,
                      DeleteSecret, CollectGarbage, vars, process
  <2>2. ASSUME NEW r \in Replicas, Crash(r)
        PROVE  Whole(q, o)'
    BY <2>0, <2>2 DEF Crash, Idle, ClassLoads
  <2>3. ASSUME NEW r \in Replicas, Elect(r) \/ \E n \in Uids : DeliverSecret(r, n)
        PROVE  Whole(q, o)'
    BY <2>0, <2>3 DEF Elect, DeliverSecret
  <2>4. ASSUME NEW r \in Replicas, NEW p \in Pods,
               DeliverPod(r, p) \/ TimerFires(r, p) \/ GetPodFails(r, p)
        PROVE  Whole(q, o)'
    BY <2>0, <2>4 DEF DeliverPod, TimerFires, GetPodFails
  <2>5. ASSUME NEW r \in Replicas, NEW p \in Pods, UNCHANGED loaded,
               \/ UNCHANGED work
               \/ Finish(r, p)
               \/ \E x : work' = [work EXCEPT ![r][p] = [pc |-> "secret", obj |-> x]]
               \/ Goto(r, p, "build")
               \/ Goto(r, p, "create") /\ r \in loaded /\ work[r][p].obj.ann \in Buildable
        PROVE  Whole(q, o)'
    <3>1. CASE q # r \/ o # p
      BY <2>0, <2>5, <3>1 DEF Finish, Goto
    <3>2. CASE q = r /\ o = p
      <4>3. CASE Goto(r, p, "build")
        BY <3>2, <4>3, GotoMoves
      <4>4. CASE Goto(r, p, "create") /\ r \in loaded /\ work[r][p].obj.ann \in Buildable
        BY <2>5, <3>2, <4>4, GotoMoves
      <4> QED
        BY <2>0, <2>5, <3>2, <4>3, <4>4 DEF Finish, Idle
    <3> QED
      BY <3>1, <3>2
  <2>6. ASSUME NEW r \in Replicas, NEW p \in Pods,
               GetPod(r, p) \/ Worker(r, p) \/ Faulty(r, p)
        PROVE  Whole(q, o)'
    <3>1. CASE GetPod(r, p)
      BY <2>5, <3>1 DEF GetPod
    <3>2. CASE GetSecret(r, p)
      BY <2>5, <3>2 DEF GetSecret
    <3>3. CASE Build(r, p)
      BY <2>5, <3>3 DEF Build
    <3>4. CASE Create(r, p) \/ GetSecretFails(r, p)
               \/ \E applied \in BOOLEAN : CreateFails(r, p, applied)
      BY <2>5, <3>4 DEF Create, GetSecretFails, CreateFails
    <3> QED
      BY <2>4, <2>6, <3>1, <3>2, <3>3, <3>4 DEF Worker, Faulty
  <2> QED
    BY <2>1, <2>2, <2>3, <2>4, <2>6 DEF Next
<1> QED
  BY <1>1, <1>2 DEF SecretsAreWhole

(* A secret of the operator was built, by a process that had the class     *)
(* data, whatever fails, is retried, panics or is edited on the way.       *)
THEOREM SecretsStayWhole == Spec => []SecretsAreWhole
<1>1. Init => SecretsAreWhole
  BY DEF Init, SecretsAreWhole, NoSecret, Idle
<1> QED
  BY <1>1, WholeStep, TypeCorrect, PTL DEF Spec

(* Every copy of a pod, in the API server, a cache or a worker, agrees     *)
(* with the living pod of its UID, also when users copy labels and delete  *)
(* secrets.                                                                *)
THEOREM CopiesAgree == Spec => []Incarnations
BY IncarnationsHold, PTL

(* While the webhook alone writes the labels, a secret name belongs to one *)
(* incarnation for good: what a worker read is stale and still right.      *)
THEOREM NamesStayFresh ==
  ASSUME Interference \subseteq {"classes"}
  PROVE  Spec => [](TypeOK /\ Incarnations /\ NamesAreFresh)
<1>1. Init => TypeOK /\ Incarnations /\ NamesAreFresh
  BY InitTypeOK, InitIncarnations, InitFresh
<1>2. TypeOK /\ Incarnations /\ NamesAreFresh /\ [Next]_vars
        => (TypeOK /\ Incarnations /\ NamesAreFresh)'
  BY TypeStep, IncarnationsStep, FreshStep
<1> QED
  BY <1>1, <1>2, PTL DEF Spec

-----------------------------------------------------------------------------
(* A worker that is done with a living pod leaves it served or tries again.*)
(* What it saw in its cache may be stale; for a living pod it is right.    *)
LEMMA ExitStep ==
  ASSUME Interference \subseteq {"classes"},
         TypeOK, Incarnations, NamesAreFresh, NamesAreFresh', [Next]_vars,
         NEW q \in Replicas, NEW o \in Pods,
         work[q][o].pc # "idle", work'[q][o].pc = "idle", q \in leading',
         pods'[o].uid = work[q][o].obj.uid
  PROVE  \/ o \in delayed'[q]
         \/ OwnedBy(SecretNamed(secrets', work[q][o].obj.labels.secretName),
                    work[q][o].obj.uid)
<1> DEFINE obj == work[q][o].obj
           Goal == o \in delayed'[q] \/ OwnedBy(SecretNamed(secrets', obj.labels.secretName), obj.uid)
<1> USE DEF TypeOK
<1>1. obj.uid \in Uids /\ obj.labels.secretName = obj.uid
  BY DEF Incarnations, Issued, NamesAreFresh, Genuine, Injected
<1>2. ASSUME secrets'[obj.uid] # NoSecret PROVE Goal
  <2>1. OwnedBy(secrets'[obj.uid], obj.uid)
    BY <1>1, <1>2 DEF NamesAreFresh, OwnedBy
  <2>2. SecretNamed(secrets', obj.labels.secretName) = secrets'[obj.uid]
    BY <1>1 DEF SecretNamed, NoName, Uids
  <2> QED
    BY <2>1, <2>2
<1>3. Requeue(q, o) => Goal
  BY DEF Requeue
<1>4. CASE work' = work
  BY <1>4
<1>5. CASE GetSecret(q, o)
  <2>1. ~ Goto(q, o, "build")
    BY GotoMoves
  <2>2. secrets' = secrets /\ pods' = pods
    BY <1>5 DEF GetSecret, api
  <2>3. ASSUME SecretNamed(secretCache[q], obj.labels.secretName) # NoSecret
        PROVE  secrets'[obj.uid] # NoSecret
    BY <1>1, <2>2, <2>3 DEF SecretNamed, NoName, NamesAreFresh, Alive
  <2> QED
    BY <1>2, <1>3, <1>5, <2>1, <2>3 DEF GetSecret
<1>6. CASE GetSecretFails(q, o) \/ \E applied \in BOOLEAN : CreateFails(q, o, applied)
  BY <1>3, <1>6 DEF GetSecretFails, CreateFails
<1>7. CASE Build(q, o)
  <2>1. ~ Goto(q, o, "create")
    BY GotoMoves
  <2> QED
    BY <1>3, <1>7, <2>1 DEF Build
<1>8. CASE Create(q, o)
  <2>1. Requeue(q, o) \/ secrets'[obj.uid] # NoSecret
    BY <1>1, <1>8 DEF Create, NewSecret, NoSecret
  <2> QED
    BY <1>2, <1>3, <2>1
<1>9. ASSUME NEW r \in Replicas, NEW p \in Pods, r # q \/ p # o,
             \/ GetSecret(r, p) \/ GetSecretFails(r, p) \/ Build(r, p) \/ Create(r, p)
             \/ \E applied \in BOOLEAN : CreateFails(r, p, applied)
      PROVE  work'[q][o] = work[q][o]
  <2>1. Finish(r, p) \/ Goto(r, p, "build") \/ Goto(r, p, "create")
    BY <1>9 DEF GetSecret, GetSecretFails, Build, Create, CreateFails
  <2>2. ASSUME NEW w, work' = [work EXCEPT ![r][p] = w] PROVE work'[q][o] = work[q][o]
    <3>1. CASE r # q
      BY <2>2, <3>1
    <3>2. CASE r = q
      BY <1>9, <2>2, <3>2
    <3> QED
      BY <3>1, <3>2
  <2>3. \E w : work' = [work EXCEPT ![r][p] = w]
    BY <2>1 DEF Finish, Goto
  <2> QED
    BY <2>2, <2>3
<1>10. ASSUME NEW r \in Replicas, NEW p \in Pods, GetPod(r, p)
       PROVE  work'[q][o] = work[q][o]
  <2>1. r # q \/ p # o
    BY <1>10 DEF GetPod, Dequeue, Idle
  <2> QED
    BY <1>10, <2>1 DEF GetPod
<1>11. ASSUME NEW r \in Replicas, Crash(r)
       PROVE  work'[q][o] = work[q][o]
  BY <1>11 DEF Crash
<1>12. CASE Users \/ (\E n \in Uids : CollectGarbage(n)) \/ UNCHANGED vars
  BY <1>4, <1>12 DEF Users, CreatePod, UpdatePod, DeletePod, CreateForeignSecret,
                     DeleteSecret, CollectGarbage, vars, process
<1>13. ASSUME NEW r \in Replicas,
              \/ Elect(r) \/ \E n \in Uids : DeliverSecret(r, n)
              \/ \E p \in Pods : DeliverPod(r, p) \/ TimerFires(r, p) \/ GetPodFails(r, p)
       PROVE  work' = work
  BY <1>13 DEF Elect, DeliverSecret, DeliverPod, TimerFires, GetPodFails
<1> QED
  BY <1>4, <1>5, <1>6, <1>7, <1>8, <1>9, <1>10, <1>11, <1>12, <1>13 DEF Next, Worker, Faulty

(* No request ends in silence for a pod that lives and is not served.      *)
THEOREM NoRequestEndsInSilence ==
  ASSUME Interference \subseteq {"classes"}
  PROVE  Spec => NoSilentExit
<1> DEFINE IInv == TypeOK /\ Incarnations /\ NamesAreFresh
<1>1. IInv /\ IInv' /\ [Next]_vars =>
        [\A r \in Replicas, p \in Pods :
           LET obj == work[r][p].obj
           IN  /\ work[r][p].pc # "idle" /\ work'[r][p].pc = "idle"
               /\ r \in leading' /\ pods'[p].uid = obj.uid
               => \/ p \in delayed'[r]
                  \/ OwnedBy(SecretNamed(secrets', obj.labels.secretName), obj.uid)]_vars
  BY ExitStep
<1> HIDE DEF IInv
<1>2. Spec => []IInv
  BY NamesStayFresh DEF IInv
<1> QED
  BY <1>1, <1>2, PTL DEF Spec, NoSilentExit

-----------------------------------------------------------------------------
(***************************************************************************)
(* The refinement.  The abstract variables are read off the API server.    *)
(***************************************************************************)
AliveUids == {u \in Uids : Alive(u)}
WantedUids == {u \in Uids : \E p \in Pods : pods[p].uid = u /\ Injected(pods[p])}
Built == [n \in Uids |-> IF secrets[n] = NoSecret THEN {} ELSE {secrets[n].conf}]

(* Only users move the pods, and secrets stay while a pod moves.           *)
LEMMA HowPodsMove ==
  ASSUME [Next]_vars
  PROVE  \/ UNCHANGED <<pods, nextUid>>
         \/ /\ UNCHANGED secrets
            /\ \E p \in Pods :
                 \/ \E m \in Manifests, reached \in BOOLEAN : CreatePod(p, m, reached)
                 \/ \E a \in Annotations : UpdatePod(p, a)
                 \/ DeletePod(p)
<1>1. CASE Users
  BY <1>1 DEF Users, CreatePod, UpdatePod, DeletePod, CreateForeignSecret, DeleteSecret
<1>2. CASE (\E n \in Uids : CollectGarbage(n)) \/ UNCHANGED vars
  BY <1>2 DEF CollectGarbage, vars, api
<1>3. ASSUME NEW r \in Replicas,
             Elect(r) \/ Crash(r) \/ \E n \in Uids : DeliverSecret(r, n)
      PROVE  UNCHANGED <<pods, nextUid>>
  BY <1>3 DEF Elect, Crash, DeliverSecret, api
<1>4. ASSUME NEW r \in Replicas, NEW p \in Pods,
             DeliverPod(r, p) \/ TimerFires(r, p) \/ GetPod(r, p) \/ GetPodFails(r, p)
      PROVE  UNCHANGED <<pods, nextUid>>
  BY <1>4 DEF DeliverPod, TimerFires, GetPod, GetPodFails, api
<1>5. ASSUME NEW r \in Replicas, NEW p \in Pods,
             \/ GetSecret(r, p) \/ GetSecretFails(r, p) \/ Build(r, p) \/ Create(r, p)
             \/ \E applied \in BOOLEAN : CreateFails(r, p, applied)
      PROVE  UNCHANGED <<pods, nextUid>>
  BY <1>5 DEF GetSecret, GetSecretFails, Build, Create, CreateFails, api
<1> QED
  BY <1>1, <1>2, <1>3, <1>4, <1>5 DEF Next, Worker, Faulty

(* A pod that comes, changes or goes is an admission, nothing or a death.  *)
LEMMA PodRefines ==
  ASSUME TypeOK, Incarnations, NEW p \in Pods, UNCHANGED secrets,
         \/ \E m \in Manifests, reached \in BOOLEAN : CreatePod(p, m, reached)
         \/ \E a \in Annotations : UpdatePod(p, a)
         \/ DeletePod(p)
  PROVE  [Lifecycle!Next]_(Lifecycle!vars)
<1> USE DEF TypeOK
<1>0. NoPod.uid \notin Uids /\ ~Injected(NoPod)
  BY DEF NoPod, Injected, Uids
<1>1. Built' = Built
  BY DEF Built
<1>2. ASSUME NEW m \in Manifests, NEW reached \in BOOLEAN, CreatePod(p, m, reached)
      PROVE  Lifecycle!Admit
  <2>1. /\ pods[p] = NoPod /\ nextUid \in Uids /\ nextUid' = nextUid + 1
        /\ pods'[p].uid = nextUid
        /\ \A q \in Pods \ {p} : pods'[q] = pods[q]
    BY <1>2 DEF CreatePod
  <2>2. pods[p].uid \notin Uids
    BY <1>0, <2>1
  <2>3. AliveUids' = AliveUids \cup {nextUid}
    <3>1. \A u \in Uids : Alive(u)' <=> Alive(u) \/ u = nextUid
      BY <2>1, <2>2 DEF Alive
    <3> QED
      BY <2>1, <3>1 DEF AliveUids
  <2>4. WantedUids' \in {WantedUids, WantedUids \cup {nextUid}}
    <3>1. \A u \in Uids : u \in WantedUids' <=>
            u \in WantedUids \/ (u = nextUid /\ Injected(pods'[p]))
      BY <2>1, <2>2 DEF WantedUids
    <3>2. WantedUids \subseteq Uids /\ WantedUids' \subseteq Uids
      BY DEF WantedUids
    <3> QED
      BY <2>1, <3>1, <3>2
  <2> QED
    BY <1>1, <2>1, <2>3, <2>4 DEF Lifecycle!Admit, AliveUids, WantedUids, Built
<1>3. ASSUME NEW a \in Annotations, UpdatePod(p, a)
      PROVE  UNCHANGED Lifecycle!vars
  <2>1. /\ pods[p] # NoPod /\ pods' = [pods EXCEPT ![p].ann = a]
        /\ UNCHANGED nextUid
    BY <1>3 DEF UpdatePod
  <2>2. \A q \in Pods : pods'[q].uid = pods[q].uid /\ pods'[q].labels = pods[q].labels
    BY <2>1 DEF Pod
  <2>3. \A q \in Pods : pods'[q] = NoPod <=> pods[q] = NoPod
    <3>1. pods[p].uid \in Uids
      BY <2>1 DEF Incarnations, Issued
    <3>2. pods'[p] # NoPod
      BY <1>0, <2>2, <3>1
    <3> QED
      BY <2>1, <3>2
  <2>4. \A q \in Pods : Injected(pods'[q]) <=> Injected(pods[q])
    BY <2>2, <2>3 DEF Injected, shouldAttemptReconcilation
  <2>5. AliveUids' = AliveUids
    BY <2>2 DEF AliveUids, Alive
  <2>6. WantedUids' = WantedUids
    BY <2>2, <2>4 DEF WantedUids
  <2> QED
    BY <1>1, <2>1, <2>5, <2>6 DEF Lifecycle!vars, AliveUids, WantedUids, Built
<1>4. ASSUME DeletePod(p)
      PROVE  Lifecycle!Next
  <2>0. PICK u \in Uids : pods[p].uid = u
    BY <1>4 DEF DeletePod, Incarnations, Issued
  <2>1. /\ pods'[p] = NoPod /\ \A q \in Pods \ {p} : pods'[q] = pods[q]
        /\ UNCHANGED nextUid
    BY <1>4 DEF DeletePod
  <2>2. \A q \in Pods : pods[q].uid = u => q = p
    BY <1>4, <2>0 DEF DeletePod, Incarnations, Issued
  <2>4. u \in AliveUids /\ AliveUids' = AliveUids \ {u}
    <3>1. \A v \in Uids : Alive(v)' <=> Alive(v) /\ v # u
      BY <1>0, <2>0, <2>1, <2>2 DEF Alive
    <3> QED
      BY <2>0, <3>1 DEF AliveUids, Alive
  <2>5. WantedUids' = WantedUids \ {u}
    <3>1. \A v \in Uids : v \in WantedUids' <=> v \in WantedUids /\ v # u
      BY <1>0, <2>0, <2>1, <2>2 DEF WantedUids
    <3>2. WantedUids \subseteq Uids /\ WantedUids' \subseteq Uids
      BY DEF WantedUids
    <3> QED
      BY <3>1, <3>2
  <2>6. Lifecycle!Die(u)
    BY <1>1, <2>1, <2>4, <2>5 DEF Lifecycle!Die, AliveUids, WantedUids, Built
  <2> QED
    BY <2>6 DEF Lifecycle!Next
<1> QED
  BY <1>2, <1>3, <1>4 DEF Lifecycle!Next

(* A secret that comes was wanted or is late, one that goes is collected.  *)
LEMMA SecretRefines ==
  ASSUME Interference \subseteq {"classes"},
         TypeOK, Incarnations, NamesAreFresh, SecretsAreWhole,
         NEW n \in Uids, SecretMoves(n), UNCHANGED <<pods, nextUid>>
  PROVE  Lifecycle!Next
<1> USE DEF TypeOK
<1>1. AliveUids' = AliveUids /\ WantedUids' = WantedUids
  BY DEF AliveUids, WantedUids, Alive
<1>2. ASSUME NEW r \in Replicas, NEW p \in Pods, Made(n, r, p)
      PROVE  Lifecycle!Make(n)
  <2> DEFINE obj == work[r][p].obj
  <2>1. /\ obj.uid = n /\ obj.ann \in Buildable /\ Injected(obj)
        /\ n < nextUid
        /\ \A q \in Pods : pods[q].uid = n => q = p /\ pods[q].labels = obj.labels
    BY <1>2 DEF Made, Incarnations, Issued, NamesAreFresh, Genuine, SecretsAreWhole, Injected
  <2>2. n \in WantedUids \/ n \notin AliveUids
    <3> SUFFICES ASSUME n \in AliveUids PROVE n \in WantedUids
      OBVIOUS
    <3>1. pods[p].uid = n /\ pods[p].labels = obj.labels
      BY <2>1 DEF AliveUids, Alive
    <3>2. Injected(pods[p])
      BY <2>1, <3>1 DEF Injected, shouldAttemptReconcilation, NoPod, Uids
    <3> QED
      BY <3>1, <3>2 DEF WantedUids
  <2>3. Built[n] = {} /\ Built' = [Built EXCEPT ![n] = {obj.ann}]
    BY <1>2 DEF Made, Built, NewSecret, NoSecret
  <2> QED
    BY <1>1, <2>1, <2>2, <2>3 DEF Lifecycle!Make, AliveUids, WantedUids, Built
<1>3. ASSUME Collected(n)
      PROVE  Lifecycle!Collect(n)
  <2>1. secrets[n] # NoSecret
    BY <1>3 DEF Collected, NoSecret
  <2>2. n \notin AliveUids
    BY <1>3, <2>1 DEF Collected, NamesAreFresh, OwnedBy, AliveUids
  <2>3. Built[n] # {} /\ Built' = [Built EXCEPT ![n] = {}]
    BY <1>3, <2>1 DEF Collected, Built
  <2> QED
    BY <1>1, <2>2, <2>3 DEF Lifecycle!Collect, AliveUids, WantedUids, Built
<1> QED
  BY <1>2, <1>3 DEF SecretMoves, Seized, Deleted, Lifecycle!Next

(* While the webhook alone writes the labels, the controller implements    *)
(* SecretLifecycle, with any number of replicas, workers, failures and     *)
(* crashes and however stale its caches are.                               *)
THEOREM ImplementsSecretLifecycle ==
  ASSUME Interference \subseteq {"classes"}
  PROVE  Spec => IsSecretLifecycle
<1> DEFINE IInv == TypeOK /\ Incarnations /\ NamesAreFresh
<1>1. Init => Lifecycle!Init
  <2> SUFFICES ASSUME Init PROVE Lifecycle!Init
    OBVIOUS
  <2>1. AliveUids = {} /\ WantedUids = {}
    BY DEF Init, AliveUids, WantedUids, Alive, NoPod, Uids
  <2> QED
    BY <2>1 DEF Init, Lifecycle!Init, AliveUids, WantedUids
<1>2. IInv /\ SecretsAreWhole /\ [Next]_vars => [Lifecycle!Next]_(Lifecycle!vars)
  <2> SUFFICES ASSUME IInv, SecretsAreWhole, [Next]_vars
               PROVE  [Lifecycle!Next]_(Lifecycle!vars)
    OBVIOUS
  <2>1. CASE UNCHANGED <<pods, nextUid>> /\ UNCHANGED secrets
    BY <2>1 DEF Lifecycle!vars, Alive
  <2> QED
    BY <2>1, HowPodsMove, HowSecretsMove, PodRefines, SecretRefines
<1> HIDE DEF IInv
<1>3. Spec => []IInv
  BY NamesStayFresh DEF IInv
<1> QED
  BY <1>1, <1>2, <1>3, SecretsStayWhole, PTL DEF Spec, IsSecretLifecycle, Lifecycle!Spec

=============================================================================
