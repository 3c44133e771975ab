--------------------------- MODULE ClassDataProofs ---------------------------
(***************************************************************************)
(* Proofs about ClassData, for any directory and any number of updaters.   *)
(***************************************************************************)
EXTENDS ClassData, TLAPS

(* NewDirectoryHandler starts within the invariant.                        *)
LEMMA InitGuarded == Init => Guarded
BY ClassDataAssumption
   DEF Init, Guarded, TypeOK, Validated, AnswersParse, ClassesStay, Threads, Data, Empty, Entry

(* The way out of a call: the data it leaves behind is validated, by       *)
(* validate or because the copy was.                                       *)
LEMMA ReturnGuarded ==
  ASSUME Guarded, NEW t \in Threads, NEW ok \in BOOLEAN, Return(t, ok),
         pc[t] \in {"list", "read"}, ok => validate(data)
  PROVE  Guarded'
<1> USE ClassDataAssumption DEF Threads
<1>1. t # Main => /\ t \in Updaters /\ writer = t /\ handler = "ready"
                  /\ validate(cp[t]) /\ base \subseteq Known(cp[t])
  BY DEF Guarded
<1>2. t = Main => handler = "none" /\ writer = Nobody
  BY DEF Guarded
<1>3. TypeOK'
  <2>1. Empty \in Data
    BY DEF Empty, Data
  <2> QED
    BY <2>1 DEF Guarded, TypeOK, Return, Known
<1>4. Validated' /\ AnswersParse'
  BY <1>1, <1>2 DEF Guarded, Return, Validated, AnswersParse, ClassesStay, Known, validate
<1>9. ClassesStay'
  <2>1. CASE t = Main
    BY <1>2, <2>1 DEF Guarded, Return, ClassesStay, Known, validate
  <2>2. CASE t # Main
    BY <1>1, <2>2 DEF Guarded, Return, ClassesStay, Known
  <2> QED
    BY <2>1, <2>2
<1>5. (handler # "none" <=> pc[Main] = "done")' /\ pc'[Main] \notin {"idle", "lock"}
  BY <1>1, <1>2 DEF Guarded, Return, TypeOK
<1>6. handler' # "ready" => got' = Absent /\ writer' = Nobody
  BY <1>1, <1>2 DEF Guarded, Return
<1>7. ASSUME NEW s \in Updaters
      PROVE  /\ pc'[s] # "idle" => /\ handler' = "ready" /\ validate(cp'[s])
                                     /\ base' \subseteq Known(cp'[s])
             /\ pc'[s] = "idle" => cp'[s] = Empty
             /\ pc'[s] \in {"list", "read"} <=> writer' = s
             /\ pc'[s] # "done"
  <2>1. CASE s = t
    BY <1>1, <2>1 DEF Guarded, Return, TypeOK
  <2>2. CASE s # t
    BY <1>1, <1>2, <2>2 DEF Guarded, Return, TypeOK
  <2> QED
    BY <2>1, <2>2
<1> QED
  BY <1>3, <1>4, <1>5, <1>6, <1>7, <1>9 DEF Guarded, Return, validate

(* Every step keeps the invariant.                                         *)
LEMMA GuardedStep ==
  ASSUME Guarded, [Next]_vars
  PROVE  Guarded'
<1> USE ClassDataAssumption DEF Threads
<1>1. ASSUME NEW f \in Files, NEW e \in Entry, ChangeDir(f, e)
      PROVE  Guarded'
  BY <1>1 DEF ChangeDir, Guarded, TypeOK, Validated, AnswersParse, ClassesStay, Known, validate
<1>2. ASSUME NEW f \in Files, GetDataForClass(f)
      PROVE  Guarded'
  <2>1. got' \in Parsable \cup {Absent}
    BY <1>2 DEF GetDataForClass, Guarded, Validated, validate
  <2> QED
    BY <1>2, <2>1 DEF GetDataForClass, Guarded, TypeOK, Validated, AnswersParse, ClassesStay, Known, validate
<1>3. ASSUME NEW t \in Updaters, Copy(t)
      PROVE  Guarded'
  <2>1. validate(cp'[t])
    BY <1>3 DEF Copy, Guarded, TypeOK, Validated, validate
  <2>2. TypeOK' /\ Validated' /\ AnswersParse' /\ ClassesStay'
    BY <1>3 DEF Copy, Guarded, TypeOK, Validated, AnswersParse, ClassesStay, Known, validate
  <2>3. ASSUME NEW s \in Updaters
        PROVE  /\ pc'[s] # "idle" => /\ handler' = "ready" /\ validate(cp'[s])
                                       /\ base' \subseteq Known(cp'[s])
               /\ pc'[s] = "idle" => cp'[s] = Empty
               /\ pc'[s] \in {"list", "read"} <=> writer' = s
               /\ pc'[s] # "done"
    BY <1>3, <2>1 DEF Copy, Guarded, TypeOK, ClassesStay
  <2> QED
    BY <1>3, <2>2, <2>3 DEF Copy, Guarded, TypeOK, validate
<1>4. ASSUME NEW t \in Updaters, Lock(t)
      PROVE  Guarded'
  <2>1. TypeOK' /\ Validated' /\ AnswersParse' /\ ClassesStay'
    BY <1>4 DEF Lock, Guarded, TypeOK, Validated, AnswersParse, ClassesStay
  <2>2. ASSUME NEW s \in Updaters
        PROVE  /\ pc'[s] # "idle" => /\ handler' = "ready" /\ validate(cp'[s])
                                       /\ base' \subseteq Known(cp'[s])
               /\ pc'[s] = "idle" => cp'[s] = Empty
               /\ pc'[s] \in {"list", "read"} <=> writer' = s
               /\ pc'[s] # "done"
    BY <1>4 DEF Lock, Guarded, TypeOK
  <2> QED
    BY <1>4, <2>1, <2>2 DEF Lock, Guarded, TypeOK, Validated, Known, validate
<1>5. ASSUME NEW t \in Threads, ReadDir(t)
      PROVE  Guarded'
  <2>1. CASE Return(t, FALSE)
    BY <1>5, <2>1, ReturnGuarded DEF ReadDir
  <2>2. CASE ~Return(t, FALSE)
    <3>1. /\ pc[t] = "list" /\ pc' = [pc EXCEPT ![t] = "read"]
          /\ todo' = [todo EXCEPT ![t] = Known(dir)]
          /\ UNCHANGED <<dir, data, handler, writer, cp, prev, base, got>>
      BY <1>5, <2>2 DEF ReadDir
    <3>2. TypeOK' /\ Validated' /\ AnswersParse' /\ ClassesStay'
      BY <3>1 DEF Guarded, TypeOK, Validated, AnswersParse, ClassesStay, Known, validate
    <3>3. ASSUME NEW s \in Updaters
          PROVE  /\ pc'[s] # "idle" => /\ handler' = "ready" /\ validate(cp'[s])
                                         /\ base' \subseteq Known(cp'[s])
                 /\ pc'[s] = "idle" => cp'[s] = Empty
                 /\ pc'[s] \in {"list", "read"} <=> writer' = s
                 /\ pc'[s] # "done"
      BY <3>1 DEF Guarded, TypeOK
    <3> QED
      BY <3>1, <3>2, <3>3 DEF Guarded, TypeOK, validate
  <2> QED
    BY <2>1, <2>2
<1>6. ASSUME NEW t \in Threads, ReadFile(t)
      PROVE  Guarded'
  <2>1. CASE Return(t, FALSE)
    BY <1>6, <2>1, ReturnGuarded DEF ReadFile
  <2>2. CASE ~Return(t, FALSE)
    <3>1. PICK f \in todo[t] :
            /\ pc[t] = "read" /\ dir[f] # Absent
            /\ data' = IF dir[f] = Directory THEN data ELSE [data EXCEPT ![f] = dir[f]]
            /\ todo' = [todo EXCEPT ![t] = @ \ {f}]
            /\ UNCHANGED <<dir, handler, writer, pc, cp, prev, base, got>>
      BY <1>6, <2>2 DEF ReadFile
    <3>2. data' \in Data
      BY <3>1 DEF Guarded, TypeOK, Data, Entry
    <3>3. TypeOK' /\ AnswersParse'
      BY <3>1, <3>2 DEF Guarded, TypeOK, AnswersParse
    <3>4. ~(handler = "ready" /\ writer = Nobody)
      BY <3>1 DEF Guarded
    <3>5. Known(data) \subseteq Known(data')
      BY <3>1 DEF Guarded, TypeOK, Data, Known
    <3>6. ClassesStay'
      BY <3>1, <3>5 DEF Guarded, ClassesStay
    <3> QED
      BY <3>1, <3>3, <3>4, <3>5, <3>6 DEF Guarded, Validated, Known, validate
  <2> QED
    BY <2>1, <2>2
<1>7. ASSUME NEW t \in Threads, Validate(t)
      PROVE  Guarded'
  BY <1>7, ReturnGuarded DEF Validate, validate
<1>8. CASE UNCHANGED vars
  BY <1>8 DEF vars, Guarded, TypeOK, Validated, AnswersParse, ClassesStay, Known, validate
<1> QED
  BY <1>1, <1>2, <1>3, <1>4, <1>5, <1>6, <1>7, <1>8 DEF Next, Running

(* The handler stays within its invariant: one writer, validated copies,   *)
(* nothing known lost, with any number of updaters.                        *)
THEOREM GuardedHolds == Spec => []Guarded
BY InitGuarded, GuardedStep, PTL DEF Spec

(* Lookups answer with parsable classes only, although Update fills the    *)
(* map in place and may fail half way, with any number of updaters.        *)
THEOREM LookupsParse == Spec => []AnswersParse
<1>1. Guarded => AnswersParse
  BY DEF Guarded
<1> QED
  BY <1>1, GuardedHolds, PTL

(* Whenever the mutex is free, h.data is non-empty and validated, also     *)
(* when a failed Update has put an old copy back.                          *)
THEOREM AlwaysValidated == Spec => []Validated
<1>1. Guarded => Validated
  BY DEF Guarded
<1> QED
  BY <1>1, GuardedHolds, PTL

(* Every variable of the handler keeps its type.                           *)
THEOREM ClassDataTyped == Spec => []TypeOK
<1>1. Guarded => TypeOK
  BY DEF Guarded
<1> QED
  BY <1>1, GuardedHolds, PTL

(* A class NewDirectoryHandler found is known as long as the process runs, *)
(* also when its file is removed and updates fail or overlap.              *)
THEOREM ClassesAreNotLost == Spec => []ClassesStay
<1>1. Guarded => ClassesStay
  BY DEF Guarded
<1> QED
  BY <1>1, GuardedHolds, PTL

-----------------------------------------------------------------------------
(***************************************************************************)
(* The refinement: what callers see of the handler is a ClassStore.        *)
(***************************************************************************)
LEMMA NothingIsEmpty == Store!Nothing = Empty
BY DEF Store!Nothing, Empty

LEMMA ValidatedIsVersion ==
  ASSUME NEW d \in Data, validate(d)
  PROVE  Store!Version(d)
<1>1. d # Store!Nothing
  BY DEF validate, Store!Nothing
<1> QED
  BY <1>1 DEF validate, Data, Store!Version

(* What callers see once there is a handler is not nothing.                *)
LEMMA VisibleIsSomething ==
  ASSUME Guarded, handler = "ready"
  PROVE  Visible # Store!Nothing
BY DEF Guarded, Validated, Visible, validate, Store!Nothing

LEMMA InitStore == Init => Store!Init
BY ClassDataAssumption, NothingIsEmpty DEF Init, Store!Init, Visible, Threads

(* The way out of a call is where it takes effect: a version is published, *)
(* or an updater goes back to its copy.                                    *)
LEMMA ReturnStore ==
  ASSUME Guarded, NEW t \in Threads, NEW ok \in BOOLEAN, Return(t, ok),
         pc[t] \in {"list", "read"}, ok => validate(data)
  PROVE  [Store!Next]_(Store!vars)
<1> USE ClassDataAssumption
<1>1. CASE t = Main /\ ok
  <2>1. handler = "none" /\ handler' = "ready" /\ writer' = Nobody /\ data' = data /\ got' = got
    BY <1>1 DEF Guarded, Return
  <2>2. Store!Version(data)
    BY <1>1, ValidatedIsVersion DEF Guarded, TypeOK
  <2>3. [s \in Updaters |-> cp'[s]] = [s \in Updaters |-> cp[s]]
    BY <1>1 DEF Return, Guarded, TypeOK
  <2>4. Visible = Store!Nothing /\ Visible' = data
    BY <2>1, NothingIsEmpty DEF Visible
  <2> QED
    BY <2>1, <2>2, <2>3, <2>4 DEF Store!Next, Store!Load
<1>2. CASE t = Main /\ ~ok
  <2>1. handler = "none" /\ handler' = "failed" /\ got' = got
    BY <1>2 DEF Guarded, Return
  <2>2. [s \in Updaters |-> cp'[s]] = [s \in Updaters |-> cp[s]]
    BY <1>2 DEF Return, Guarded, TypeOK
  <2> QED
    BY <2>1, <2>2 DEF Store!vars, Visible
<1>3. CASE t # Main
  <2>1. /\ t \in Updaters /\ writer = t /\ handler = "ready" /\ validate(cp[t])
        /\ writer' = Nobody /\ handler' = "ready" /\ got' = got
    BY <1>3 DEF Guarded, Return, Threads
  <2>2. /\ [s \in Updaters |-> cp'[s]]
             = [[s \in Updaters |-> cp[s]] EXCEPT ![t] = Store!Nothing]
        /\ [s \in Updaters |-> cp[s]][t] = cp[t] /\ cp[t] # Store!Nothing
    BY <2>1, NothingIsEmpty DEF Return, Guarded, TypeOK, Threads, validate, Empty
  <2>3. Visible = prev /\ Visible' = data'
    BY <2>1 DEF Visible
  <2>4. CASE ok
    <3>1. data' = data /\ Store!Version(data)
      BY <2>4, ValidatedIsVersion DEF Guarded, TypeOK, Return
    <3>2. \A f \in Files : prev[f] # Absent => data[f] # Absent
      BY <2>1 DEF Guarded, Known
    <3>3. Store!Succeed(t)
      BY <2>1, <2>2, <2>3, <3>1, <3>2 DEF Store!Succeed
    <3> QED
      BY <2>1, <3>3 DEF Store!Next
  <2>5. CASE ~ok
    <3>1. data' = cp[t]
      BY <1>3, <2>5 DEF Return
    <3>2. Store!Fail(t)
      BY <2>1, <2>2, <2>3, <3>1 DEF Store!Fail
    <3> QED
      BY <2>1, <3>2 DEF Store!Next
  <2> QED
    BY <2>4, <2>5
<1> QED
  BY <1>1, <1>2, <1>3

(* Every step of the handler is a step of the store or is not seen.        *)
LEMMA StoreStep ==
  ASSUME Guarded, [Next]_vars
  PROVE  [Store!Next]_(Store!vars)
<1> USE ClassDataAssumption
<1>1. ASSUME NEW f \in Files, NEW e \in Entry, ChangeDir(f, e)
      PROVE  UNCHANGED Store!vars
  BY <1>1 DEF ChangeDir, Store!vars, Visible
<1>2. ASSUME NEW f \in Files, GetDataForClass(f)
      PROVE  Store!Next
  <2>1. Visible = data /\ Visible' = Visible /\ Visible # Store!Nothing
    BY <1>2, VisibleIsSomething DEF GetDataForClass, Visible
  <2> QED
    BY <1>2, <2>1 DEF GetDataForClass, Store!Next, Store!Lookup
<1>3. ASSUME NEW t \in Updaters, Copy(t)
      PROVE  Store!Next
  <2>1. Visible = data /\ Visible' = Visible /\ Visible # Store!Nothing
    BY <1>3, VisibleIsSomething DEF Copy, Visible
  <2>2. /\ [s \in Updaters |-> cp'[s]] = [[s \in Updaters |-> cp[s]] EXCEPT ![t] = data]
        /\ [s \in Updaters |-> cp[s]][t] = Store!Nothing
    BY <1>3, NothingIsEmpty DEF Copy, Guarded, TypeOK, Threads
  <2>3. Store!Begin(t)
    BY <1>3, <2>1, <2>2 DEF Copy, Store!Begin
  <2> QED
    BY <2>3 DEF Store!Next
<1>4. ASSUME NEW t \in Updaters, Lock(t)
      PROVE  UNCHANGED Store!vars
  BY <1>4 DEF Lock, Store!vars, Visible
<1>5. ASSUME NEW t \in Threads, ReadDir(t)
      PROVE  [Store!Next]_(Store!vars)
  <2>1. CASE Return(t, FALSE)
    BY <1>5, <2>1, ReturnStore DEF ReadDir
  <2>2. CASE ~Return(t, FALSE)
    BY <1>5, <2>2 DEF ReadDir, Store!vars, Visible
  <2> QED
    BY <2>1, <2>2
<1>6. ASSUME NEW t \in Threads, ReadFile(t)
      PROVE  [Store!Next]_(Store!vars)
  <2>1. CASE Return(t, FALSE)
    BY <1>6, <2>1, ReturnStore DEF ReadFile
  <2>2. CASE ~Return(t, FALSE)
    <3>1. pc[t] = "read" /\ UNCHANGED <<handler, writer, cp, prev, got>>
      BY <1>6, <2>2 DEF ReadFile
    <3>2. handler # "ready" \/ writer # Nobody
      BY <3>1 DEF Guarded, Threads
    <3> QED
      BY <3>1, <3>2 DEF Store!vars, Visible
  <2> QED
    BY <2>1, <2>2
<1>7. ASSUME NEW t \in Threads, Validate(t)
      PROVE  [Store!Next]_(Store!vars)
  BY <1>7, ReturnStore DEF Validate, validate
<1>8. CASE UNCHANGED vars
  BY <1>8 DEF vars, Store!vars, Visible
<1> QED
  BY <1>1, <1>2, <1>3, <1>4, <1>5, <1>6, <1>7, <1>8 DEF Next, Running

(* The handler implements the store its callers may rely on: versions      *)
(* replace one another in one step, only validated ones are ever seen.     *)
THEOREM ImplementsClassStore == Spec => IsClassStore
BY InitStore, StoreStep, GuardedHolds, PTL DEF Spec, IsClassStore, Store!Spec

=============================================================================
