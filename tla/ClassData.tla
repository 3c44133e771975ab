------------------------------ MODULE ClassData ------------------------------
(***************************************************************************)
(* The class data handler (internal/classdata): the telegraf classes read  *)
(* from a directory, looked up by the reconcilers and replaced by Update,  *)
(* under a sync.RWMutex.  The directory changes while it is being read.    *)
(***************************************************************************)
EXTENDS Naturals

CONSTANTS
  NFiles,      \* bound: names a directory entry can have, in ReadDir's order
  Contents,    \* what a file can hold
  Parsable,    \* the contents toml.Parse accepts
  Absent,      \* no such entry, no such class
  Directory,   \* an entry that is no regular file
  Main,        \* the goroutine that calls NewDirectoryHandler
  Updaters,    \* goroutines that call Update
  Nobody       \* no writer holds the mutex

ASSUME ClassDataAssumption ==
  /\ NFiles \in Nat
  /\ Parsable \subseteq Contents
  /\ Absent \notin Contents /\ Directory \notin Contents \cup {Absent}
  /\ Main \notin Updaters /\ Nobody \notin Updaters

Files == 1..NFiles
Threads == Updaters \cup {Main}
Entry == Contents \cup {Absent, Directory}
Data == [Files -> Contents \cup {Absent}]
Empty == [f \in Files |-> Absent]

VARIABLES
  dir,      \* the directory on disk
  data,     \* h.data
  handler,  \* what main.go got: nothing yet, a handler, or nil and an error
  writer,   \* who holds h.mu for writing
  pc, cp, todo,   \* per goroutine: its place, its copy, the entries to read
  prev,     \* history: h.data when the writer of now got the mutex
  base,     \* history: the classes NewDirectoryHandler found
  got       \* the last answer of GetDataForClass

vars == <<dir, data, handler, writer, pc, cp, todo, prev, base, got>>

Known(d) == {f \in Files : d[f] # Absent}

(* validate: there is a class, and every class parses.                     *)
validate(d) ==
  /\ \E f \in Files : d[f] # Absent
  /\ \A f \in Files : d[f] # Absent => d[f] \in Parsable

Init ==
  /\ dir \in [Files -> Entry]
  /\ data = Empty
  /\ handler = "none"
  /\ writer = Nobody
  /\ pc = [t \in Threads |-> IF t = Main THEN "list" ELSE "idle"]
  /\ cp = [t \in Threads |-> Empty]
  /\ todo = [t \in Threads |-> {}]
  /\ prev = Empty /\ base = {}
  /\ got = Absent

-----------------------------------------------------------------------------
(* A file of the mounted directory is written, replaced or removed.        *)
ChangeDir(f, e) ==
  /\ dir[f] # e
  /\ dir' = [dir EXCEPT ![f] = e]
  /\ UNCHANGED <<data, handler, writer, pc, cp, todo, prev, base, got>>

(* Mutant: the map is read without the lock.                               *)
MutantGetDataForClass(f) ==
  /\ handler = "ready"
  /\ got' = data[f]
  /\ UNCHANGED <<dir, data, handler, writer, pc, cp, todo, prev, base>>

(* GetDataForClass, all of it under the read lock.                         *)
GetDataForClass(f) ==
  /\ handler = "ready" /\ writer = Nobody
  /\ got' = data[f]
  /\ UNCHANGED <<dir, data, handler, writer, pc, cp, todo, prev, base>>

(* Update copies the data under the read lock, lets go of it ...           *)
Copy(t) ==
  /\ pc[t] = "idle" /\ handler = "ready" /\ writer = Nobody
  /\ cp' = [cp EXCEPT ![t] = data]
  /\ pc' = [pc EXCEPT ![t] = "lock"]
  /\ UNCHANGED <<dir, data, handler, writer, todo, prev, base, got>>

(* ... and takes the write lock.                                           *)
Lock(t) ==
  /\ pc[t] = "lock" /\ writer = Nobody
  /\ writer' = t /\ prev' = data
  /\ pc' = [pc EXCEPT ![t] = "list"]
  /\ UNCHANGED <<dir, data, handler, cp, todo, base, got>>

(* Mutants: the data is not restored; a failure keeps the lock.            *)
MutantReturn(t, ok) ==
  /\ pc' = [pc EXCEPT ![t] = IF t = Main THEN "done" ELSE "idle"]
  /\ cp' = [cp EXCEPT ![t] = Empty]
  /\ todo' = [todo EXCEPT ![t] = {}]
  /\ writer' = Nobody
  /\ handler' = IF t # Main THEN handler ELSE IF ok THEN "ready" ELSE "failed"
  /\ base' = IF t = Main /\ ok THEN Known(data) ELSE base
  /\ prev' = Empty
  /\ UNCHANGED <<dir, data, got>>

MutantReturnLocked(t, ok) ==
  /\ pc' = [pc EXCEPT ![t] = IF t = Main THEN "done" ELSE "idle"]
  /\ cp' = [cp EXCEPT ![t] = Empty]
  /\ todo' = [todo EXCEPT ![t] = {}]
  /\ writer' = IF ok THEN Nobody ELSE writer
  /\ handler' = IF t # Main THEN handler ELSE IF ok THEN "ready" ELSE "failed"
  /\ data' = IF ok \/ t = Main THEN data ELSE cp[t]
  /\ base' = IF t = Main /\ ok THEN Known(data) ELSE base
  /\ prev' = Empty
  /\ UNCHANGED <<dir, got>>

(* Return from Update, or from NewDirectoryHandler, with or without error: *)
(* the deferred Unlock, and the data restored before it on failure.        *)
Return(t, ok) ==
  /\ pc' = [pc EXCEPT ![t] = IF t = Main THEN "done" ELSE "idle"]
  /\ cp' = [cp EXCEPT ![t] = Empty]
  /\ todo' = [todo EXCEPT ![t] = {}]
  /\ writer' = Nobody
  /\ handler' = IF t # Main THEN handler ELSE IF ok THEN "ready" ELSE "failed"
  /\ data' = IF ok \/ t = Main THEN data ELSE cp[t]
  /\ base' = IF t = Main /\ ok THEN Known(data) ELSE base
  /\ prev' = Empty
  /\ UNCHANGED <<dir, got>>

(* Mutant: the map is emptied before it is filled.                         *)
MutantReadDir(t) ==
  /\ pc[t] = "list"
  /\ todo' = [todo EXCEPT ![t] = Known(dir)]
  /\ pc' = [pc EXCEPT ![t] = "read"]
  /\ data' = Empty
  /\ UNCHANGED <<dir, handler, writer, cp, prev, base, got>>

(* readClassData: os.ReadDir names the entries ...                         *)
ReadDir(t) ==
  /\ pc[t] = "list"
  /\ \/ /\ todo' = [todo EXCEPT ![t] = Known(dir)]
        /\ pc' = [pc EXCEPT ![t] = "read"]
        /\ UNCHANGED <<dir, data, handler, writer, cp, prev, base, got>>
     \/ Return(t, FALSE)

(* Mutant: every entry is taken for a file.                                *)
MutantReadFile(t) ==
  \E f \in todo[t] :
    /\ pc[t] = "read" /\ dir[f] # Absent
    /\ data' = [data EXCEPT ![f] = dir[f]]
    /\ todo' = [todo EXCEPT ![t] = @ \ {f}]
    /\ UNCHANGED <<dir, handler, writer, pc, cp, prev, base, got>>

(* ... and each is looked at in turn, by then perhaps changed or gone.     *)
ReadFile(t) ==
  \E f \in todo[t] :
    /\ pc[t] = "read" /\ \A g \in todo[t] : f <= g
    /\ \/ /\ dir[f] # Absent
          /\ data' = IF dir[f] = Directory THEN data
                     ELSE [data EXCEPT ![f] = dir[f]]
          /\ todo' = [todo EXCEPT ![t] = @ \ {f}]
          /\ UNCHANGED <<dir, handler, writer, pc, cp, prev, base, got>>
       \/ Return(t, FALSE)   \* gone, or it cannot be read

Validate(t) ==
  /\ pc[t] = "read" /\ todo[t] = {}
  /\ Return(t, validate(data))

Running(t) == ReadDir(t) \/ ReadFile(t) \/ Validate(t)

Next ==
  \/ \E f \in Files, e \in Entry : ChangeDir(f, e)
  \/ \E f \in Files : GetDataForClass(f)
  \/ \E t \in Updaters : Copy(t) \/ Lock(t)
  \/ \E t \in Threads : Running(t)

Spec == Init /\ [][Next]_vars

(***************************************************************************)
(* A goroutine that runs gets on; a sync.RWMutex does not starve a writer, *)
(* whatever other writers do.                                              *)
(***************************************************************************)
FairSpec ==
  /\ Spec
  /\ \A t \in Threads : WF_vars(Running(t))
  /\ \A t \in Updaters : SF_vars(Lock(t))

-----------------------------------------------------------------------------
(* Every variable has its type. *)
TypeOK ==
  /\ dir \in [Files -> Entry] /\ data \in Data /\ prev \in Data
  /\ handler \in {"none", "ready", "failed"}
  /\ writer \in Updaters \cup {Nobody}
  /\ pc \in [Threads -> {"idle", "lock", "list", "read", "done"}]
  /\ cp \in [Threads -> Data]
  /\ todo \in [Threads -> SUBSET Files]
  /\ base \in SUBSET Files
  /\ got \in Contents \cup {Absent}

(* A lookup never answers with a file that does not parse, although Update *)
(* fills the map in place, file by file, before it validates it.           *)
AnswersParse == got \in Parsable \cup {Absent}

(* Whenever the mutex is free, the data is a validated, non-empty set of   *)
(* classes, however many updates failed and in whatever state the          *)
(* directory was when they read it.                                        *)
Validated == handler = "ready" /\ writer = Nobody => validate(data)

(* A class that was there when the operator started is there until it      *)
(* ends, whatever is removed from the directory and whichever updates fail *)
(* or overlap: an update adds and replaces, and a copy is no older than    *)
(* the start.                                                              *)
ClassesStay == handler = "ready" => base # {} /\ base \subseteq Known(data)

Succeeds(t) == pc[t] = "read" /\ todo[t] = {} /\ validate(data)

(* An update that fails leaves the data as it found it when it took the    *)
(* lock ("reverting to previous").                                         *)
FailedUpdateReverts ==
  [][\A t \in Updaters :
       writer = t /\ writer' = Nobody /\ ~Succeeds(t) => data' = prev]_vars

(* Every call of Update returns and gives the lock back.                   *)
UpdateReturns == \A t \in Updaters : pc[t] # "idle" ~> pc[t] = "idle"

(***************************************************************************)
(* What callers see: the data while the mutex is free, what it was when    *)
(* the writer got the mutex while it is not.                               *)
(***************************************************************************)
Visible ==
  IF handler # "ready" THEN Empty ELSE IF writer = Nobody THEN data ELSE prev

Store == INSTANCE ClassStore WITH
  Callers <- Updaters, store <- Visible, answer <- got,
  kept <- [t \in Updaters |-> cp[t]]

(* The handler implements the store: although an update fills the map in   *)
(* place, file by file, from a directory that changes meanwhile, callers   *)
(* see validated versions replace one another in one step.                 *)
IsClassStore == Store!Spec

(* The inductive invariant: besides, only the writer is past Lock, nobody  *)
(* is in Update before there is a handler, a copy kept for a failure was   *)
(* validated data when it was made, and nothing known gets lost on the way.*)
Guarded ==
  /\ TypeOK /\ Validated /\ AnswersParse /\ ClassesStay
  /\ handler # "none" <=> pc[Main] = "done"
  /\ handler # "ready" => got = Absent /\ writer = Nobody
  /\ \A t \in Updaters :
       /\ pc[t] # "idle" => /\ handler = "ready" /\ validate(cp[t])
                            /\ base \subseteq Known(cp[t])
       /\ pc[t] = "idle" => cp[t] = Empty
       /\ pc[t] \in {"list", "read"} <=> writer = t
       /\ pc[t] # "done"
  /\ pc[Main] \notin {"idle", "lock"}
  /\ writer # Nobody => validate(prev) /\ Known(prev) \subseteq Known(data)

=============================================================================
