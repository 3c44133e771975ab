----------------------------- MODULE ClassStore ------------------------------
(***************************************************************************)
(* What the class data handler promises to those who call it, without      *)
(* files, locks and goroutines: a store that goes from one validated       *)
(* version to the next in one step.  A call of Update is two steps, since  *)
(* what it goes back to on failure is the version at its beginning.        *)
(***************************************************************************)
CONSTANTS
  Files,     \* names a class can have
  Contents,  \* what a class can be
  Parsable,  \* the contents toml.Parse accepts
  Absent,    \* no such class
  Callers    \* goroutines that call Update

VARIABLES
  store,   \* the version lookups see; Nothing before the handler is there
  kept,    \* per call of Update in progress, the version at its beginning
  answer   \* the last answer of a lookup

vars == <<store, kept, answer>>

Nothing == [f \in Files |-> Absent]

Version(d) ==
  /\ d \in [Files -> Contents \cup {Absent}]
  /\ d # Nothing
  /\ \A f \in Files : d[f] \in Parsable \cup {Absent}

Init ==
  /\ store = Nothing
  /\ kept = [t \in Callers |-> Nothing]
  /\ answer = Absent

Load ==
  /\ store = Nothing /\ Version(store')
  /\ UNCHANGED <<kept, answer>>

Lookup(f) ==
  /\ store # Nothing
  /\ answer' = store[f]
  /\ UNCHANGED <<store, kept>>

Begin(t) ==
  /\ store # Nothing /\ kept[t] = Nothing
  /\ kept' = [kept EXCEPT ![t] = store]
  /\ UNCHANGED <<store, answer>>

(* The new version has every class of the old one, and perhaps more.       *)
Succeed(t) ==
  /\ kept[t] # Nothing
  /\ Version(store')
  /\ \A f \in Files : store[f] # Absent => store'[f] # Absent
  /\ kept' = [kept EXCEPT ![t] = Nothing]
  /\ UNCHANGED answer

Fail(t) ==
  /\ kept[t] # Nothing
  /\ store' = kept[t]
  /\ kept' = [kept EXCEPT ![t] = Nothing]
  /\ UNCHANGED answer

Next ==
  \/ Load
  \/ \E f \in Files : Lookup(f)
  \/ \E t \in Callers : Begin(t) \/ Succeed(t) \/ Fail(t)

Spec == Init /\ [][Next]_vars

=============================================================================
