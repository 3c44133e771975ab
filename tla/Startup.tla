------------------------------- MODULE Startup -------------------------------
(***************************************************************************)
(* How an operator process comes up (cmd/main.go): the command line is     *)
(* parsed argument by argument, with the value types of internal/config    *)
(* and the gate list of internal/featuregate, the values are checked, and  *)
(* the manager with controller and webhook is set up and started.  A       *)
(* process that exits is restarted with the same command line.             *)
(***************************************************************************)
EXTENDS Integers, SequencesExt

CONSTANTS
  Unset,         \* no value: a nil pointer, a missing annotation
  Blank,         \* the empty text
  Junk,          \* a text that does not parse
  Gates,         \* the names given to featuregate.Register
  CommandLines,  \* command lines the operator is deployed with
  MaxExits       \* bound: processes that end although their flags are fine

(* The arguments on any of the command lines.                              *)
Arguments == UNION {{l[i] : i \in DOMAIN l} : l \in CommandLines}

QuantityFlags == {"requestsCPU", "requestsMemory", "limitsCPU", "limitsMemory"}

(* An argument gives one flag; a list of gates, a length and a quantity    *)
(* that parses are what they are; and a text that is missing, empty or     *)
(* does not parse is no number.                                            *)
ASSUME StartupAssumption ==
  /\ CommandLines \subseteq Seq(Arguments)
  /\ \A a \in Arguments : "featureGates" \in DOMAIN a =>
       /\ DOMAIN a = {"featureGates"}
       /\ a.featureGates \in Seq({a.featureGates[i] : i \in DOMAIN a.featureGates})
  /\ \A a \in Arguments : "secretNamePrefix" \in DOMAIN a => a.secretNamePrefix \in Nat
  /\ \A a \in Arguments : \A x \in DOMAIN a \cap QuantityFlags :
       a[x] \notin {Blank, Junk} => a[x] \in Int
  /\ Unset # Blank /\ Unset # Junk /\ \A t \in {Unset, Blank, Junk} : t \notin Int
  /\ IsFiniteSet(Gates) /\ Blank \notin Gates /\ "operator.nativesidecars" \in Gates

VARIABLES
  argv,    \* the command line of the process
  args,    \* what is left of it to parse
  flags,   \* the values of the flags
  gates,   \* the registry: which gates are enabled
  stage,   \* how far main has come
  exits    \* counter of the bounded mishaps

process == <<argv, args, flags, gates, stage, exits>>

(***************************************************************************)
(* The flags the webhook is built from.  Quantities are numbers, and a     *)
(* prefix is its length.                                                   *)
(***************************************************************************)
Defaults ==
  [image |-> "telegraf", requestsCPU |-> 1, requestsMemory |-> 2,
   limitsCPU |-> Blank, limitsMemory |-> 4, secretNamePrefix |-> 15,
   watchConfig |-> Blank, capAdd |-> Blank, capDrop |-> Blank,
   runAsUser |-> Unset, runAsGroup |-> Unset, runAsNonRoot |-> Unset,
   readOnlyRootFS |-> Unset, allowPrivEsc |-> Unset]

(* OptionalInt64 and OptionalBool: Set parses, and leaves the value alone  *)
(* when it cannot; every other flag takes any text.                        *)
Optional == {"runAsUser", "runAsGroup", "runAsNonRoot", "readOnlyRootFS", "allowPrivEsc"}

(* An argument is a function from the one flag it gives to the text.       *)
SetFlag(f, a) == [x \in DOMAIN f |-> IF x \in DOMAIN a THEN a[x] ELSE f[x]]
FlagRefuses(a) ==
  \E x \in DOMAIN a : \/ x \notin DOMAIN Defaults
                      \/ x \in Optional /\ a[x] \in {Blank, Junk}

-----------------------------------------------------------------------------
(***************************************************************************)
(* The feature gates.  An item of the list is a sign and a name, without   *)
(* the spaces around it.                                                   *)
(***************************************************************************)
NewRegistry == [g \in Gates |-> FALSE]

(* Registry.Set: an unknown name is noted.                                 *)
Set(r, name, enabled) ==
  IF name \notin DOMAIN r.gates
  THEN [r EXCEPT !.errs = @ \cup {name}]
  ELSE [r EXCEPT !.gates[name] = enabled]

(* Registry.VisitAll: all gates, in a fixed order.                         *)
VisitAll(g) == SetToSeq(DOMAIN g)

(* Mutant: the sign is not told from the name.                             *)
MutantSetItem(r, item) ==
  IF item.sign = "" /\ item.name = Blank THEN r ELSE Set(r, item.name, TRUE)

(* Mutant: an empty item is a gate without a name.                         *)
MutantSetItemBlank(r, item) == Set(r, item.name, item.sign # "-")

(* An empty item is skipped.                                               *)
SetItem(r, item) ==
  IF item.sign = "" /\ item.name = Blank THEN r ELSE Set(r, item.name, item.sign # "-")

(* After an error the rest of the list is applied all the same.            *)
SetGates(g, items) ==
  LET r[i \in 0..Len(items)] ==
        IF i = 0 THEN [gates |-> g, errs |-> {}] ELSE SetItem(r[i - 1], items[i])
  IN  r[Len(items)]

(* Mutant: only the enabled gates are listed.                              *)
MutantString(g) ==
  LET ids == SetToSeq({x \in DOMAIN g : g[x]})
  IN  [i \in DOMAIN ids |-> [sign |-> "", name |-> ids[i]]]

(* The text of the registry.                                               *)
String(g) ==
  LET ids == VisitAll(g)
  IN  [i \in DOMAIN ids |-> [sign |-> IF g[ids[i]] THEN "" ELSE "-", name |-> ids[i]]]

-----------------------------------------------------------------------------
(* resource.ParseQuantity accepts.                                         *)
Quantity(s) == s \notin {Unset, Blank, Junk}

(* Mutant: the flags are not checked.                                      *)
MutantValidateRequestsAndLimits(f) == TRUE

(* Blank values are let through.                                           *)
validateRequestsAndLimits(f) ==
  \A v \in {f.requestsCPU, f.requestsMemory, f.limitsCPU, f.limitsMemory} :
    v # Blank => Quantity(v)

(* Trimmed and in lower case, the text is one of the two; that is only     *)
(* done to look at it, the flag keeps its text.                            *)
ToLower(w) == IF w \in {"POLL", "Poll"} THEN "poll" ELSE IF w = " " THEN Blank ELSE w
validateWatchConfig(f) ==
  f.watchConfig # Blank => ToLower(f.watchConfig) \in {"inotify", "poll"}

-----------------------------------------------------------------------------
Start(l) ==
  /\ argv' = l /\ args' = l
  /\ flags' = Defaults /\ gates' = NewRegistry /\ stage' = "parse"

StartupInit ==
  /\ argv \in CommandLines /\ args = argv
  /\ flags = Defaults /\ gates = NewRegistry
  /\ stage = "parse" /\ exits = 0

(* flag.Parse exits at the first argument that is refused.  A list of      *)
(* gates is refused after the whole of it was applied.                     *)
ParseFlag ==
  /\ stage = "parse" /\ args # <<>>
  /\ LET a == Head(args)
     IN  /\ "featureGates" \notin DOMAIN a
         /\ IF FlagRefuses(a)
            THEN stage' = "exited" /\ UNCHANGED flags
            ELSE stage' = stage /\ flags' = SetFlag(flags, a)
  /\ args' = Tail(args)
  /\ UNCHANGED <<argv, gates, exits>>

ParseGates ==
  /\ stage = "parse" /\ args # <<>>
  /\ "featureGates" \in DOMAIN Head(args)
  /\ LET r == SetGates(gates, Head(args).featureGates)
     IN  /\ gates' = r.gates
         /\ stage' = IF r.errs = {} THEN stage ELSE "exited"
  /\ args' = Tail(args)
  /\ UNCHANGED <<argv, flags, exits>>

(* The two validations, and NewDirectoryHandler, whose failure is logged   *)
(* and costs the controller its classes (PodController), not the process.  *)
Validate ==
  /\ stage = "parse" /\ args = <<>>
  /\ stage' = IF validateRequestsAndLimits(flags) /\ validateWatchConfig(flags)
              THEN "manager" ELSE "exited"
  /\ UNCHANGED <<argv, args, flags, gates, exits>>

(* The manager is created, the controller, the webhook and the probes are  *)
(* added, the manager runs.                                                *)
RunManager ==
  /\ stage = "manager" /\ stage' = "serving"
  /\ UNCHANGED <<argv, args, flags, gates, exits>>

(* One of these steps fails, or the manager stops later.                   *)
ManagerFails ==
  /\ stage \in {"manager", "serving"} /\ stage' = "exited"
  /\ exits < MaxExits /\ exits' = exits + 1
  /\ UNCHANGED <<argv, args, flags, gates>>

Restart == stage = "exited" /\ Start(argv) /\ UNCHANGED exits

(* Somebody deploys the operator with another command line.                *)
Redeploy(l) == l # argv /\ Start(l) /\ UNCHANGED exits

Progress == ParseFlag \/ ParseGates \/ Validate \/ RunManager \/ Restart

StartupNext == Progress \/ ManagerFails \/ \E l \in CommandLines : Redeploy(l)

-----------------------------------------------------------------------------
(***************************************************************************)
(* Properties.                                                             *)
(***************************************************************************)

(* What the last argument of l that gives flag x says.                     *)
Told(l, x) ==
  LET at == {i \in DOMAIN l : x \in DOMAIN l[i]}
  IN  IF at = {} THEN Defaults[x] ELSE l[Max(at)][x]

(* The items of all lists of gates on l, by their places, in order.        *)
Places(l) ==
  UNION {{<<i, j>> : j \in DOMAIN l[i].featureGates} :
           i \in {k \in DOMAIN l : "featureGates" \in DOMAIN l[k]}}
ItemAt(l, p) == l[p[1]].featureGates[p[2]]
NotAfter(p, q) == p[1] < q[1] \/ (p[1] = q[1] /\ p[2] <= q[2])

(* The last item that names gate g has no minus sign.                      *)
ToldGate(l, g) ==
  LET at == {p \in Places(l) : ItemAt(l, p).name = g}
  IN  \E p \in at : ItemAt(l, p).sign # "-" /\ \A q \in at : NotAfter(q, p)

(* The registry takes an item: a gate it has, or nothing.                  *)
Known(item) == item.name \in Gates \/ (item.sign = "" /\ item.name = Blank)

(* A command line that can be served: every argument parses, every gate is *)
(* known, and what is said last about each flag makes sense.               *)
Acceptable(l) ==
  LET f == [x \in DOMAIN Defaults |-> Told(l, x)]
  IN  /\ \A i \in DOMAIN l : "featureGates" \in DOMAIN l[i] \/ ~FlagRefuses(l[i])
      /\ \A p \in Places(l) : Known(ItemAt(l, p))
      /\ validateRequestsAndLimits(f) /\ validateWatchConfig(f)

(* A process serves what it was told: only with a command line that is     *)
(* acceptable as a whole, and with what it says last about every flag and  *)
(* every gate, although lists of gates are applied item by item, errors    *)
(* are collected on the way, and processes start over again and again.     *)
ServesAsTold ==
  stage = "serving" =>
    /\ Acceptable(argv)
    /\ flags = [x \in DOMAIN Defaults |-> Told(argv, x)]
    /\ gates = [g \in Gates |-> ToldGate(argv, g)]

(* The text of the registry says everything: given to a registry in any    *)
(* state, as in a copied command line, it brings back these very gates.    *)
GatesRoundTrip ==
  \A other \in [Gates -> BOOLEAN] :
    SetGates(other, String(gates)) = [gates |-> gates, errs |-> {}]

(* A process whose command line is acceptable serves in the end, unless    *)
(* somebody deploys it anew for ever: start-up gets through, and exits are *)
(* recovered from.                                                         *)
AcceptableServes ==
  \/ []<><<\E l \in CommandLines : Redeploy(l)>>_process
  \/ Acceptable(argv) ~> stage = "serving" \/ ~Acceptable(argv)

=============================================================================
