-------------------------- MODULE MCSidecarInjector --------------------------
(***************************************************************************)
(* SidecarInjector with annotation maps that parse, do not parse and are   *)
(* not there, identifiers around the lengths where the name is cut, pods   *)
(* that use the names of the operator, and command lines that are good,    *)
(* contradict themselves, or are refused at each of the stages.            *)
(***************************************************************************)
EXTENDS SidecarInjector

MCGates == {"operator.nativesidecars", "telegraf.aggregators"}

UserContainer(name) == [name |-> name, own |-> FALSE]
UserVolume(name) == [name |-> name, secret |-> 0]
Manifest(container, volumes, len, dash) ==
  [containers |-> {UserContainer(container)}, volumes |-> volumes,
   id |-> [len |-> len, dash |-> dash]]

MCManifests ==
  {Manifest("app", {}, 42, TRUE), Manifest("app", {UserVolume("extra")}, 41, FALSE),
   Manifest("telegraf", {}, 40, FALSE), Manifest("my-telegraf", {}, 40, FALSE),
   Manifest("app", {UserVolume("telegraf-config")}, 40, FALSE)}

Some == [NoAnnotations EXCEPT !.any = TRUE]
Env(kind, value) == [name |-> "A", kind |-> kind, value |-> value]

MCAnnotations ==
  {NoAnnotations, Some,
   [Some EXCEPT !.requestsCPU = 7, !.limitsCPU = Blank, !.mounts = {"extra"}],
   [Some EXCEPT !.requestsCPU = Junk, !.limitsMemory = Blank, !.limitsCPU = 0,
                !.mounts = Junk, !.debug = "yes"],
   [Some EXCEPT !.requestsMemory = 9, !.env = {Env("literal", Junk)}],
   [Some EXCEPT !.env = {Env("fieldref", Junk)}],
   [Some EXCEPT !.requestsMemory = Junk, !.limitsCPU = Junk, !.image = "other",
                !.debug = "true", !.envFrom = {"secret"},
                !.env = {Env("secretkeyref", "s.k"), Env("configmapkeyref", Junk)}]}

Item(sign, name) == [sign |-> sign, name |-> name]
Native == "operator.nativesidecars"

MCCommandLines ==
  {<<>>,
   <<("featureGates" :> <<Item("", Native), Item("", Blank), Item("-", "telegraf.aggregators")>>)>>,
   <<("featureGates" :> <<Item("", Native)>>), ("watchConfig" :> "POLL"),
     ("featureGates" :> <<Item("+", "telegraf.aggregators"), Item("-", Native)>>)>>,
   <<("featureGates" :> <<Item("", "unknown"), Item("", Native)>>)>>,
   <<("requestsCPU" :> Blank), ("capAdd" :> {"NET_RAW", Blank})>>,
   <<("limitsMemory" :> Junk)>>,
   <<("limitsMemory" :> Junk), ("limitsMemory" :> 1), ("runAsUser" :> -1)>>,
   <<("watchConfig" :> " "), ("runAsUser" :> Junk)>>,
   <<("limitsCPU" :> 3), ("secretNamePrefix" :> 70), ("runAsNonRoot" :> "true")>>}
=============================================================================
