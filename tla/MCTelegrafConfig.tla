-------------------------- MODULE MCTelegrafConfig --------------------------
(***************************************************************************)
(* TelegrafConfig on all combinations of a few values per annotation: the  *)
(* edges of the integer types, texts that do not parse, blocks that name a *)
(* plugin somebody else configures too.                                    *)
(***************************************************************************)
EXTENDS TelegrafConfig

(* "legacy" passes validate of classdata and is no TOML to the controller. *)
MCClasses ==
  [n \in {"default", "legacy"} |->
     IF n = "legacy" THEN Junk
     ELSE [inputs |-> {"cpu", "prometheus"}, aggregators |-> {"basicstats"},
           processors |-> {}, tags |-> {"env"}]]

MCPick ==
  [class : {Unset, "legacy", "unknown"},
   port : {Unset, 80, 32768, Junk},
   ports : {Unset, <<Junk, 81, -1>>, <<32767, -32769>>},
   path : {"/m"}, scheme : {Unset}, namepass : {<<"up", "go_gc">>},
   version : {Unset, 2, 256},
   interval : {Unset, Junk, "30s"},
   internal : {Unset, Blank, "false"},
   inputs : {Unset, Junk, {"cpu", "redis"}, {"prometheus", "internal"}},
   aggregators : {Unset, Junk, {"basicstats", "merge"}},
   processors : {Unset, Junk, {"regex"}},
   tags : {{"env", "team"}}]
=============================================================================
