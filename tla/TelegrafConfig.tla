--------------------------- MODULE TelegrafConfig ---------------------------
(***************************************************************************)
(* How the telegraf.conf of a pod comes about (internal/controller,        *)
(* telegraf.go): defaults, overridden by annotations, merged into the      *)
(* class data.  Texts are tokens; a number is the number it reads as; ports *)
(* and namepass are the lists their texts are split into, spaces, brackets *)
(* and quotes taken off.                                                   *)
(***************************************************************************)
EXTENDS Integers, Sequences

CONSTANTS
  Unset,          \* the annotation is not there
  Blank,          \* the empty text
  Junk,           \* a text that does not parse
  Classes,        \* class name -> what its file holds
  DefaultClass,   \* --telegraf-default-class
  EnableInternal, \* --telegraf-enable-internal-plugin
  Pick            \* the annotation maps to look at

(* The annotations the configuration is built from, none of them given.    *)
NoAnnotations ==
  [class |-> Unset, port |-> Unset, ports |-> Unset, path |-> Unset, scheme |-> Unset,
   namepass |-> Unset, version |-> Unset, interval |-> Unset, internal |-> Unset,
   inputs |-> Unset, aggregators |-> Unset, processors |-> Unset, tags |-> {}]

(* An annotation that is not there is neither a text nor a list of ports.  *)
ASSUME ConfigAssumption ==
  /\ Unset # Blank /\ Unset # Junk
  /\ \A a \in Pick :
       /\ a = [x \in DOMAIN NoAnnotations |-> a[x]]
       /\ a.ports # Unset => LET texts == {a.ports[i] : i \in DOMAIN a.ports}
                             IN  a.ports \in Seq(texts) /\ Unset \notin Seq(texts)

VARIABLES
  ann,       \* the annotations of the pod
  gates,     \* the feature gates that are on
  c,         \* annotationValues
  warnings,  \* what applyAnnotationOverrides complained about
  out,       \* what buildConfigData returned
  pc

vars == <<ann, gates, c, warnings, out, pc>>

Gates == {"telegraf.aggregators", "telegraf.processors"}

(* Mutant: what is there already wins.                                     *)
MutantMerge(f, g) ==
  [k \in DOMAIN f \cup DOMAIN g |-> IF k \in DOMAIN f THEN f[k] ELSE g[k]]

(* The keys of g are written into f.                                       *)
Merge(f, g) ==
  [k \in DOMAIN f \cup DOMAIN g |-> IF k \in DOMAIN g THEN g[k] ELSE f[k]]

Named(keys, v) == [k \in keys |-> v]
Override(default, a) == IF a = Unset THEN default ELSE a

(* Mutant: the version is read without a bit size.                         *)
MutantParsesUint8(s) == s \notin {Junk, Blank}

(* strconv.ParseInt(s, 10, 16) and the conversion to uint16;               *)
(* strconv.ParseUint(s, 10, 8).                                            *)
Int16 == -32768..32767
ParsesInt16(s) == s \notin {Junk, Blank} /\ s \in Int16
uint16(n) == n % 65536
ParsesUint8(s) == s \notin {Junk, Blank} /\ s \in 0..255

newAnnotationValues ==
  [class |-> DefaultClass, ports |-> <<>>, metricsPath |-> "/metrics",
   scheme |-> "http", namepass |-> <<>>, metricVersion |-> 1,
   interval |-> "10s", enableInternal |-> EnableInternal,
   rawInput |-> Blank, rawAggregators |-> Blank, rawProcessors |-> Blank,
   globalTags |-> {}]

(* The port texts in the order they are read: port first, then ports.      *)
PortTexts(a) ==
  (IF a.port = Unset THEN <<>> ELSE <<a.port>>)
  \o (IF a.ports = Unset THEN <<>> ELSE a.ports)

(* Mutant: a later annotation takes the place of an earlier one.           *)
MutantParsePort(good, text) == IF ParsesInt16(text) THEN <<text>> ELSE good

(* The loop over them leaves out, with a warning, a text that does not     *)
(* parse.                                                                  *)
ParsePort(good, text) == IF ParsesInt16(text) THEN Append(good, text) ELSE good

Parsed(texts) ==
  LET p[i \in 0..Len(texts)] == IF i = 0 THEN <<>> ELSE ParsePort(p[i - 1], texts[i])
  IN  p[Len(texts)]

Ports(texts) ==
  LET good == Parsed(texts)
  IN  [i \in 1..Len(good) |-> uint16(good[i])]

applyAnnotationOverrides(v, a) ==
  [class          |-> Override(v.class, a.class),
   ports          |-> v.ports \o Ports(PortTexts(a)),
   metricsPath    |-> Override(v.metricsPath, a.path),
   scheme         |-> Override(v.scheme, a.scheme),
   namepass       |-> Override(v.namepass, a.namepass),
   metricVersion  |-> IF a.version # Unset /\ ParsesUint8(a.version)
                      THEN a.version ELSE v.metricVersion,
   interval       |-> IF a.interval \in {Unset, Junk, Blank}
                      THEN v.interval ELSE a.interval,
   enableInternal |-> v.enableInternal \/ a.internal \notin {Unset, Blank},
   rawInput       |-> Override(v.rawInput, a.inputs),
   rawAggregators |-> Override(v.rawAggregators, a.aggregators),
   rawProcessors  |-> Override(v.rawProcessors, a.processors),
   globalTags     |-> a.tags]

Warnings(a) ==
  (IF a.port # Unset THEN {"port is deprecated"} ELSE {})
  \cup (IF \E i \in DOMAIN PortTexts(a) : ~ParsesInt16(PortTexts(a)[i])
        THEN {"port"} ELSE {})
  \cup (IF a.version # Unset /\ ~ParsesUint8(a.version) THEN {"version"} ELSE {})
  \cup (IF a.interval \in {Junk, Blank} THEN {"interval"} ELSE {})

(* The inputs the operator writes itself.                                  *)
prometheusInput(v) ==
  <<"prometheus", [urls |-> [i \in DOMAIN v.ports |-> <<v.scheme, v.ports[i], v.metricsPath>>],
                   interval |-> v.interval, metricVersion |-> v.metricVersion,
                   namepass |-> v.namepass]>>

Generated(v) ==
  Merge(Named(IF v.ports = <<>> THEN {} ELSE {"prometheus"}, prometheusInput(v)),
        Named(IF v.enableInternal THEN {"internal"} ELSE {}, <<"internal">>))

(* Mutant: the gate is not asked.                                          *)
MutantGated(gate, on, raw) == raw

(* A raw block counts only while its gate is on.                           *)
Gated(gate, on, raw) == IF gate \in on THEN raw ELSE Blank

(* A raw TOML block: the plugins it names, if it is there and parses.      *)
Block(raw) == Named(IF raw = Blank THEN {} ELSE raw, <<"raw">>)

Failed(why) == [err |-> why]

buildConfigData(v, on) ==
  LET cfg  == Classes[v.class]
      aggs == Gated("telegraf.aggregators", on, v.rawAggregators)
      prcs == Gated("telegraf.processors", on, v.rawProcessors)
  IN  IF v.class \notin DOMAIN Classes THEN Failed("no such class")
      ELSE IF cfg = Junk THEN Failed("class data")
      ELSE IF v.rawInput = Junk THEN Failed("raw input")
      ELSE IF aggs = Junk THEN Failed("raw aggregators")
      ELSE IF prcs = Junk THEN Failed("raw processors")
      ELSE [err         |-> "none",
            inputs      |-> Merge(Merge(Named(cfg.inputs, <<"class">>), Generated(v)),
                                  Block(v.rawInput)),
            aggregators |-> Merge(Named(cfg.aggregators, <<"class">>), Block(aggs)),
            processors  |-> Merge(Named(cfg.processors, <<"class">>), Block(prcs)),
            globalTags  |-> Merge(Named(cfg.tags, <<"class">>),
                                  Named(v.globalTags, <<"annotation">>))]

Init ==
  /\ ann \in Pick /\ gates \in SUBSET Gates
  /\ c = newAnnotationValues /\ warnings = {} /\ out = Failed("not built")
  /\ pc = "apply"

Apply ==
  /\ pc = "apply" /\ pc' = "build"
  /\ c' = applyAnnotationOverrides(c, ann)
  /\ warnings' = Warnings(ann)
  /\ UNCHANGED <<ann, gates, out>>

Build ==
  /\ pc = "build" /\ pc' = "done"
  /\ out' = buildConfigData(c, gates)
  /\ UNCHANGED <<ann, gates, c, warnings>>

Next == Apply \/ Build

Spec == Init /\ [][Next]_vars

-----------------------------------------------------------------------------
ConfigOf(a, on) == buildConfigData(applyAnnotationOverrides(newAnnotationValues, a), on)

(* The annotations with every value taken out that does not parse.         *)
WellFormed(a) ==
  [a EXCEPT !.port = IF a.port # Unset /\ ParsesInt16(a.port) THEN a.port ELSE Unset,
            !.ports = IF a.ports = Unset THEN Unset ELSE Parsed(a.ports),
            !.version = IF a.version \in {Unset, Blank, Junk} THEN Unset
                        ELSE IF a.version \in 0..255 THEN a.version ELSE Unset,
            !.interval = IF a.interval \in {Blank, Junk} THEN Unset ELSE a.interval]

(* An invalid port, version or interval never stops the secret and never   *)
(* touches the rest of it: the result is the one without the invalid       *)
(* values, and there is a warning exactly when something was left out or   *)
(* the deprecated annotation was used.                                     *)
InvalidValuesAreIgnored ==
  pc = "done" => /\ out = ConfigOf(WellFormed(ann), gates)
                 /\ (warnings = {}) = (WellFormed(ann) = ann /\ ann.port = Unset)

(* A raw block behind a gate that is off has no effect, not even when it   *)
(* does not parse, and a gate that is on has none on a pod without one.    *)
GatesAreHonoured ==
  pc = "done" =>
    out = ConfigOf([ann EXCEPT
            !.aggregators = IF "telegraf.aggregators" \in gates THEN @ ELSE Unset,
            !.processors  = IF "telegraf.processors" \in gates THEN @ ELSE Unset],
          Gates)

(* Who wins: a plugin of the raw block over what the operator generates,   *)
(* that over the class; and nothing that any of them names gets lost.      *)
InputsPrecedence ==
  pc = "done" /\ out.err = "none" =>
    LET raw   == IF ann.inputs \in {Unset, Blank} THEN {} ELSE ann.inputs
        class == Classes[Override(DefaultClass, ann.class)].inputs
        own   == (IF \E i \in DOMAIN PortTexts(ann) : ParsesInt16(PortTexts(ann)[i])
                  THEN {"prometheus"} ELSE {})
                 \cup (IF EnableInternal \/ ann.internal \notin {Unset, Blank}
                       THEN {"internal"} ELSE {})
    IN  /\ DOMAIN out.inputs = raw \cup class \cup own
        /\ \A k \in DOMAIN out.inputs :
             out.inputs[k][1] = IF k \in raw THEN "raw" ELSE IF k \in own THEN k ELSE "class"

(* Which ports are scraped: unless a raw block takes the place of the      *)
(* plugin, each port up to 32767 that is asked for, once or several times, *)
(* with a warning about another or without; and no port that is not asked  *)
(* for, but for a negative number, which wraps around.                     *)
Asked(texts) == {texts[i] : i \in {k \in DOMAIN texts : texts[k] \notin {Junk, Blank}}}
Scraped(plugin) == {plugin[2].urls[j][2] : j \in DOMAIN plugin[2].urls}
Scrapes(o) == "prometheus" \in DOMAIN o.inputs /\ o.inputs["prometheus"][1] = "prometheus"

OfAsked(ports, asked) ==
  /\ \A n \in asked \cap Int16 : n >= 0 => n \in ports
  /\ \A p \in ports : p \in asked \/ p - 65536 \in asked

ParsedPortsAreScraped ==
  pc = "done" /\ out.err = "none" /\ Scrapes(out) =>
    OfAsked(Scraped(out.inputs["prometheus"]), Asked(PortTexts(ann)))

(* Every port asked for is scraped: a TCP port in the annotations has its  *)
(* URL ("Can be used to configure one or more ports to be scraped").       *)
PortsAreScraped ==
  pc = "done" /\ out.err = "none" /\ ann.inputs = Unset =>
    \A i \in DOMAIN PortTexts(ann) :
      LET port == PortTexts(ann)[i]
      IN  port \notin {Junk, Blank} /\ port \in 1..65535 =>
            /\ out.inputs["prometheus"][1] = "prometheus"
            /\ \E j \in DOMAIN out.inputs["prometheus"][2].urls :
                 out.inputs["prometheus"][2].urls[j][2] = port

=============================================================================
