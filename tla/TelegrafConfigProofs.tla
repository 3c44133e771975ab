------------------------ MODULE TelegrafConfigProofs -------------------------
(***************************************************************************)
(* Proofs about TelegrafConfig, for all annotation maps, classes, default  *)
(* classes and settings of the gates.                                      *)
(***************************************************************************)
EXTENDS TelegrafConfig, Induction, SequenceTheorems

-----------------------------------------------------------------------------
(***************************************************************************)
(* The loop over the ports.                                                *)
(***************************************************************************)

(* What it has kept after each of the texts.                               *)
Loop(p, texts, n) ==
  p = [i \in 0..n |-> IF i = 0 THEN <<>> ELSE ParsePort(p[i - 1], texts[i])]

LEMMA LoopExists ==
  ASSUME NEW texts, NEW n \in Nat
  PROVE  \E p : Loop(p, texts, n)
<1> DEFINE S == {k \in Nat : \E p : Loop(p, texts, k)}
<1>1. 0 \in S
  <2>1. Loop([i \in 0..0 |-> <<>>], texts, 0)
    BY DEF Loop
  <2> QED
    BY <2>1
<1>2. ASSUME NEW k \in S \cap Nat PROVE k + 1 \in S
  <2>1. PICK p : Loop(p, texts, k)
    OBVIOUS
  <2> DEFINE q == [i \in 0..(k + 1) |-> IF i <= k THEN p[i] ELSE ParsePort(p[k], texts[i])]
             e(i) == IF i = 0 THEN <<>> ELSE ParsePort(q[i - 1], texts[i])
  <2>2. ASSUME NEW i \in 0..(k + 1) PROVE q[i] = e(i)
    <3>1. CASE i = 0
      BY <2>1, <3>1 DEF Loop
    <3>2. CASE i \in 1..k
      <4>1. q[i] = p[i] /\ q[i - 1] = p[i - 1] /\ i \in 0..k /\ i # 0
        BY <3>2
      <4>2. p[i] = ParsePort(p[i - 1], texts[i])
        BY <2>1, <4>1 DEF Loop
      <4> QED
        BY <4>1, <4>2
    <3>3. CASE i = k + 1
      <4>1. q[i] = ParsePort(p[k], texts[i]) /\ q[i - 1] = p[k] /\ i # 0
        BY <3>3
      <4> QED
        BY <4>1
    <3> QED
      BY <3>1, <3>2, <3>3
  <2>3. q = [i \in 0..(k + 1) |-> e(i)]
    BY <2>2
  <2>4. Loop(q, texts, k + 1)
    BY <2>3 DEF Loop
  <2> HIDE DEF q
  <2> QED
    BY <2>4
<1>3. Nat \subseteq S
  <2> HIDE DEF S
  <2> QED
    BY <1>1, <1>2, NatSetInduction
<1> QED
  BY <1>3

LEMMA ParsedLoops ==
  ASSUME NEW texts, Len(texts) \in Nat
  PROVE  \E p : /\ Loop(p, texts, Len(texts)) /\ Parsed(texts) = p[Len(texts)]
               /\ p[0] = <<>>
               /\ \A k \in 0..(Len(texts) - 1) : p[k + 1] = ParsePort(p[k], texts[k + 1])
<1> DEFINE p == CHOOSE q : Loop(q, texts, Len(texts))
<1>1. Loop(p, texts, Len(texts))
  BY LoopExists
<1>2. Parsed(texts) = p[Len(texts)]
  BY DEF Parsed, Loop
<1> HIDE DEF p
<1>3. p[0] = <<>>
  BY <1>1 DEF Loop
<1>4. ASSUME NEW k \in 0..(Len(texts) - 1) PROVE p[k + 1] = ParsePort(p[k], texts[k + 1])
  <2>1. k + 1 \in 0..Len(texts) /\ k + 1 # 0 /\ (k + 1) - 1 = k
    OBVIOUS
  <2>2. p[k + 1] = ParsePort(p[(k + 1) - 1], texts[k + 1])
    BY <1>1, <2>1 DEF Loop
  <2> QED
    BY <2>1, <2>2
<1> QED
  BY <1>1, <1>2, <1>3, <1>4

(* What is kept of the first n texts: those that parse and no others, all  *)
(* of them if all do, and none only if none does.                          *)
Kept(q, S, texts, n) ==
  /\ q \in Seq(S) /\ \A j \in 1..Len(q) : ParsesInt16(q[j])
  /\ q = <<>> <=> \A j \in 1..n : ~ParsesInt16(texts[j])
  /\ (\A j \in 1..n : ParsesInt16(texts[j])) =>
       Len(q) = n /\ \A j \in 1..n : q[j] = texts[j]
  /\ \A j \in 1..n : ParsesInt16(texts[j]) => \E i \in 1..Len(q) : q[i] = texts[j]
  /\ \A i \in 1..Len(q) : \E j \in 1..n : q[i] = texts[j]

LEMMA KeptStep ==
  ASSUME NEW S, NEW texts, NEW n \in Nat, texts[n + 1] \in S,
         NEW q, Kept(q, S, texts, n)
  PROVE  Kept(ParsePort(q, texts[n + 1]), S, texts, n + 1)
<1>1. PICK x \in S : x = texts[n + 1]
  OBVIOUS
<1>2. 1..(n + 1) = (1..n) \cup {n + 1} /\ n + 1 \notin 1..n
  OBVIOUS
<1>3. q \in Seq(S) /\ Len(q) \in Nat
  BY DEF Kept
<1>4. CASE ParsesInt16(x)
  <2>1. PICK r : r = Append(q, x)
    OBVIOUS
  <2>2. /\ r \in Seq(S) /\ Len(r) = Len(q) + 1 /\ r[Len(q) + 1] = x
        /\ \A j \in 1..Len(q) : r[j] = q[j]
    BY <1>3, <2>1
  <2>3. r # <<>>
    BY <1>3, <2>2
  <2>4. ASSUME NEW j \in 1..Len(r) PROVE ParsesInt16(r[j])
    <3>1. j \in 1..Len(q) \/ j = Len(q) + 1
      BY <1>3, <2>2
    <3> QED
      BY <1>4, <2>2, <3>1 DEF Kept
  <2>5. ASSUME \A j \in 1..(n + 1) : ParsesInt16(texts[j])
        PROVE  Len(r) = n + 1 /\ \A j \in 1..(n + 1) : r[j] = texts[j]
    <3>1. Len(q) = n /\ \A j \in 1..n : q[j] = texts[j]
      BY <1>2, <2>5 DEF Kept
    <3> QED
      BY <1>1, <1>2, <2>2, <3>1
  <2>6. ASSUME NEW j \in 1..(n + 1), ParsesInt16(texts[j])
        PROVE  \E i \in 1..Len(r) : r[i] = texts[j]
    <3>1. CASE j \in 1..n
      <4>1. PICK i \in 1..Len(q) : q[i] = texts[j]
        BY <2>6, <3>1 DEF Kept
      <4>2. i \in 1..Len(r) /\ r[i] = texts[j]
        BY <1>3, <2>2, <4>1
      <4> QED
        BY <4>2
    <3>2. CASE j = n + 1
      <4>1. Len(q) + 1 \in 1..Len(r)
        BY <1>3, <2>2
      <4> QED
        BY <1>1, <2>2, <3>2, <4>1
    <3> QED
      BY <1>2, <3>1, <3>2
  <2>7. ASSUME NEW i \in 1..Len(r) PROVE \E j \in 1..(n + 1) : r[i] = texts[j]
    <3>1. i \in 1..Len(q) \/ i = Len(q) + 1
      BY <1>3, <2>2
    <3>2. CASE i \in 1..Len(q)
      <4>1. PICK j \in 1..n : q[i] = texts[j]
        BY <3>2 DEF Kept
      <4>2. j \in 1..(n + 1) /\ r[i] = texts[j]
        BY <2>2, <3>2, <4>1
      <4> QED
        BY <4>2
    <3>3. CASE i = Len(q) + 1
      BY <1>1, <1>2, <2>2, <3>3
    <3> QED
      BY <3>1, <3>2, <3>3
  <2>8. Kept(r, S, texts, n + 1)
    BY <1>1, <1>2, <1>4, <2>2, <2>3, <2>4, <2>5, <2>6, <2>7 DEF Kept
  <2> QED
    BY <1>1, <1>4, <2>1, <2>8 DEF ParsePort
<1>5. CASE ~ParsesInt16(x)
  <2>1. Kept(q, S, texts, n + 1)
    BY <1>1, <1>2, <1>5 DEF Kept
  <2> QED
    BY <1>1, <1>5, <2>1 DEF ParsePort
<1> QED
  BY <1>4, <1>5

LEMMA ParsedKeeps ==
  ASSUME NEW S, NEW texts \in Seq(S)
  PROVE  Kept(Parsed(texts), S, texts, Len(texts))
<1>1. PICK n \in Nat : n = Len(texts)
  OBVIOUS
<1>2. PICK p : /\ Parsed(texts) = p[n] /\ p[0] = <<>>
               /\ \A k \in 0..(n - 1) : p[k + 1] = ParsePort(p[k], texts[k + 1])
  BY <1>1, ParsedLoops
<1> DEFINE T == {k \in Nat : k <= n => Kept(p[k], S, texts, k)}
<1>3. 0 \in T
  <2>1. 1..0 = {} /\ Len(<<>>) = 0 /\ <<>> \in Seq(S)
    OBVIOUS
  <2>2. Kept(<<>>, S, texts, 0)
    BY <2>1 DEF Kept
  <2> QED
    BY <1>2, <2>2
<1>4. ASSUME NEW k \in T \cap Nat PROVE k + 1 \in T
  <2> SUFFICES ASSUME k + 1 <= n PROVE Kept(p[k + 1], S, texts, k + 1)
    OBVIOUS
  <2>1. texts[k + 1] \in S /\ k \in 0..(n - 1)
    BY <1>1
  <2>2. Kept(p[k], S, texts, k)
    OBVIOUS
  <2>3. p[k + 1] = ParsePort(p[k], texts[k + 1])
    BY <1>2, <2>1
  <2> QED
    BY <2>1, <2>2, <2>3, KeptStep
<1>5. Nat \subseteq T
  <2> HIDE DEF T
  <2> QED
    BY <1>3, <1>4, NatSetInduction
<1> QED
  BY <1>1, <1>2, <1>5

(* A list whose texts all parse is kept as it is.                          *)
LEMMA AllKept ==
  ASSUME NEW S, NEW texts \in Seq(S), \A j \in 1..Len(texts) : ParsesInt16(texts[j])
  PROVE  Parsed(texts) = texts
<1>1. PICK q : q = Parsed(texts)
  OBVIOUS
<1>2. Kept(q, S, texts, Len(texts))
  BY <1>1, ParsedKeeps
<1>3. q \in Seq(S) /\ Len(q) = Len(texts) /\ \A j \in 1..Len(texts) : q[j] = texts[j]
  BY <1>2 DEF Kept
<1>4. q = texts
  BY <1>3, SeqEqual
<1> QED
  BY <1>1, <1>4

(* The ports of a list of texts: those that parse, wrapped around.         *)
LEMMA PortsAre ==
  ASSUME NEW S, NEW texts \in Seq(S), NEW ports, ports = <<>> \o Ports(texts)
  PROVE  /\ ports = <<>> <=> \A j \in 1..Len(texts) : ~ParsesInt16(texts[j])
         /\ DOMAIN ports = 1..Len(ports)
         /\ \A j \in 1..Len(texts) : ParsesInt16(texts[j]) =>
              \E i \in DOMAIN ports : ports[i] = uint16(texts[j])
         /\ \A i \in DOMAIN ports : \E j \in 1..Len(texts) :
              ParsesInt16(texts[j]) /\ ports[i] = uint16(texts[j])
<1>1. PICK q : q = Parsed(texts)
  OBVIOUS
<1>2. Kept(q, S, texts, Len(texts))
  BY <1>1, ParsedKeeps
<1>3. q \in Seq(S) /\ Len(q) \in Nat
  BY <1>2 DEF Kept
<1>4. Ports(texts) = [i \in 1..Len(q) |-> uint16(q[i])]
  BY <1>1, Zenon DEF Ports
<1>5. PICK R : Ports(texts) \in Seq(R) /\ Len(Ports(texts)) = Len(q)
  <2> DEFINE R == {uint16(q[i]) : i \in 1..Len(q)}
  <2>1. Ports(texts) \in [1..Len(q) -> R]
    BY <1>4
  <2> HIDE DEF R
  <2>2. Ports(texts) \in Seq(R)
    BY <1>3, <2>1, SeqDef
  <2>3. Len(Ports(texts)) = Len(q)
    BY <1>3, <2>1, <2>2, LenProperties
  <2> QED
    BY <2>2, <2>3
<1>6. ports = Ports(texts)
  BY <1>5, ConcatEmptySeq
<1>7. ports = <<>> <=> q = <<>>
  BY <1>3, <1>5, <1>6, EmptySeq
<1>8. DOMAIN ports = 1..Len(q) /\ Len(ports) = Len(q)
      /\ \A i \in 1..Len(q) : ports[i] = uint16(q[i])
  BY <1>4, <1>5, <1>6
<1>9. ASSUME NEW j \in 1..Len(texts), ParsesInt16(texts[j])
      PROVE  \E i \in DOMAIN ports : ports[i] = uint16(texts[j])
  <2>1. PICK i \in 1..Len(q) : q[i] = texts[j]
    BY <1>2, <1>9 DEF Kept
  <2> QED
    BY <1>8, <2>1
<1>10. ASSUME NEW i \in DOMAIN ports
       PROVE  \E j \in 1..Len(texts) : ParsesInt16(texts[j]) /\ ports[i] = uint16(texts[j])
  <2>1. PICK j \in 1..Len(texts) : q[i] = texts[j]
    BY <1>2, <1>8 DEF Kept
  <2>2. ParsesInt16(q[i])
    BY <1>2, <1>8 DEF Kept
  <2> QED
    BY <1>8, <2>1, <2>2
<1> QED
  BY <1>2, <1>7, <1>8, <1>9, <1>10 DEF Kept

(* A text in front of a list is read on its own.                           *)
LEMMA ParsedFirst ==
  ASSUME NEW S, NEW x \in S, NEW t \in Seq(S)
  PROVE  Parsed(<<x>> \o t) = ParsePort(<<>>, x) \o Parsed(t)
<1>1. PICK s : s = <<x>> \o t
  OBVIOUS
<1>2. PICK n \in Nat : n = Len(t)
  OBVIOUS
<1>3. /\ s \in Seq(S) /\ Len(s) = n + 1 /\ s[1] = x
      /\ \A k \in 1..n : s[k + 1] = t[k]
  BY <1>1, <1>2
<1>4. PICK p : /\ Parsed(s) = p[n + 1] /\ p[0] = <<>>
               /\ \A k \in 0..n : p[k + 1] = ParsePort(p[k], s[k + 1])
  <2>1. Len(s) \in Nat /\ Len(s) = n + 1 /\ Len(s) - 1 = n
    BY <1>3
  <2> QED
    BY <2>1, ParsedLoops
<1>5. PICK q : /\ Parsed(t) = q[n] /\ q[0] = <<>>
               /\ \A k \in 0..(n - 1) : q[k + 1] = ParsePort(q[k], t[k + 1])
  BY <1>2, ParsedLoops
<1>6. PICK h \in Seq(S) : h = ParsePort(<<>>, x)
  <2>1. <<>> \in Seq(S) /\ Append(<<>>, x) \in Seq(S)
    BY AppendProperties
  <2>2. ParsePort(<<>>, x) \in Seq(S)
    BY <2>1 DEF ParsePort
  <2> QED
    BY <2>2
<1> DEFINE T == {k \in Nat : k <= n => q[k] \in Seq(S) /\ p[k + 1] = h \o q[k]}
<1>7. 0 \in T
  <2>1. p[0 + 1] = h
    BY <1>3, <1>4, <1>6
  <2>2. q[0] \in Seq(S) /\ h \o q[0] = h
    BY <1>5, ConcatEmptySeq
  <2> QED
    BY <2>1, <2>2
<1>8. ASSUME NEW k \in T \cap Nat PROVE k + 1 \in T
  <2> SUFFICES ASSUME k + 1 <= n
               PROVE  q[k + 1] \in Seq(S) /\ p[(k + 1) + 1] = h \o q[k + 1]
    OBVIOUS
  <2>1. PICK u \in Seq(S) : u = q[k] /\ p[k + 1] = h \o u
    <3>1. k <= n
      OBVIOUS
    <3>2. q[k] \in Seq(S) /\ p[k + 1] = h \o q[k]
      BY <3>1
    <3> HIDE DEF T
    <3> QED
      BY <3>2
  <2>2. PICK y \in S : y = t[k + 1] /\ y = s[(k + 1) + 1]
    BY <1>2, <1>3
  <2>3. k \in 0..(n - 1) /\ k + 1 \in 0..n
    OBVIOUS
  <2>4. q[k + 1] = ParsePort(u, y) /\ p[(k + 1) + 1] = ParsePort(h \o u, y)
    BY <1>4, <1>5, <2>1, <2>2, <2>3
  <2>5. Append(h \o u, y) = h \o Append(u, y) /\ Append(u, y) \in Seq(S)
    <3>1. h \o u \in Seq(S) /\ <<y>> \in Seq(S) /\ Append(u, y) \in Seq(S)
      BY AppendProperties, ConcatProperties
    <3>2. Append(h \o u, y) = (h \o u) \o <<y>> /\ Append(u, y) = u \o <<y>>
      BY <3>1, AppendIsConcat
    <3>3. (h \o u) \o <<y>> = h \o (u \o <<y>>)
      BY <3>1, ConcatAssociative
    <3> QED
      BY <3>1, <3>2, <3>3
  <2> QED
    BY <2>1, <2>4, <2>5 DEF ParsePort
<1>9. Nat \subseteq T
  <2> HIDE DEF T
  <2> QED
    BY <1>7, <1>8, NatSetInduction
<1>10. p[n + 1] = h \o q[n]
  BY <1>2, <1>9
<1> QED
  BY <1>1, <1>4, <1>5, <1>6, <1>10

-----------------------------------------------------------------------------
(***************************************************************************)
(* The steps.                                                              *)
(***************************************************************************)

(* What has been computed so far is what ConfigOf computes at once.        *)
Computed ==
  /\ ann \in Pick
  /\ pc \in {"apply", "build", "done"}
  /\ pc = "apply" => c = newAnnotationValues
  /\ pc = "build" => c = applyAnnotationOverrides(newAnnotationValues, ann)
  /\ pc = "done" => out = ConfigOf(ann, gates)
  /\ pc # "apply" => warnings = Warnings(ann)

LEMMA ComputedHolds == Spec => []Computed
<1>1. Init => Computed
  BY DEF Init, Computed
<1>2. Computed /\ [Next]_vars => Computed'
  <2> SUFFICES ASSUME Computed, [Next]_vars PROVE Computed'
    OBVIOUS
  <2>1. CASE Apply
    BY <2>1 DEF Computed, Apply
  <2>2. CASE Build
    BY <2>2 DEF Computed, Build, ConfigOf
  <2>3. CASE UNCHANGED vars
    BY <2>3 DEF Computed, vars
  <2> QED
    BY <2>1, <2>2, <2>3 DEF Next
<1> QED
  BY <1>1, <1>2, PTL DEF Spec

-----------------------------------------------------------------------------
(* The annotations as the gates let them through.                          *)
Through(a, on) ==
  [a EXCEPT !.aggregators = IF "telegraf.aggregators" \in on THEN @ ELSE Unset,
            !.processors  = IF "telegraf.processors" \in on THEN @ ELSE Unset]

(* Only the two raw blocks differ in what is read from them.               *)
LEMMA ThroughReads ==
  ASSUME NEW v, NEW a \in Pick, NEW on,
         NEW x, x = applyAnnotationOverrides(v, a),
         NEW y, y = applyAnnotationOverrides(v, Through(a, on))
  PROVE  /\ y.class = x.class /\ y.ports = x.ports /\ y.metricsPath = x.metricsPath
         /\ y.scheme = x.scheme /\ y.namepass = x.namepass
         /\ y.metricVersion = x.metricVersion /\ y.interval = x.interval
         /\ y.enableInternal = x.enableInternal /\ y.rawInput = x.rawInput
         /\ y.globalTags = x.globalTags
         /\ x.rawAggregators = Override(v.rawAggregators, a.aggregators)
         /\ y.rawAggregators = Override(v.rawAggregators,
              IF "telegraf.aggregators" \in on THEN a.aggregators ELSE Unset)
         /\ x.rawProcessors = Override(v.rawProcessors, a.processors)
         /\ y.rawProcessors = Override(v.rawProcessors,
              IF "telegraf.processors" \in on THEN a.processors ELSE Unset)
<1> DEFINE b == Through(a, on)
<1>1. DOMAIN a = {"class", "port", "ports", "path", "scheme", "namepass", "version", "interval",
                  "internal", "inputs", "aggregators", "processors", "tags"}
  BY ConfigAssumption DEF NoAnnotations
<1>2. /\ b.class = a.class /\ b.port = a.port /\ b.ports = a.ports /\ b.path = a.path
      /\ b.scheme = a.scheme /\ b.namepass = a.namepass /\ b.version = a.version
      /\ b.interval = a.interval /\ b.internal = a.internal /\ b.inputs = a.inputs
      /\ b.tags = a.tags
      /\ b.aggregators = IF "telegraf.aggregators" \in on THEN a.aggregators ELSE Unset
      /\ b.processors = IF "telegraf.processors" \in on THEN a.processors ELSE Unset
  BY <1>1 DEF Through
<1>3. y = applyAnnotationOverrides(v, b)
  OBVIOUS
<1> HIDE DEF b
<1>4. PortTexts(b) = PortTexts(a)
  BY <1>2 DEF PortTexts
<1>5. /\ y.class = x.class /\ y.metricsPath = x.metricsPath /\ y.scheme = x.scheme
      /\ y.namepass = x.namepass /\ y.metricVersion = x.metricVersion
      /\ y.interval = x.interval /\ y.rawInput = x.rawInput /\ y.globalTags = x.globalTags
      /\ x.rawAggregators = Override(v.rawAggregators, a.aggregators)
      /\ y.rawAggregators = Override(v.rawAggregators, b.aggregators)
      /\ x.rawProcessors = Override(v.rawProcessors, a.processors)
      /\ y.rawProcessors = Override(v.rawProcessors, b.processors)
  BY <1>2, <1>3 DEF applyAnnotationOverrides
<1>6. /\ applyAnnotationOverrides(v, a).ports = v.ports \o Ports(PortTexts(a))
      /\ applyAnnotationOverrides(v, b).ports = v.ports \o Ports(PortTexts(b))
  BY Zenon DEF applyAnnotationOverrides
<1>7. /\ applyAnnotationOverrides(v, a).enableInternal
           = (v.enableInternal \/ a.internal \notin {Unset, Blank})
      /\ applyAnnotationOverrides(v, b).enableInternal
           = (v.enableInternal \/ b.internal \notin {Unset, Blank})
  BY Zenon DEF applyAnnotationOverrides
<1>8. y.ports = x.ports
  BY <1>3, <1>4, <1>6, Zenon
<1>9. y.enableInternal = x.enableInternal
  BY <1>2, <1>3, <1>7, Zenon
<1> QED
  BY <1>2, <1>5, <1>8, <1>9

(* The configuration is built from these fields and the two gated blocks.  *)
LEMMA BuildReads ==
  ASSUME NEW x, NEW y, NEW on, NEW every,
         y.class = x.class, y.ports = x.ports, y.metricsPath = x.metricsPath,
         y.scheme = x.scheme, y.namepass = x.namepass, y.metricVersion = x.metricVersion,
         y.interval = x.interval, y.enableInternal = x.enableInternal,
         y.rawInput = x.rawInput, y.globalTags = x.globalTags,
         Gated("telegraf.aggregators", on, x.rawAggregators)
           = Gated("telegraf.aggregators", every, y.rawAggregators),
         Gated("telegraf.processors", on, x.rawProcessors)
           = Gated("telegraf.processors", every, y.rawProcessors)
  PROVE  buildConfigData(x, on) = buildConfigData(y, every)
<1>1. prometheusInput(x) = prometheusInput(y)
  BY DEF prometheusInput
<1>2. Generated(x) = Generated(y)
  BY <1>1, Zenon DEF Generated
<1> QED
  BY <1>2, Zenon DEF buildConfigData

(* For all annotations, classes and gates: a raw block behind a gate that  *)
(* is off has no effect on the configuration, not even on whether it fails.*)
THEOREM GatesAlwaysHonoured == Spec => []GatesAreHonoured
<1>1. Computed => GatesAreHonoured
  <2> SUFFICES ASSUME Computed, pc = "done"
               PROVE  ConfigOf(ann, gates) = ConfigOf(Through(ann, gates), Gates)
    BY DEF Computed, GatesAreHonoured, Through
  <2> DEFINE x == applyAnnotationOverrides(newAnnotationValues, ann)
             y == applyAnnotationOverrides(newAnnotationValues, Through(ann, gates))
  <2>1. ann \in Pick /\ x = applyAnnotationOverrides(newAnnotationValues, ann)
        /\ y = applyAnnotationOverrides(newAnnotationValues, Through(ann, gates))
    BY DEF Computed
  <2>2. newAnnotationValues.rawAggregators = Blank /\ newAnnotationValues.rawProcessors = Blank
    BY DEF newAnnotationValues
  <2> HIDE DEF x, y
  <2>3. /\ y.class = x.class /\ y.ports = x.ports /\ y.metricsPath = x.metricsPath
        /\ y.scheme = x.scheme /\ y.namepass = x.namepass
        /\ y.metricVersion = x.metricVersion /\ y.interval = x.interval
        /\ y.enableInternal = x.enableInternal /\ y.rawInput = x.rawInput
        /\ y.globalTags = x.globalTags
        /\ x.rawAggregators = Override(Blank, ann.aggregators)
        /\ y.rawAggregators = Override(Blank,
             IF "telegraf.aggregators" \in gates THEN ann.aggregators ELSE Unset)
        /\ x.rawProcessors = Override(Blank, ann.processors)
        /\ y.rawProcessors = Override(Blank,
             IF "telegraf.processors" \in gates THEN ann.processors ELSE Unset)
    BY <2>1, <2>2, ThroughReads
  <2>4. /\ Gated("telegraf.aggregators", gates, x.rawAggregators)
             = Gated("telegraf.aggregators", Gates, y.rawAggregators)
        /\ Gated("telegraf.processors", gates, x.rawProcessors)
             = Gated("telegraf.processors", Gates, y.rawProcessors)
    BY <2>3 DEF Gated, Gates, Override
  <2>5. buildConfigData(x, gates) = buildConfigData(y, Gates)
    BY <2>3, <2>4, BuildReads
  <2> QED
    BY <2>5 DEF ConfigOf, x, y
<1> QED
  BY <1>1, ComputedHolds, PTL

-----------------------------------------------------------------------------
(***************************************************************************)
(* Values that do not parse.                                               *)
(***************************************************************************)

(* The annotations without them, field by field.                           *)
LEMMA WellFormedReads ==
  ASSUME NEW a \in Pick, NEW w, w = WellFormed(a)
  PROVE  /\ w.class = a.class /\ w.path = a.path /\ w.scheme = a.scheme
         /\ w.namepass = a.namepass /\ w.internal = a.internal /\ w.inputs = a.inputs
         /\ w.aggregators = a.aggregators /\ w.processors = a.processors /\ w.tags = a.tags
         /\ w.port = IF a.port # Unset /\ ParsesInt16(a.port) THEN a.port ELSE Unset
         /\ w.ports = IF a.ports = Unset THEN Unset ELSE Parsed(a.ports)
         /\ w.version = IF a.version \in {Unset, Blank, Junk} THEN Unset
                        ELSE IF a.version \in 0..255 THEN a.version ELSE Unset
         /\ w.interval = IF a.interval \in {Blank, Junk} THEN Unset ELSE a.interval
         /\ w = a <=> /\ w.port = a.port /\ w.ports = a.ports
                      /\ w.version = a.version /\ w.interval = a.interval
<1>1. DOMAIN a = {"class", "port", "ports", "path", "scheme", "namepass", "version", "interval",
                  "internal", "inputs", "aggregators", "processors", "tags"}
  BY ConfigAssumption DEF NoAnnotations
<1>2. PICK port, ports, version, interval :
        /\ port = IF a.port # Unset /\ ParsesInt16(a.port) THEN a.port ELSE Unset
        /\ ports = IF a.ports = Unset THEN Unset ELSE Parsed(a.ports)
        /\ version = IF a.version \in {Unset, Blank, Junk} THEN Unset
                     ELSE IF a.version \in 0..255 THEN a.version ELSE Unset
        /\ interval = IF a.interval \in {Blank, Junk} THEN Unset ELSE a.interval
  OBVIOUS
<1>3. w = [a EXCEPT !.port = port, !.ports = ports, !.version = version, !.interval = interval]
  BY <1>2, Zenon DEF WellFormed
<1>4. /\ w.class = a.class /\ w.path = a.path /\ w.scheme = a.scheme
      /\ w.namepass = a.namepass /\ w.internal = a.internal /\ w.inputs = a.inputs
      /\ w.aggregators = a.aggregators /\ w.processors = a.processors /\ w.tags = a.tags
      /\ w.port = port /\ w.ports = ports /\ w.version = version /\ w.interval = interval
  BY <1>1, <1>3
<1>5. w = a <=> w.port = a.port /\ w.ports = a.ports /\ w.version = a.version
                /\ w.interval = a.interval
  <2>1. ASSUME w.port = a.port, w.ports = a.ports, w.version = a.version,
               w.interval = a.interval
        PROVE  w = a
    <3>1. \A x \in DOMAIN a : w[x] = a[x]
      BY <1>1, <1>4, <2>1
    <3>2. DOMAIN w = DOMAIN a /\ w = [x \in DOMAIN a |-> w[x]]
      BY <1>3
    <3>3. a = [x \in DOMAIN a |-> a[x]]
      BY ConfigAssumption
    <3> QED
      BY <3>1, <3>2, <3>3
  <2> QED
    BY <2>1
<1> QED
  BY <1>2, <1>4, <1>5

(* The texts of the ports, without those that do not parse.                *)
LEMMA PortTextsWellFormed ==
  ASSUME NEW a \in Pick, NEW w, w = WellFormed(a)
  PROVE  /\ \E S : PortTexts(a) \in Seq(S)
         /\ PortTexts(w) = Parsed(PortTexts(a))
<1>1. PICK port, ports : port = a.port /\ ports = a.ports
  OBVIOUS
<1>2. PICK S : port \in S /\ (ports # Unset => ports \in Seq(S))
  <2>1. ports # Unset => ports \in Seq({ports[i] : i \in DOMAIN ports})
    BY <1>1, ConfigAssumption
  <2>2. ports # Unset => ports \in Seq({port} \cup {ports[i] : i \in DOMAIN ports})
    BY <2>1, SeqMonotonic
  <2>3. port \in {port} \cup {ports[i] : i \in DOMAIN ports}
    OBVIOUS
  <2> QED
    BY <2>2, <2>3
<1>3. PICK t \in Seq(S) : t = IF ports = Unset THEN <<>> ELSE ports
  <2>1. <<>> \in Seq(S)
    OBVIOUS
  <2> QED
    BY <1>2, <2>1
<1>4. <<port>> \in Seq(S) /\ <<port>> \o t \in Seq(S) /\ <<>> \o t = t
  BY <1>2, ConcatProperties, ConcatEmptySeq
<1>5. PortTexts(a) = IF port = Unset THEN t ELSE <<port>> \o t
  BY <1>1, <1>3, <1>4 DEF PortTexts
<1>6. Parsed(t) \in Seq(S) /\ Parsed(<<>>) = <<>>
  <2>1. Kept(Parsed(t), S, t, Len(t))
    BY ParsedKeeps
  <2>2. Len(<<>>) = 0 /\ <<>> \in Seq(S) /\ 1..0 = {}
    OBVIOUS
  <2>3. Parsed(<<>>) = <<>>
    BY <2>2, AllKept
  <2> QED
    BY <2>1, <2>3 DEF Kept
<1>7. /\ w.port = IF port # Unset /\ ParsesInt16(port) THEN port ELSE Unset
      /\ w.ports = IF ports = Unset THEN Unset ELSE Parsed(ports)
  BY <1>1, WellFormedReads
<1>8. ports # Unset => Parsed(ports) # Unset
  <2> SUFFICES ASSUME ports # Unset PROVE Parsed(ports) # Unset
    OBVIOUS
  <2>1. PICK R : ports \in Seq(R) /\ Unset \notin Seq(R)
    BY <1>1, ConfigAssumption
  <2>2. Kept(Parsed(ports), R, ports, Len(ports))
    BY <2>1, ParsedKeeps
  <2> QED
    BY <2>1, <2>2 DEF Kept
<1>9. (IF w.ports = Unset THEN <<>> ELSE w.ports) = Parsed(t)
  BY <1>3, <1>6, <1>7, <1>8
<1>10. PortTexts(w) = (IF w.port = Unset THEN <<>> ELSE <<w.port>>) \o Parsed(t)
  BY <1>9, Zenon DEF PortTexts
<1>11. <<>> \o Parsed(t) = Parsed(t)
  BY <1>6, ConcatEmptySeq
<1>12. CASE port = Unset
  BY <1>4, <1>5, <1>7, <1>10, <1>11, <1>12
<1>13. CASE port # Unset
  <2>1. PortTexts(a) = <<port>> \o t
    BY <1>5, <1>13
  <2>2. Parsed(<<port>> \o t) = ParsePort(<<>>, port) \o Parsed(t)
    BY <1>2, ParsedFirst
  <2>3. Append(<<>>, port) = <<port>>
    OBVIOUS
  <2>4. ParsePort(<<>>, port) = IF ParsesInt16(port) THEN <<port>> ELSE <<>>
    BY <2>3 DEF ParsePort
  <2>5. PortTexts(w) = ParsePort(<<>>, port) \o Parsed(t)
    BY <1>7, <1>10, <1>13, <2>4
  <2> QED
    BY <1>4, <2>1, <2>2, <2>5
<1> QED
  BY <1>12, <1>13

(* The same is read from them.                                             *)
LEMMA WellFormedSame ==
  ASSUME NEW v, NEW a \in Pick, NEW w, w = WellFormed(a)
  PROVE  applyAnnotationOverrides(v, w) = applyAnnotationOverrides(v, a)
<1>1. Ports(PortTexts(w)) = Ports(PortTexts(a))
  <2>1. PICK S : PortTexts(a) \in Seq(S)
    BY PortTextsWellFormed
  <2>2. PICK t : t = PortTexts(a) /\ PortTexts(w) = Parsed(t)
    BY PortTextsWellFormed
  <2>3. Kept(Parsed(t), S, t, Len(t))
    BY <2>1, <2>2, ParsedKeeps
  <2>4. Parsed(Parsed(t)) = Parsed(t)
    BY <2>3, AllKept DEF Kept
  <2> QED
    BY <2>2, <2>4 DEF Ports
<1>2. /\ w.class = a.class /\ w.path = a.path /\ w.scheme = a.scheme
      /\ w.namepass = a.namepass /\ w.internal = a.internal /\ w.inputs = a.inputs
      /\ w.aggregators = a.aggregators /\ w.processors = a.processors /\ w.tags = a.tags
      /\ w.version = IF a.version \in {Unset, Blank, Junk} THEN Unset
                     ELSE IF a.version \in 0..255 THEN a.version ELSE Unset
      /\ w.interval = IF a.interval \in {Blank, Junk} THEN Unset ELSE a.interval
  BY WellFormedReads
<1> DEFINE Version(x) == IF x.version # Unset /\ ParsesUint8(x.version)
                         THEN x.version ELSE v.metricVersion
           Interval(x) == IF x.interval \in {Unset, Junk, Blank} THEN v.interval ELSE x.interval
           Values(class, ports, path, scheme, namepass, version, interval, internal, input, agg,
                  proc, tags) ==
             [class |-> class, ports |-> ports, metricsPath |-> path, scheme |-> scheme,
              namepass |-> namepass, metricVersion |-> version, interval |-> interval,
              enableInternal |-> internal, rawInput |-> input, rawAggregators |-> agg,
              rawProcessors |-> proc, globalTags |-> tags]
           Applied(x) ==
             Values(Override(v.class, x.class), v.ports \o Ports(PortTexts(x)),
                    Override(v.metricsPath, x.path), Override(v.scheme, x.scheme),
                    Override(v.namepass, x.namepass), Version(x), Interval(x),
                    v.enableInternal \/ x.internal \notin {Unset, Blank},
                    Override(v.rawInput, x.inputs), Override(v.rawAggregators, x.aggregators),
                    Override(v.rawProcessors, x.processors), x.tags)
<1>3. Version(w) = Version(a) /\ Interval(w) = Interval(a)
  BY <1>2, ConfigAssumption DEF ParsesUint8
<1>4. applyAnnotationOverrides(v, w) = Applied(w) /\ applyAnnotationOverrides(v, a) = Applied(a)
  BY Zenon DEF applyAnnotationOverrides
<1> HIDE DEF Version, Interval, Values
<1>5. Applied(w) = Applied(a)
  BY <1>1, <1>2, <1>3, Zenon
<1> QED
  BY <1>4, <1>5

(* There is a warning exactly when something is left out or deprecated.    *)
LEMMA WarningsTell ==
  ASSUME NEW a \in Pick, NEW w, w = WellFormed(a)
  PROVE  Warnings(a) = {} <=> w = a /\ a.port = Unset
<1>1. /\ w.port = IF a.port # Unset /\ ParsesInt16(a.port) THEN a.port ELSE Unset
      /\ w.ports = IF a.ports = Unset THEN Unset ELSE Parsed(a.ports)
      /\ w.version = IF a.version \in {Unset, Blank, Junk} THEN Unset
                     ELSE IF a.version \in 0..255 THEN a.version ELSE Unset
      /\ w.interval = IF a.interval \in {Blank, Junk} THEN Unset ELSE a.interval
      /\ w = a <=> /\ w.port = a.port /\ w.ports = a.ports
                   /\ w.version = a.version /\ w.interval = a.interval
  BY WellFormedReads
<1>2. Warnings(a) = {} <=>
        /\ a.port = Unset
        /\ \A i \in DOMAIN PortTexts(a) : ParsesInt16(PortTexts(a)[i])
        /\ ~(a.version # Unset /\ ~ParsesUint8(a.version))
        /\ a.interval \notin {Junk, Blank}
  BY DEF Warnings
<1>3. a.version # Unset /\ ~ParsesUint8(a.version) <=> w.version # a.version
  BY <1>1, ConfigAssumption DEF ParsesUint8
<1>4. a.interval \notin {Junk, Blank} <=> w.interval = a.interval
  BY <1>1, ConfigAssumption
<1>5. ASSUME a.port = Unset
      PROVE  (\A i \in DOMAIN PortTexts(a) : ParsesInt16(PortTexts(a)[i])) <=> w.ports = a.ports
  <2>1. CASE a.ports = Unset
    <3>1. PortTexts(a) = <<>> \o <<>>
      BY <1>5, <2>1 DEF PortTexts
    <3>2. DOMAIN PortTexts(a) = {}
      BY <3>1
    <3> QED
      BY <1>1, <2>1, <3>2
  <2>2. CASE a.ports # Unset
    <3>1. PICK t : t = a.ports
      OBVIOUS
    <3>2. PICK S : t \in Seq(S)
      BY <2>2, <3>1, ConfigAssumption
    <3>3. PortTexts(a) = t /\ DOMAIN t = 1..Len(t)
      BY <1>5, <2>2, <3>1, <3>2, ConcatEmptySeq DEF PortTexts
    <3>4. Kept(Parsed(t), S, t, Len(t))
      BY <3>2, ParsedKeeps
    <3>5. (\A i \in 1..Len(t) : ParsesInt16(t[i])) => Parsed(t) = t
      BY <3>2, AllKept
    <3>6. Parsed(t) = t => \A i \in 1..Len(t) : ParsesInt16(t[i])
      BY <3>4 DEF Kept
    <3> QED
      BY <1>1, <2>2, <3>1, <3>3, <3>5, <3>6
  <2> QED
    BY <2>1, <2>2
<1> QED
  BY <1>1, <1>2, <1>3, <1>4, <1>5

(* For all annotations, classes and gates, and lists of ports of any       *)
(* length: what does not parse is left out, with a warning, and nothing    *)
(* else about the configuration changes.                                   *)
THEOREM InvalidValuesAlwaysIgnored == Spec => []InvalidValuesAreIgnored
<1>1. Computed => InvalidValuesAreIgnored
  <2> SUFFICES ASSUME Computed, pc = "done"
               PROVE  /\ out = ConfigOf(WellFormed(ann), gates)
                      /\ (warnings = {}) = (WellFormed(ann) = ann /\ ann.port = Unset)
    BY DEF InvalidValuesAreIgnored
  <2>1. ann \in Pick /\ out = ConfigOf(ann, gates) /\ warnings = Warnings(ann)
    BY DEF Computed
  <2>2. applyAnnotationOverrides(newAnnotationValues, WellFormed(ann))
        = applyAnnotationOverrides(newAnnotationValues, ann)
    BY <2>1, WellFormedSame
  <2>3. ConfigOf(WellFormed(ann), gates) = ConfigOf(ann, gates)
    BY <2>2 DEF ConfigOf
  <2>4. Warnings(ann) = {} <=> WellFormed(ann) = ann /\ ann.port = Unset
    BY <2>1, WarningsTell
  <2> QED
    BY <2>1, <2>3, <2>4
<1> QED
  BY <1>1, ComputedHolds, PTL

-----------------------------------------------------------------------------
(***************************************************************************)
(* Who wins.                                                               *)
(***************************************************************************)

(* The inputs of a configuration that was built.                           *)
LEMMA BuiltInputs ==
  ASSUME NEW v, NEW on, NEW r, r = buildConfigData(v, on), r.err = "none"
  PROVE  r.inputs = Merge(Merge(Named(Classes[v.class].inputs, <<"class">>), Generated(v)),
                          Block(v.rawInput))
<1>1. \A why : Failed(why).err = why
  BY DEF Failed
<1> QED
  BY <1>1 DEF buildConfigData

(* What merging keeps.                                                     *)
LEMMA MergeKeeps ==
  ASSUME NEW f, NEW g
  PROVE  /\ DOMAIN Merge(f, g) = DOMAIN f \cup DOMAIN g
         /\ \A k \in DOMAIN Merge(f, g) :
              Merge(f, g)[k] = IF k \in DOMAIN g THEN g[k] ELSE f[k]
BY DEF Merge

LEMMA NamedSays ==
  ASSUME NEW keys, NEW x, NEW f, f = Named(keys, x)
  PROVE  DOMAIN f = keys /\ \A k \in keys : f[k] = x
BY DEF Named

(* For all annotations and classes: the raw block wins over what the       *)
(* operator generates, that over the class, and nothing gets lost.         *)
THEOREM InputsAlwaysPrecede == Spec => []InputsPrecedence
<1>1. Computed => InputsPrecedence
  <2> DEFINE raw == IF ann.inputs \in {Unset, Blank} THEN {} ELSE ann.inputs
             class == Classes[Override(DefaultClass, ann.class)].inputs
             prometheus == IF \E i \in DOMAIN PortTexts(ann) : ParsesInt16(PortTexts(ann)[i])
                           THEN {"prometheus"} ELSE {}
             internal == IF EnableInternal \/ ann.internal \notin {Unset, Blank}
                         THEN {"internal"} ELSE {}
             own == prometheus \cup internal
  <2> SUFFICES ASSUME Computed, pc = "done", out.err = "none"
               PROVE  /\ DOMAIN out.inputs = raw \cup class \cup own
                      /\ \A k \in DOMAIN out.inputs :
                           out.inputs[k][1] = IF k \in raw THEN "raw"
                                              ELSE IF k \in own THEN k ELSE "class"
    BY Zenon DEF InputsPrecedence
  <2>1. PICK v : v = applyAnnotationOverrides(newAnnotationValues, ann)
    OBVIOUS
  <2>2. ann \in Pick /\ out = buildConfigData(v, gates)
    BY <2>1 DEF Computed, ConfigOf
  <2>3. PICK f, g, b : /\ f = Named(class, <<"class">>) /\ g = Generated(v)
                       /\ b = Block(v.rawInput) /\ out.inputs = Merge(Merge(f, g), b)
    <3>1. v.class = Override(DefaultClass, ann.class)
      BY <2>1 DEF applyAnnotationOverrides, newAnnotationValues
    <3> QED
      BY <2>2, <3>1, BuiltInputs
  <2>4. DOMAIN f = class /\ \A k \in class : f[k] = <<"class">>
    BY <2>3, NamedSays
  <2>5. DOMAIN b = raw /\ \A k \in raw : b[k] = <<"raw">>
    <3>1. v.rawInput = Override(Blank, ann.inputs)
      BY <2>1 DEF applyAnnotationOverrides, newAnnotationValues
    <3>2. raw = IF v.rawInput = Blank THEN {} ELSE v.rawInput
      BY <3>1, ConfigAssumption DEF Override
    <3>3. b = Named(raw, <<"raw">>)
      BY <2>3, <3>2, Zenon DEF Block
    <3> HIDE DEF raw
    <3> QED
      BY <3>3, NamedSays
  <2>6. prometheus = IF v.ports = <<>> THEN {} ELSE {"prometheus"}
    <3>1. PICK t : t = PortTexts(ann)
      OBVIOUS
    <3>2. PICK S : t \in Seq(S)
      BY <2>2, <3>1, PortTextsWellFormed
    <3>3. newAnnotationValues.ports = <<>>
      BY DEF newAnnotationValues
    <3>4. v.ports = <<>> \o Ports(t)
      BY <2>1, <3>1, <3>3, Zenon DEF applyAnnotationOverrides
    <3>5. v.ports = <<>> <=> \A j \in 1..Len(t) : ~ParsesInt16(t[j])
      BY <3>2, <3>4, PortsAre
    <3>6. DOMAIN t = 1..Len(t)
      BY <3>2
    <3> QED
      BY <3>1, <3>5, <3>6
  <2>7. internal = IF v.enableInternal THEN {"internal"} ELSE {}
    <3>1. newAnnotationValues.enableInternal = EnableInternal
      BY DEF newAnnotationValues
    <3>2. v.enableInternal = (newAnnotationValues.enableInternal
                              \/ ann.internal \notin {Unset, Blank})
      BY <2>1, Zenon DEF applyAnnotationOverrides
    <3> QED
      BY <3>1, <3>2, Zenon
  <2>8. DOMAIN g = own /\ \A k \in own : g[k][1] = k
    <3>1. PICK x, y : x = Named(prometheus, prometheusInput(v)) /\ y = Named(internal, <<"internal">>)
      OBVIOUS
    <3>2. g = Merge(x, y)
      BY <2>3, <2>6, <2>7, <3>1, Zenon DEF Generated
    <3>3. /\ DOMAIN x = prometheus /\ \A k \in prometheus : x[k] = prometheusInput(v)
          /\ DOMAIN y = internal /\ \A k \in internal : y[k] = <<"internal">>
      <4> HIDE DEF prometheus, internal
      <4> QED
        BY <3>1, NamedSays
    <3>4. prometheusInput(v)[1] = "prometheus" /\ <<"internal">>[1] = "internal"
      BY DEF prometheusInput
    <3>5. /\ \A k \in prometheus : k = "prometheus"
          /\ \A k \in internal : k = "internal"
      OBVIOUS
    <3> HIDE DEF prometheus, internal
    <3>6. /\ DOMAIN g = prometheus \cup internal
          /\ \A k \in DOMAIN g : g[k] = IF k \in internal THEN y[k] ELSE x[k]
      <4>1. /\ DOMAIN Merge(x, y) = DOMAIN x \cup DOMAIN y
            /\ \A k \in DOMAIN Merge(x, y) :
                 Merge(x, y)[k] = IF k \in DOMAIN y THEN y[k] ELSE x[k]
        BY MergeKeeps
      <4> QED
        BY <3>2, <3>3, <4>1
    <3> QED
      BY <3>3, <3>4, <3>5, <3>6
  <2> HIDE DEF raw, class, own
  <2>9. PICK h : /\ h = Merge(f, g) /\ DOMAIN h = class \cup own
                 /\ \A k \in DOMAIN h : h[k] = IF k \in own THEN g[k] ELSE f[k]
    <3>1. /\ DOMAIN Merge(f, g) = DOMAIN f \cup DOMAIN g
          /\ \A k \in DOMAIN Merge(f, g) :
               Merge(f, g)[k] = IF k \in DOMAIN g THEN g[k] ELSE f[k]
      BY MergeKeeps
    <3> QED
      BY <2>4, <2>8, <3>1
  <2>10. /\ DOMAIN out.inputs = (class \cup own) \cup raw
         /\ \A k \in DOMAIN out.inputs : out.inputs[k] = IF k \in raw THEN b[k] ELSE h[k]
    <3>1. /\ DOMAIN Merge(h, b) = DOMAIN h \cup DOMAIN b
          /\ \A k \in DOMAIN Merge(h, b) :
               Merge(h, b)[k] = IF k \in DOMAIN b THEN b[k] ELSE h[k]
      BY MergeKeeps
    <3> QED
      BY <2>3, <2>5, <2>9, <3>1
  <2>11. <<"raw">>[1] = "raw" /\ <<"class">>[1] = "class"
    OBVIOUS
  <2> QED
    BY <2>4, <2>5, <2>8, <2>9, <2>10, <2>11
<1> QED
  BY <1>1, ComputedHolds, PTL

-----------------------------------------------------------------------------
(***************************************************************************)
(* The ports.                                                              *)
(***************************************************************************)

(* Three layers of plugins: the last that names one configures it.         *)
LEMMA Layers ==
  ASSUME NEW f, NEW g, NEW b, NEW k, k \in DOMAIN Merge(Merge(f, g), b)
  PROVE  \/ k \in DOMAIN b /\ Merge(Merge(f, g), b)[k] = b[k]
         \/ k \in DOMAIN g /\ Merge(Merge(f, g), b)[k] = g[k]
         \/ k \in DOMAIN f /\ Merge(Merge(f, g), b)[k] = f[k]
<1>1. PICK h : h = Merge(f, g)
  OBVIOUS
<1>2. /\ DOMAIN h = DOMAIN f \cup DOMAIN g
      /\ \A x \in DOMAIN h : h[x] = IF x \in DOMAIN g THEN g[x] ELSE f[x]
  BY <1>1 DEF Merge
<1>3. /\ DOMAIN Merge(h, b) = DOMAIN h \cup DOMAIN b
      /\ \A x \in DOMAIN Merge(h, b) : Merge(h, b)[x] = IF x \in DOMAIN b THEN b[x] ELSE h[x]
  BY DEF Merge
<1> QED
  BY <1>1, <1>2, <1>3

(* What the operator generates for the plugin.                             *)
LEMMA GeneratedPrometheus ==
  ASSUME NEW v, "prometheus" \in DOMAIN Generated(v)
  PROVE  Generated(v)["prometheus"] = prometheusInput(v)
<1>1. PICK own, more : /\ own = (IF v.ports = <<>> THEN {} ELSE {"prometheus"})
                       /\ more = (IF v.enableInternal THEN {"internal"} ELSE {})
  OBVIOUS
<1>2. Generated(v) = Merge(Named(own, prometheusInput(v)), Named(more, <<"internal">>))
  BY <1>1, Zenon DEF Generated
<1>3. "prometheus" \notin more
  BY <1>1
<1>4. PICK x : x = prometheusInput(v)
  OBVIOUS
<1>5. "prometheus" \in own
  BY <1>2, <1>3 DEF Merge, Named
<1>6. Merge(Named(own, x), Named(more, <<"internal">>))["prometheus"] = x
  BY <1>3, <1>5 DEF Merge, Named
<1> QED
  BY <1>2, <1>4, <1>6

(* A plugin that says it is the operator's is what the operator generates. *)
Built(r, v, on) == r = buildConfigData(v, on) /\ r.err = "none"

LEMMA OperatorsPlugin ==
  ASSUME NEW v, NEW on, NEW r, Built(r, v, on), Scrapes(r)
  PROVE  r.inputs["prometheus"] = prometheusInput(v)
<1>1. PICK f, g, b : /\ f = Named(Classes[v.class].inputs, <<"class">>) /\ g = Generated(v)
                     /\ b = Block(v.rawInput) /\ r.inputs = Merge(Merge(f, g), b)
  BY BuiltInputs DEF Built
<1>2. PICK m : m = Merge(Merge(f, g), b) /\ r.inputs = m
  BY <1>1
<1>3. "prometheus" \in DOMAIN m /\ m["prometheus"][1] = "prometheus"
  BY <1>2 DEF Scrapes
<1>4. \/ "prometheus" \in DOMAIN b /\ m["prometheus"] = b["prometheus"]
      \/ "prometheus" \in DOMAIN g /\ m["prometheus"] = g["prometheus"]
      \/ "prometheus" \in DOMAIN f /\ m["prometheus"] = f["prometheus"]
  BY <1>2, <1>3, Layers
<1>5. /\ \A x \in DOMAIN f : f[x] = <<"class">>
      /\ \A x \in DOMAIN b : b[x] = <<"raw">>
  BY <1>1 DEF Block, Named
<1>6. /\ <<"class">>[1] = "class" /\ <<"raw">>[1] = "raw"
  OBVIOUS
<1>7. "prometheus" \in DOMAIN g /\ m["prometheus"] = g["prometheus"]
  BY <1>3, <1>4, <1>5, <1>6
<1> QED
  BY <1>1, <1>2, <1>7, GeneratedPrometheus

(* The ports it scrapes are those of the annotations.                      *)
LEMMA ScrapedAre ==
  ASSUME NEW v, NEW l, l = v.ports
  PROVE  Scraped(prometheusInput(v)) = {l[i] : i \in DOMAIN l}
<1>1. PICK scheme, path : scheme = v.scheme /\ path = v.metricsPath
  OBVIOUS
<1>2. prometheusInput(v)[2].urls = [i \in DOMAIN l |-> <<scheme, l[i], path>>]
  BY <1>1 DEF prometheusInput
<1>3. PICK urls : urls = prometheusInput(v)[2].urls
  OBVIOUS
<1>4. DOMAIN urls = DOMAIN l /\ \A i \in DOMAIN l : urls[i][2] = l[i]
  BY <1>2, <1>3
<1>5. Scraped(prometheusInput(v)) = {urls[j][2] : j \in DOMAIN urls}
  BY <1>3 DEF Scraped
<1> QED
  BY <1>4, <1>5

(* The conversion to uint16 of what was read as an int16.                  *)
LEMMA Remainder ==
  ASSUME NEW x \in Int
  PROVE  \E d, r \in Int : 0 <= r /\ r < 65536 /\ r = x % 65536 /\ x = 65536 * d + r
<1> DEFINE d == x \div 65536
           r == x % 65536
<1>1. d \in Int /\ r \in Int /\ 0 <= r /\ r < 65536 /\ r = x % 65536 /\ x = 65536 * d + r
  OBVIOUS
<1> HIDE DEF d
<1> QED
  BY <1>1

LEMMA ReadsInt16 ==
  ASSUME NEW x \in Int16
  PROVE  x \in Int /\ -32768 <= x /\ x <= 32767
<1>1. PICK low \in Int, high \in Int : low = -32768 /\ high = 32767
  OBVIOUS
<1>2. x \in low..high
  BY <1>1 DEF Int16
<1>3. x \in Int /\ low <= x /\ x <= high
  BY <1>2
<1> QED
  BY <1>1, <1>3

LEMMA WrapsAround ==
  ASSUME NEW x \in Int16
  PROVE  x \in Int /\ uint16(x) = IF x < 0 THEN x + 65536 ELSE x
<1>1. x \in Int /\ -32768 <= x /\ x <= 32767
  BY ReadsInt16
<1>2. PICK d \in Int, r \in Int : 0 <= r /\ r < 65536 /\ r = x % 65536 /\ x = 65536 * d + r
  <2>1. x \in Int
    BY <1>1
  <2> QED
    BY <2>1, Remainder
<1>3. d = 0 \/ d = -1
  BY <1>1, <1>2
<1> QED
  BY <1>1, <1>2, <1>3 DEF uint16

LEMMA ScrapedPorts ==
  ASSUME NEW S, NEW t \in Seq(S), NEW l, l = <<>> \o Ports(t)
  PROVE  OfAsked({l[i] : i \in DOMAIN l}, Asked(t))
<1>1. /\ \A j \in 1..Len(t) : ParsesInt16(t[j]) => \E i \in DOMAIN l : l[i] = uint16(t[j])
      /\ \A i \in DOMAIN l : \E j \in 1..Len(t) : ParsesInt16(t[j]) /\ l[i] = uint16(t[j])
  BY PortsAre
<1>2. DOMAIN t = 1..Len(t)
  OBVIOUS
<1>3. PICK ports : ports = {l[i] : i \in DOMAIN l}
  OBVIOUS
<1>4. PICK asked : asked = Asked(t)
  OBVIOUS
<1>5. /\ \A i \in DOMAIN l : l[i] \in ports
      /\ \A p \in ports : \E i \in DOMAIN l : p = l[i]
  BY <1>3
<1>6. /\ \A n \in asked : \E j \in 1..Len(t) : n = t[j] /\ t[j] \notin {Junk, Blank}
      /\ \A j \in 1..Len(t) : ParsesInt16(t[j]) => t[j] \in asked
  BY <1>2, <1>4 DEF Asked, ParsesInt16
<1>7. ASSUME NEW n \in asked, n \in Int16, n >= 0 PROVE n \in ports
  <2>1. PICK j \in 1..Len(t) : n = t[j] /\ ParsesInt16(t[j])
    BY <1>6, <1>7 DEF ParsesInt16
  <2>2. uint16(n) = n
    BY <1>7, WrapsAround
  <2> QED
    BY <1>1, <1>5, <2>1, <2>2
<1>8. ASSUME NEW p \in ports PROVE p \in asked \/ p - 65536 \in asked
  <2>1. PICK j \in 1..Len(t) : ParsesInt16(t[j]) /\ p = uint16(t[j])
    BY <1>1, <1>5
  <2>2. PICK n : n = t[j]
    OBVIOUS
  <2>3. n \in Int16 /\ n \in asked /\ p = uint16(n)
    BY <1>6, <2>1, <2>2 DEF ParsesInt16
  <2>4. n \in Int /\ uint16(n) = IF n < 0 THEN n + 65536 ELSE n
    BY <2>3, WrapsAround
  <2>5. p = n \/ p - 65536 = n
    BY <2>3, <2>4
  <2> QED
    BY <2>3, <2>5
<1>9. OfAsked(ports, asked)
  BY <1>7, <1>8 DEF OfAsked
<1> QED
  BY <1>3, <1>4, <1>9

(* For annotations with lists of ports of any length: the plugin scrapes   *)
(* each port up to 32767 that is asked for, and no other, but for negative *)
(* numbers that wrap around.                                               *)
THEOREM ParsedPortsAlwaysScraped == Spec => []ParsedPortsAreScraped
<1>1. Computed => ParsedPortsAreScraped
  <2> SUFFICES ASSUME Computed, pc = "done", out.err = "none", Scrapes(out)
               PROVE  OfAsked(Scraped(out.inputs["prometheus"]), Asked(PortTexts(ann)))
    BY DEF ParsedPortsAreScraped
  <2>1. PICK v : v = applyAnnotationOverrides(newAnnotationValues, ann)
    OBVIOUS
  <2>2. ann \in Pick /\ Built(out, v, gates)
    BY <2>1 DEF Computed, ConfigOf, Built
  <2>3. PICK l : l = v.ports
    OBVIOUS
  <2>4. out.inputs["prometheus"] = prometheusInput(v)
    BY <2>2, OperatorsPlugin
  <2>5. Scraped(prometheusInput(v)) = {l[i] : i \in DOMAIN l}
    BY <2>3, ScrapedAre
  <2>6. PICK t, S : t = PortTexts(ann) /\ t \in Seq(S)
    BY <2>2, PortTextsWellFormed
  <2>7. l = <<>> \o Ports(t)
    <3>1. newAnnotationValues.ports = <<>>
      BY DEF newAnnotationValues
    <3> QED
      BY <2>1, <2>3, <2>6, <3>1, Zenon DEF applyAnnotationOverrides
  <2>8. OfAsked({l[i] : i \in DOMAIN l}, Asked(t))
    BY <2>6, <2>7, ScrapedPorts
  <2> QED
    BY <2>4, <2>5, <2>6, <2>8
<1> QED
  BY <1>1, ComputedHolds, PTL

=============================================================================
