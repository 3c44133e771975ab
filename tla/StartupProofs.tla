---------------------------- MODULE StartupProofs ----------------------------
(***************************************************************************)
(* Proofs about Startup: what a loop over a list of gates computes, and    *)
(* what a process that read its command line argument by argument knows.   *)
(***************************************************************************)
EXTENDS Startup, Induction, FiniteSetTheorems, SequenceTheorems

-----------------------------------------------------------------------------
(***************************************************************************)
(* The loop over a list of gates.                                          *)
(***************************************************************************)

(* The registry after each of the items.                                   *)
Runs(r, g, items, n) ==
  r = [i \in 0..n |-> IF i = 0 THEN [gates |-> g, errs |-> {}] ELSE SetItem(r[i - 1], items[i])]

LEMMA RunExists ==
  ASSUME NEW g, NEW items, NEW n \in Nat
  PROVE  \E r : Runs(r, g, items, n)
<1> DEFINE S == {k \in Nat : \E r : Runs(r, g, items, k)}
<1>1. 0 \in S
  <2>1. Runs([i \in 0..0 |-> [gates |-> g, errs |-> {}]], g, items, 0)
    BY DEF Runs
  <2> QED
    BY <2>1
<1>2. ASSUME NEW k \in S \cap Nat PROVE k + 1 \in S
  <2>1. PICK r : Runs(r, g, items, k)
    OBVIOUS
  <2> DEFINE q == [i \in 0..(k + 1) |-> IF i <= k THEN r[i] ELSE SetItem(r[k], items[i])]
             e(i) == IF i = 0 THEN [gates |-> g, errs |-> {}] ELSE SetItem(q[i - 1], items[i])
  <2>2. ASSUME NEW i \in 0..(k + 1) PROVE q[i] = e(i)
    <3>1. CASE i = 0
      BY <2>1, <3>1 DEF Runs
    <3>2. CASE i \in 1..k
      <4>1. q[i] = r[i] /\ q[i - 1] = r[i - 1] /\ i \in 0..k /\ i # 0
        BY <3>2
      <4>2. r[i] = SetItem(r[i - 1], items[i])
        BY <2>1, <4>1 DEF Runs
      <4> QED
        BY <4>1, <4>2
    <3>3. CASE i = k + 1
      <4>1. q[i] = SetItem(r[k], items[i]) /\ q[i - 1] = r[k] /\ i # 0
        BY <3>3
      <4> QED
        BY <4>1
    <3> QED
      BY <3>1, <3>2, <3>3
  <2>3. q = [i \in 0..(k + 1) |-> e(i)]
    BY <2>2
  <2>4. Runs(q, g, items, k + 1)
    BY <2>3 DEF Runs
  <2> HIDE DEF q
  <2> QED
    BY <2>4
<1>3. Nat \subseteq S
  <2> HIDE DEF S
  <2> QED
    BY <1>1, <1>2, NatSetInduction
<1> QED
  BY <1>3

(* SetGates is the last of them.                                           *)
LEMMA SetGatesRuns ==
  ASSUME NEW g, NEW items, Len(items) \in Nat
  PROVE  \E r : Runs(r, g, items, Len(items)) /\ SetGates(g, items) = r[Len(items)]
<1> DEFINE r == CHOOSE q : Runs(q, g, items, Len(items))
<1>1. Runs(r, g, items, Len(items))
  BY RunExists
<1>2. SetGates(g, items) = r[Len(items)]
  BY DEF SetGates, Runs
<1> QED
  BY <1>1, <1>2

(* The last of the first n items that names gate x has no minus sign.      *)
Names(items, n, x) == {j \in 1..n : items[j].name = x}
ListSays(items, n, x) ==
  \E j \in Names(items, n, x) :
    items[j].sign # "-" /\ \A k \in Names(items, n, x) : k <= j

(* The registry after n items: each gate as the list says last, or as it   *)
(* was, and an error exactly where a gate is unknown.                      *)
AfterItems(q, g, items, n) ==
  /\ q = [gates |-> q.gates, errs |-> q.errs]
  /\ q.gates \in [Gates -> BOOLEAN]
  /\ \A x \in Gates : Names(items, n, x) = {} => q.gates[x] = g[x]
  /\ \A x \in Gates : Names(items, n, x) # {} => (q.gates[x] <=> ListSays(items, n, x))
  /\ q.errs = {} <=> \A j \in 1..n : Known(items[j])

(* One item more.                                                          *)
LEMMA ItemStep ==
  ASSUME NEW g, NEW items, NEW n \in Nat, NEW q, AfterItems(q, g, items, n)
  PROVE  AfterItems(SetItem(q, items[n + 1]), g, items, n + 1)
<1> DEFINE item == items[n + 1]
           s == SetItem(q, item)
<1>1. /\ q = [gates |-> q.gates, errs |-> q.errs]
      /\ q.gates \in [Gates -> BOOLEAN] /\ DOMAIN q.gates = Gates
  BY DEF AfterItems
<1>2. 1..(n + 1) = (1..n) \cup {n + 1}
  OBVIOUS
<1>3. ASSUME NEW x, x # item.name
      PROVE  /\ Names(items, n + 1, x) = Names(items, n, x)
             /\ ListSays(items, n + 1, x) <=> ListSays(items, n, x)
  <2>1. Names(items, n + 1, x) = Names(items, n, x)
    BY <1>2, <1>3 DEF Names
  <2> QED
    BY <2>1 DEF ListSays
<1>4. /\ n + 1 \in Names(items, n + 1, item.name)
      /\ ListSays(items, n + 1, item.name) <=> item.sign # "-"
  <2>1. n + 1 \in Names(items, n + 1, item.name)
        /\ \A k \in Names(items, n + 1, item.name) : k \in 1..(n + 1)
    BY DEF Names
  <2>2. ASSUME NEW j \in Names(items, n + 1, item.name),
               \A k \in Names(items, n + 1, item.name) : k <= j
        PROVE  j = n + 1
    BY <2>1, <2>2
  <2> QED
    BY <2>1, <2>2 DEF ListSays
<1>5. (\A j \in 1..(n + 1) : Known(items[j])) <=> (\A j \in 1..n : Known(items[j])) /\ Known(item)
  BY <1>2
<1>6. CASE item.sign = "" /\ item.name = Blank
  <2>1. s = q /\ Known(item) /\ item.name \notin Gates
    BY <1>6, StartupAssumption DEF SetItem, Known
  <2> HIDE DEF s, item
  <2> QED
    BY <1>3, <1>5, <2>1 DEF AfterItems, s, item
<1>7. CASE ~(item.sign = "" /\ item.name = Blank) /\ item.name \notin Gates
  <2>1. s = [q EXCEPT !.errs = @ \cup {item.name}]
    BY <1>1, <1>7 DEF SetItem, Set
  <2>2. ~Known(item)
    BY <1>7 DEF Known
  <2> HIDE DEF s, item
  <2>3. s.gates = q.gates /\ s.errs # {} /\ s = [gates |-> s.gates, errs |-> s.errs]
    BY <1>1, <2>1
  <2> QED
    BY <1>3, <1>5, <1>7, <2>2, <2>3 DEF AfterItems, s, item
<1>8. CASE ~(item.sign = "" /\ item.name = Blank) /\ item.name \in Gates
  <2> DEFINE enabled == item.sign # "-"
  <2>1. s = [q EXCEPT !.gates[item.name] = enabled]
    BY <1>1, <1>8 DEF SetItem, Set
  <2>2. Known(item)
    BY <1>8 DEF Known
  <2>3. enabled \in BOOLEAN
    OBVIOUS
  <2> HIDE DEF s, item, enabled
  <2>4. s.gates = [q.gates EXCEPT ![item.name] = enabled] /\ s.errs = q.errs
        /\ s = [gates |-> s.gates, errs |-> s.errs]
    BY <1>1, <2>1
  <2>5. /\ s.gates \in [Gates -> BOOLEAN] /\ s.gates[item.name] = enabled
        /\ \A x \in Gates : x # item.name => s.gates[x] = q.gates[x]
    BY <1>1, <1>8, <2>3, <2>4
  <2>6. s.gates[item.name] <=> item.sign # "-"
    BY <2>5 DEF enabled
  <2>7. \A x \in Gates : Names(items, n + 1, x) = {} => s.gates[x] = g[x]
    BY <1>3, <1>4, <2>5 DEF AfterItems
  <2>8. \A x \in Gates : Names(items, n + 1, x) # {} => (s.gates[x] <=> ListSays(items, n + 1, x))
    BY <1>3, <1>4, <2>5, <2>6 DEF AfterItems
  <2>9. s.errs = {} <=> \A j \in 1..(n + 1) : Known(items[j])
    BY <1>5, <2>2, <2>4 DEF AfterItems
  <2> QED
    BY <2>4, <2>5, <2>7, <2>8, <2>9 DEF AfterItems, s, item
<1> QED
  BY <1>6, <1>7, <1>8

(* What a list of gates does to a registry, whatever is in it and however  *)
(* often a gate is named.                                                  *)
LEMMA SetGatesSays ==
  ASSUME NEW g \in [Gates -> BOOLEAN], NEW items, Len(items) \in Nat
  PROVE  AfterItems(SetGates(g, items), g, items, Len(items))
<1> DEFINE n == Len(items)
<1>1. PICK r : Runs(r, g, items, n) /\ SetGates(g, items) = r[n]
  BY SetGatesRuns
<1> HIDE DEF n
<1> DEFINE S == {k \in Nat : k <= n => AfterItems(r[k], g, items, k)}
<1>2. n \in Nat
  BY DEF n
<1>3. 0 \in S
  <2>1. r[0] = [gates |-> g, errs |-> {}]
    BY <1>1, <1>2 DEF Runs
  <2>2. 1..0 = {}
    OBVIOUS
  <2>3. \A x : Names(items, 0, x) = {}
    BY <2>2 DEF Names
  <2>4. AfterItems(r[0], g, items, 0)
    BY <2>1, <2>2, <2>3 DEF AfterItems
  <2> QED
    BY <2>4
<1>4. ASSUME NEW k \in S \cap Nat PROVE k + 1 \in S
  <2> SUFFICES ASSUME k + 1 <= n PROVE AfterItems(r[k + 1], g, items, k + 1)
    OBVIOUS
  <2>1. k + 1 \in 0..n /\ k + 1 # 0 /\ (k + 1) - 1 = k
    BY <1>2
  <2>2. r[k + 1] = SetItem(r[(k + 1) - 1], items[k + 1])
    BY <1>1, <2>1 DEF Runs
  <2>3. AfterItems(r[k], g, items, k)
    BY <1>2
  <2> QED
    BY <2>1, <2>2, <2>3, ItemStep
<1>5. Nat \subseteq S
  <2> HIDE DEF S
  <2> QED
    BY <1>3, <1>4, NatSetInduction
<1> QED
  BY <1>1, <1>2, <1>5 DEF n

-----------------------------------------------------------------------------
(***************************************************************************)
(* The text of a registry.                                                 *)
(***************************************************************************)

(* VisitAll meets every gate, and none of them twice.                      *)
LEMMA VisitsAll ==
  ASSUME NEW S, IsFiniteSet(S), NEW ids, ids = SetToSeq(S)
  PROVE  /\ Cardinality(S) \in Nat
         /\ ids \in [1..Cardinality(S) -> S]
         /\ \A i, j \in 1..Cardinality(S) : ids[i] = ids[j] => i = j
         /\ \A x \in S : \E i \in 1..Cardinality(S) : ids[i] = x
<1> DEFINE n == Cardinality(S)
<1>1. n \in Nat /\ ExistsBijection(1..n, S)
  BY FS_CardinalityType
<1>2. Cardinality(1..n) = n
  BY <1>1, FS_Interval
<1>3. ids = CHOOSE f \in [1..n -> S] : IsInjective(f)
  BY DEF SetToSeq
<1> HIDE DEF n
<1>4. \E f \in [1..n -> S] : IsInjective(f)
  BY <1>1 DEF ExistsBijection, Bijection, Injection
<1>5. ids \in [1..n -> S] /\ IsInjective(ids)
  BY <1>3, <1>4
<1>6. ids \in Injection(1..n, S)
  BY <1>5 DEF Injection
<1>7. ids \in Surjection(1..n, S)
  BY <1>2, <1>6, FS_Injection DEF n
<1> QED
  BY <1>1, <1>5, <1>7 DEF n, IsInjective, Surjection

(* The text of any registry, given to any other, brings back the gates.    *)
LEMMA RoundTrip ==
  ASSUME NEW g \in [Gates -> BOOLEAN], NEW other \in [Gates -> BOOLEAN]
  PROVE  SetGates(other, String(g)) = [gates |-> g, errs |-> {}]
<1> DEFINE ids == SetToSeq(Gates)
           n == Cardinality(Gates)
           items == String(g)
           q == SetGates(other, items)
<1>1. /\ n \in Nat /\ ids \in [1..n -> Gates]
      /\ \A i, j \in 1..n : ids[i] = ids[j] => i = j
      /\ \A x \in Gates : \E i \in 1..n : ids[i] = x
  BY VisitsAll, StartupAssumption
<1>2. items = [i \in DOMAIN ids |-> [sign |-> IF g[ids[i]] THEN "" ELSE "-", name |-> ids[i]]]
  BY DEF String, VisitAll
<1> HIDE DEF ids, n, items, q
<1>3. /\ DOMAIN items = 1..n
      /\ \A i \in 1..n : items[i].name = ids[i] /\ (items[i].sign # "-" <=> g[ids[i]])
  BY <1>1, <1>2
<1>4. Len(items) = n
  <2> DEFINE T == {items[i] : i \in 1..n}
  <2>1. items = [i \in 1..n |-> items[i]]
    BY <1>2, <1>3
  <2>2. items \in [1..n -> T]
    BY <2>1
  <2> HIDE DEF T
  <2>3. items \in Seq(T)
    BY <1>1, <2>2, SeqDef
  <2> QED
    BY <1>1, <1>3, <2>3, LenProperties
<1>5. AfterItems(q, other, items, n)
  BY <1>1, <1>4, SetGatesSays DEF q
<1>6. ASSUME NEW x \in Gates
      PROVE  Names(items, n, x) # {} /\ (ListSays(items, n, x) <=> g[x])
  <2>1. PICK i \in 1..n : ids[i] = x
    BY <1>1
  <2>2. Names(items, n, x) = {i}
    BY <1>1, <1>3, <2>1 DEF Names
  <2> QED
    BY <1>3, <2>1, <2>2 DEF ListSays
<1>7. ASSUME NEW j \in 1..n PROVE Known(items[j])
  <2>1. items[j].name = ids[j] /\ ids[j] \in Gates
    BY <1>1, <1>3
  <2> QED
    BY <2>1 DEF Known
<1>8. q.errs = {} /\ q = [gates |-> q.gates, errs |-> q.errs] /\ q.gates \in [Gates -> BOOLEAN]
  BY <1>5, <1>7 DEF AfterItems
<1>9. \A x \in Gates : q.gates[x] <=> g[x]
  BY <1>5, <1>6 DEF AfterItems
<1>10. q.gates = g
  BY <1>8, <1>9
<1> QED
  BY <1>8, <1>10 DEF q, items

-----------------------------------------------------------------------------
(***************************************************************************)
(* What a command line says, one argument more.                            *)
(***************************************************************************)
(* e is d, of length n, and a.                                             *)
Longer(e, d, n, a) ==
  /\ n \in Nat /\ DOMAIN d = 1..n /\ DOMAIN e = 1..(n + 1)
  /\ \A i \in 1..n : e[i] = d[i]
  /\ e[n + 1] = a

LEMMA AppendReads ==
  ASSUME NEW d \in Seq(Arguments), NEW a \in Arguments
  PROVE  Longer(Append(d, a), d, Len(d), a)
BY DEF Longer

(* The last word on a flag is the new argument's, if it has one.           *)
LEMMA ToldAppend ==
  ASSUME NEW d \in Seq(Arguments), NEW a \in Arguments, NEW x
  PROVE  Told(Append(d, a), x) = IF x \in DOMAIN a THEN a[x] ELSE Told(d, x)
<1> DEFINE e == Append(d, a)
           n == Len(d)
           old == {i \in DOMAIN d : x \in DOMAIN d[i]}
           new == {i \in DOMAIN e : x \in DOMAIN e[i]}
<1>1. /\ n \in Nat /\ DOMAIN d = 1..n /\ DOMAIN e = 1..(n + 1)
      /\ \A i \in 1..n : e[i] = d[i]
      /\ e[n + 1] = a
  BY AppendReads DEF Longer
<1>2. /\ Told(d, x) = IF old = {} THEN Defaults[x] ELSE d[Max(old)][x]
      /\ Told(e, x) = IF new = {} THEN Defaults[x] ELSE e[Max(new)][x]
  BY DEF Told
<1>3. new = old \cup (IF x \in DOMAIN a THEN {n + 1} ELSE {}) /\ old \subseteq 1..n
  BY <1>1
<1> HIDE DEF e, n, old, new
<1>4. CASE x \in DOMAIN a
  <2>1. n + 1 \in new /\ \A j \in new : j <= n + 1 /\ j \in Nat
    BY <1>1, <1>3, <1>4
  <2>2. Max(new) = n + 1
    BY <1>1, <2>1 DEF Max
  <2> QED
    BY <1>1, <1>2, <1>4, <2>1, <2>2 DEF e
<1>5. CASE x \notin DOMAIN a
  <2>1. new = old
    BY <1>3, <1>5
  <2>2. CASE old = {}
    BY <1>2, <1>5, <2>1, <2>2 DEF e
  <2>3. CASE old # {}
    <3>1. \E m \in old : \A j \in old : j <= m
      BY <1>1, <1>3, <2>3, Greatest
    <3>2. Max(old) \in old
      BY <1>1, <1>3, <3>1 DEF Max
    <3> QED
      BY <1>1, <1>2, <1>3, <1>5, <2>1, <2>3, <3>2 DEF e
  <2> QED
    BY <2>2, <2>3
<1> QED
  BY <1>4, <1>5

(* The places of the gates' items.                                         *)
LEMMA PlacesAre ==
  ASSUME NEW l
  PROVE  /\ \A i \in DOMAIN l : "featureGates" \in DOMAIN l[i] =>
              \A j \in DOMAIN l[i].featureGates : <<i, j>> \in Places(l)
         /\ \A p \in Places(l) :
              \E i \in DOMAIN l : /\ "featureGates" \in DOMAIN l[i]
                                  /\ \E j \in DOMAIN l[i].featureGates : p = <<i, j>>
BY DEF Places

LEMMA PlacesAppend ==
  ASSUME NEW e, NEW d, NEW n, NEW a, Longer(e, d, n, a)
  PROVE  /\ "featureGates" \notin DOMAIN a => Places(e) = Places(d)
         /\ "featureGates" \in DOMAIN a =>
              Places(e) = Places(d) \cup {<<n + 1, j>> : j \in DOMAIN a.featureGates}
         /\ \A p \in Places(d) : p[1] \in 1..n /\ ItemAt(e, p) = ItemAt(d, p)
         /\ \A j : ItemAt(e, <<n + 1, j>>) = a.featureGates[j]
<1> DEFINE more == {<<n + 1, j>> : j \in DOMAIN a.featureGates}
<1>1. /\ n \in Nat /\ DOMAIN d = 1..n /\ DOMAIN e = 1..(n + 1)
      /\ \A i \in 1..n : e[i] = d[i]
      /\ e[n + 1] = a
  BY DEF Longer
<1> USE <1>1
<1>2. \A p \in Places(d) : p[1] \in 1..n
  BY PlacesAre
<1>3. \A p \in Places(d) : ItemAt(e, p) = ItemAt(d, p)
  BY <1>2 DEF ItemAt
<1>4. \A j : ItemAt(e, <<n + 1, j>>) = a.featureGates[j]
  BY DEF ItemAt
<1>5. Places(d) \subseteq Places(e)
  <2> SUFFICES ASSUME NEW p \in Places(d) PROVE p \in Places(e)
    OBVIOUS
  <2>1. PICK i \in DOMAIN d : /\ "featureGates" \in DOMAIN d[i]
                              /\ \E j \in DOMAIN d[i].featureGates : p = <<i, j>>
    BY PlacesAre
  <2>2. PICK j \in DOMAIN d[i].featureGates : p = <<i, j>>
    BY <2>1
  <2>3. i \in DOMAIN e /\ e[i] = d[i]
    BY <2>1
  <2>4. <<i, j>> \in Places(e)
    BY <2>1, <2>2, <2>3, PlacesAre
  <2> QED
    BY <2>2, <2>4
<1>6. ASSUME NEW p \in Places(e), p \notin Places(d)
      PROVE  "featureGates" \in DOMAIN a /\ p \in more
  <2>1. PICK i \in DOMAIN e : /\ "featureGates" \in DOMAIN e[i]
                              /\ \E j \in DOMAIN e[i].featureGates : p = <<i, j>>
    BY PlacesAre
  <2>2. PICK j \in DOMAIN e[i].featureGates : p = <<i, j>>
    BY <2>1
  <2>3. i \notin 1..n
    <3> SUFFICES ASSUME i \in 1..n PROVE FALSE
      OBVIOUS
    <3>1. i \in DOMAIN d /\ e[i] = d[i]
      OBVIOUS
    <3>2. p \in Places(d)
      BY <2>1, <2>2, <3>1, PlacesAre
    <3> QED
      BY <1>6, <3>2
  <2>4. i = n + 1 /\ e[i] = a
    BY <2>1, <2>3
  <2> QED
    BY <2>1, <2>2, <2>4
<1>7. ASSUME "featureGates" \in DOMAIN a PROVE more \subseteq Places(e)
  <2> SUFFICES ASSUME NEW j \in DOMAIN a.featureGates PROVE <<n + 1, j>> \in Places(e)
    OBVIOUS
  <2>1. n + 1 \in DOMAIN e /\ e[n + 1] = a
    OBVIOUS
  <2> QED
    BY <1>7, <2>1, PlacesAre
<1> HIDE DEF more
<1>8. "featureGates" \notin DOMAIN a => Places(e) = Places(d)
  BY <1>5, <1>6
<1>9. "featureGates" \in DOMAIN a => Places(e) = Places(d) \cup more
  BY <1>5, <1>6, <1>7
<1> QED
  BY <1>2, <1>3, <1>4, <1>8, <1>9 DEF more

(* The last word on a gate is the new list's, if it names the gate.        *)
LEMMA ToldGateAppend ==
  ASSUME NEW e, NEW d, NEW n, NEW a, Longer(e, d, n, a), NEW g,
         NEW items, NEW m, "featureGates" \in DOMAIN a =>
                             items = a.featureGates /\ DOMAIN items = 1..m /\ m \in Nat
  PROVE  /\ "featureGates" \notin DOMAIN a => (ToldGate(e, g) <=> ToldGate(d, g))
         /\ "featureGates" \in DOMAIN a /\ Names(items, m, g) = {} =>
              (ToldGate(e, g) <=> ToldGate(d, g))
         /\ "featureGates" \in DOMAIN a /\ Names(items, m, g) # {} =>
              (ToldGate(e, g) <=> ListSays(items, m, g))
<1> DEFINE D == {p \in Places(d) : ItemAt(d, p).name = g}
           E == {p \in Places(e) : ItemAt(e, p).name = g}
           N == Names(items, m, g)
<1>1. /\ "featureGates" \notin DOMAIN a => Places(e) = Places(d)
      /\ "featureGates" \in DOMAIN a =>
           Places(e) = Places(d) \cup {<<n + 1, j>> : j \in DOMAIN a.featureGates}
      /\ \A p \in Places(d) : p[1] \in 1..n /\ ItemAt(e, p) = ItemAt(d, p)
      /\ \A j : ItemAt(e, <<n + 1, j>>) = a.featureGates[j]
  BY PlacesAppend
<1>9. n \in Nat
  BY DEF Longer
<1>2. /\ ToldGate(d, g) <=> \E p \in D : ItemAt(d, p).sign # "-" /\ \A q \in D : NotAfter(q, p)
      /\ ToldGate(e, g) <=> \E p \in E : ItemAt(e, p).sign # "-" /\ \A q \in E : NotAfter(q, p)
  BY DEF ToldGate
<1>3. D \subseteq Places(d)
  OBVIOUS
<1>4. "featureGates" \notin DOMAIN a => E = D
  BY <1>1
<1>5. ASSUME "featureGates" \in DOMAIN a
      PROVE  E = D \cup {<<n + 1, j>> : j \in N}
  <2> DEFINE more == {<<n + 1, j>> : j \in DOMAIN a.featureGates}
  <2>1. N = {j \in DOMAIN items : items[j].name = g} /\ items = a.featureGates
    BY <1>5 DEF Names
  <2>2. {p \in more : ItemAt(e, p).name = g} = {<<n + 1, j>> : j \in N}
    BY <1>1, <2>1
  <2>3. Places(e) = Places(d) \cup more
    BY <1>1, <1>5
  <2> HIDE DEF more, N
  <2> QED
    BY <1>1, <2>2, <2>3
<1>6. "featureGates" \in DOMAIN a => N \subseteq Nat
  BY DEF Names
<1> HIDE DEF D, E, N
<1>7. ASSUME E = D PROVE ToldGate(e, g) <=> ToldGate(d, g)
  BY <1>1, <1>2, <1>3, <1>7
<1>8. ASSUME "featureGates" \in DOMAIN a, N # {}
      PROVE  ToldGate(e, g) <=> ListSays(items, m, g)
  <2> USE <1>8, <1>9
  <2>1. /\ \A p \in D : p \in E /\ p[1] \in 1..n
        /\ \A j \in N : <<n + 1, j>> \in E /\ ItemAt(e, <<n + 1, j>>) = items[j]
        /\ \A p \in E : p \in D \/ \E j \in N : p = <<n + 1, j>>
    BY <1>1, <1>3, <1>5
  <2>2. ListSays(items, m, g) <=> \E j \in N : items[j].sign # "-" /\ \A k \in N : k <= j
    BY DEF ListSays, N
  <2>3. ASSUME NEW p \in E, ItemAt(e, p).sign # "-", \A q \in E : NotAfter(q, p)
        PROVE  ListSays(items, m, g)
    <3>1. PICK k \in N : TRUE
      OBVIOUS
    <3>2. NotAfter(<<n + 1, k>>, p)
      BY <2>1, <2>3
    <3>3. p \notin D
      BY <2>1, <3>2 DEF NotAfter
    <3>4. PICK j \in N : p = <<n + 1, j>>
      BY <2>1, <3>3
    <3>5. ASSUME NEW i \in N PROVE i <= j
      <4>1. NotAfter(<<n + 1, i>>, <<n + 1, j>>)
        BY <2>1, <2>3, <3>4
      <4> QED
        BY <1>6, <4>1 DEF NotAfter
    <3> QED
      BY <2>1, <2>2, <2>3, <3>4, <3>5
  <2>4. ASSUME NEW j \in N, items[j].sign # "-", \A k \in N : k <= j
        PROVE  ToldGate(e, g)
    <3>1. ASSUME NEW q \in E PROVE NotAfter(q, <<n + 1, j>>)
      BY <2>1, <2>4 DEF NotAfter
    <3> QED
      BY <1>2, <2>1, <2>4, <3>1
  <2> QED
    BY <1>2, <2>2, <2>3, <2>4
<1> QED
  BY <1>4, <1>5, <1>7, <1>8 DEF N

-----------------------------------------------------------------------------
(***************************************************************************)
(* The process.  While it has not given up, it has read a part of its      *)
(* command line, could use all of it, and knows what that part says.       *)
(***************************************************************************)
ReadSoFar(done) ==
  /\ argv = done \o args
  /\ \A i \in DOMAIN done : "featureGates" \in DOMAIN done[i] \/ ~FlagRefuses(done[i])
  /\ \A p \in Places(done) : Known(ItemAt(done, p))
  /\ flags = [x \in DOMAIN Defaults |-> Told(done, x)]
  /\ gates = [g \in Gates |-> ToldGate(done, g)]

FlagsTyped ==
  /\ DOMAIN flags = DOMAIN Defaults
  /\ flags["secretNamePrefix"] \in Nat
  /\ \A x \in QuantityFlags : flags[x] \notin {Blank, Junk} => flags[x] \in Int

ProcessInv ==
  /\ stage \in {"parse", "manager", "serving", "exited"}
  /\ args \in Seq(Arguments) /\ argv \in CommandLines
  /\ FlagsTyped
  /\ gates \in [Gates -> BOOLEAN]
  /\ stage # "exited" => \E done \in Seq(Arguments) : ReadSoFar(done)
  /\ stage \in {"manager", "serving"} =>
       args = <<>> /\ validateRequestsAndLimits(flags) /\ validateWatchConfig(flags)

(* A fresh process has read nothing, and everything is as it is set up.    *)
Fresh ==
  /\ argv \in CommandLines /\ args = argv
  /\ flags = Defaults /\ gates = NewRegistry /\ stage = "parse"

LEMMA NothingRead == Fresh => ProcessInv
<1> SUFFICES ASSUME Fresh PROVE ProcessInv
  OBVIOUS
<1> USE DEF Fresh
<1>1. argv \in Seq(Arguments)
  BY StartupAssumption
<1>2. Places(<<>>) = {}
  BY DEF Places
<1>3. \A x : Told(<<>>, x) = Defaults[x]
  BY DEF Told
<1>4. flags = [x \in DOMAIN Defaults |-> Told(<<>>, x)]
  BY <1>3 DEF Defaults
<1>5. \A g : ToldGate(<<>>, g) = FALSE
  BY <1>2 DEF ToldGate
<1>6. gates = [g \in Gates |-> ToldGate(<<>>, g)] /\ gates \in [Gates -> BOOLEAN]
  BY <1>5 DEF NewRegistry
<1>7. <<>> \in Seq(Arguments) /\ argv = <<>> \o args
  BY <1>1
<1>8. ReadSoFar(<<>>)
  BY <1>2, <1>4, <1>6, <1>7 DEF ReadSoFar
<1>9. FlagsTyped
  BY DEF FlagsTyped, QuantityFlags, Defaults
<1> QED
  BY <1>1, <1>6, <1>7, <1>8, <1>9 DEF ProcessInv

LEMMA ProcessInit ==
  ASSUME StartupInit
  PROVE  ProcessInv
BY NothingRead DEF StartupInit, Fresh

(* The part that was read grows by the head of the rest.                   *)
LEMMA ReadOneMore ==
  ASSUME NEW S, NEW d \in Seq(S), NEW r \in Seq(S), r # <<>>
  PROVE  /\ Head(r) \in S /\ Tail(r) \in Seq(S)
         /\ Append(d, Head(r)) \in Seq(S)
         /\ d \o r = Append(d, Head(r)) \o Tail(r)
OBVIOUS

(* An argument that gives a flag.                                          *)
LEMMA FlagStep ==
  ASSUME ProcessInv, ParseFlag
  PROVE  ProcessInv'
<1>0. PICK a : a = Head(args)
  OBVIOUS
<1>1. /\ stage = "parse" /\ args # <<>> /\ args' = Tail(args)
      /\ argv' = argv /\ gates' = gates /\ "featureGates" \notin DOMAIN a
  BY <1>0 DEF ParseFlag
<1>2. PICK d \in Seq(Arguments) : ReadSoFar(d)
  BY <1>1 DEF ProcessInv
<1> DEFINE e == Append(d, a)
<1>3. /\ a \in Arguments /\ args' \in Seq(Arguments) /\ e \in Seq(Arguments)
      /\ argv = e \o args'
  BY <1>0, <1>1, <1>2, ReadOneMore DEF ProcessInv, ReadSoFar
<1>4. Longer(e, d, Len(d), a)
  BY <1>3, AppendReads
<1>5. CASE FlagRefuses(a)
  <2>1. stage' = "exited" /\ flags' = flags
    BY <1>0, <1>5 DEF ParseFlag
  <2>2. FlagsTyped'
    BY <2>1 DEF ProcessInv, FlagsTyped
  <2> QED
    BY <1>1, <1>3, <2>1, <2>2 DEF ProcessInv
<1>6. CASE ~FlagRefuses(a)
  <2>1. stage' = "parse" /\ flags' = SetFlag(flags, a)
    BY <1>0, <1>1, <1>6 DEF ParseFlag
  <2>2. flags = [x \in DOMAIN Defaults |-> Told(d, x)]
    BY <1>2 DEF ReadSoFar
  <2>3. \A x : Told(e, x) = IF x \in DOMAIN a THEN a[x] ELSE Told(d, x)
    BY <1>3, ToldAppend
  <2> HIDE DEF e
  <2>4. flags' = [x \in DOMAIN Defaults |-> Told(e, x)]
    BY <2>1, <2>2, <2>3 DEF SetFlag
  <2>5. /\ DOMAIN flags' = DOMAIN Defaults
        /\ \A x \in DOMAIN Defaults : flags'[x] = IF x \in DOMAIN a THEN a[x] ELSE flags[x]
    BY <2>2, <2>3, <2>4
  <2>6. "secretNamePrefix" \in DOMAIN Defaults /\ QuantityFlags \subseteq DOMAIN Defaults
    BY DEF Defaults, QuantityFlags
  <2>7. flags'["secretNamePrefix"] \in Nat
    BY <1>3, <2>5, <2>6, StartupAssumption DEF ProcessInv, FlagsTyped
  <2>8. \A x \in QuantityFlags : flags'[x] \notin {Blank, Junk} => flags'[x] \in Int
    BY <1>3, <2>5, <2>6, StartupAssumption DEF ProcessInv, FlagsTyped
  <2>9. FlagsTyped'
    BY <2>5, <2>7, <2>8 DEF FlagsTyped
  <2>10. /\ Places(e) = Places(d)
         /\ \A p \in Places(d) : ItemAt(e, p) = ItemAt(d, p)
    BY <1>1, <1>4, PlacesAppend
  <2>11. \A p \in Places(e) : Known(ItemAt(e, p))
    BY <1>2, <2>10 DEF ReadSoFar
  <2>12. \A g : ToldGate(e, g) = ToldGate(d, g)
    BY <2>10 DEF ToldGate
  <2>13. gates = [g \in Gates |-> ToldGate(e, g)]
    BY <1>2, <2>12 DEF ReadSoFar
  <2>14. \A i \in DOMAIN e : "featureGates" \in DOMAIN e[i] \/ ~FlagRefuses(e[i])
    BY <1>2, <1>4, <1>6 DEF ReadSoFar, Longer
  <2>15. ReadSoFar(e)'
    BY <1>1, <1>3, <2>4, <2>11, <2>13, <2>14 DEF ReadSoFar
  <2> QED
    BY <1>1, <1>3, <2>1, <2>9, <2>15 DEF ProcessInv
<1> QED
  BY <1>5, <1>6

(* An argument that gives a list of gates.                                 *)
LEMMA GatesStep ==
  ASSUME ProcessInv, ParseGates
  PROVE  ProcessInv'
<1>0. PICK a : a = Head(args)
  OBVIOUS
<1> DEFINE items == a.featureGates
           m == Len(items)
           q == SetGates(gates, items)
<1>1. /\ stage = "parse" /\ args # <<>> /\ args' = Tail(args)
      /\ argv' = argv /\ flags' = flags /\ "featureGates" \in DOMAIN a
      /\ gates' = q.gates /\ stage' = IF q.errs = {} THEN "parse" ELSE "exited"
  BY <1>0 DEF ParseGates
<1>2. PICK d \in Seq(Arguments) : ReadSoFar(d)
  BY <1>1 DEF ProcessInv
<1> DEFINE e == Append(d, a)
<1>3. /\ a \in Arguments /\ args' \in Seq(Arguments) /\ e \in Seq(Arguments)
      /\ argv = e \o args'
  BY <1>0, <1>1, <1>2, ReadOneMore DEF ProcessInv, ReadSoFar
<1>4. Longer(e, d, Len(d), a)
  BY <1>3, AppendReads
<1>5. /\ DOMAIN a = {"featureGates"}
      /\ items \in Seq({items[i] : i \in DOMAIN items})
  BY <1>1, <1>3, StartupAssumption
<1>6. m \in Nat /\ DOMAIN items = 1..m
  BY <1>5, LenProperties
<1>7. AfterItems(q, gates, items, m)
  BY <1>6, SetGatesSays DEF ProcessInv
<1>8. \A x : Told(e, x) = IF x \in DOMAIN a THEN a[x] ELSE Told(d, x)
  BY <1>3, ToldAppend
<1>9. items = a.featureGates
  OBVIOUS
<1> HIDE DEF e, items, m, q
<1>10. FlagsTyped'
  BY <1>1 DEF ProcessInv, FlagsTyped
<1>11. gates' \in [Gates -> BOOLEAN]
  BY <1>1, <1>7 DEF AfterItems
<1>12. CASE q.errs # {}
  BY <1>1, <1>3, <1>10, <1>11, <1>12 DEF ProcessInv
<1>13. CASE q.errs = {}
  <2>1. \A j \in 1..m : Known(items[j])
    BY <1>7, <1>13 DEF AfterItems
  <2>2. /\ Places(e) = Places(d) \cup {<<Len(d) + 1, j>> : j \in DOMAIN a.featureGates}
        /\ \A p \in Places(d) : ItemAt(e, p) = ItemAt(d, p)
        /\ \A j : ItemAt(e, <<Len(d) + 1, j>>) = a.featureGates[j]
    BY <1>1, <1>4, PlacesAppend
  <2>3. \A p \in Places(e) : Known(ItemAt(e, p))
    BY <1>2, <1>6, <1>9, <2>1, <2>2 DEF ReadSoFar
  <2>4. ASSUME NEW x \in DOMAIN Defaults PROVE Told(e, x) = Told(d, x)
    <3>1. x # "featureGates"
      BY DEF Defaults
    <3> QED
      BY <1>5, <1>8, <3>1
  <2>5. flags' = [x \in DOMAIN Defaults |-> Told(e, x)]
    BY <1>1, <1>2, <2>4 DEF ReadSoFar
  <2>6. ASSUME NEW g \in Gates
        PROVE  gates'[g] = ToldGate(e, g)
    <3>1. gates[g] <=> ToldGate(d, g)
      BY <1>2 DEF ReadSoFar
    <3>2. /\ Names(items, m, g) = {} => (ToldGate(e, g) <=> ToldGate(d, g))
          /\ Names(items, m, g) # {} => (ToldGate(e, g) <=> ListSays(items, m, g))
      BY <1>1, <1>4, <1>6, <1>9, ToldGateAppend
    <3>3. /\ Names(items, m, g) = {} => gates'[g] = gates[g]
          /\ Names(items, m, g) # {} => (gates'[g] <=> ListSays(items, m, g))
      BY <1>1, <1>7 DEF AfterItems
    <3>4. gates'[g] <=> ToldGate(e, g)
      BY <3>1, <3>2, <3>3
    <3>5. gates'[g] \in BOOLEAN /\ ToldGate(e, g) \in BOOLEAN
      BY <1>11 DEF ToldGate
    <3> QED
      BY <3>4, <3>5
  <2>7. gates' = [g \in Gates |-> ToldGate(e, g)]
    BY <1>11, <2>6
  <2>8. ASSUME NEW i \in DOMAIN e
        PROVE  "featureGates" \in DOMAIN e[i] \/ ~FlagRefuses(e[i])
    <3>1. (i \in DOMAIN d /\ e[i] = d[i]) \/ e[i] = a
      BY <1>4 DEF Longer
    <3> QED
      BY <1>1, <1>2, <3>1 DEF ReadSoFar
  <2>9. ReadSoFar(e)'
    BY <1>1, <1>3, <2>3, <2>5, <2>7, <2>8 DEF ReadSoFar
  <2> QED
    BY <1>1, <1>3, <1>10, <1>11, <1>13, <2>9 DEF ProcessInv
<1> QED
  BY <1>12, <1>13

LEMMA ProcessStep ==
  ASSUME ProcessInv, StartupNext
  PROVE  ProcessInv'
<1>1. ASSUME NEW l \in CommandLines, Start(l)
      PROVE  ProcessInv'
  <2>1. Fresh'
    BY <1>1 DEF Start, Fresh, Defaults, NewRegistry
  <2> QED
    BY <2>1, NothingRead, PTL
<1>2. CASE ParseFlag
  BY <1>2, FlagStep
<1>3. CASE ParseGates
  BY <1>3, GatesStep
<1>4. ASSUME UNCHANGED <<argv, args, flags, gates>>, stage # "exited",
             stage' \in {"parse", "manager", "serving", "exited"},
             stage' \in {"manager", "serving"} =>
               args = <<>> /\ validateRequestsAndLimits(flags) /\ validateWatchConfig(flags)
      PROVE  ProcessInv'
  <2>1. FlagsTyped'
    BY <1>4 DEF ProcessInv, FlagsTyped
  <2>2. PICK d \in Seq(Arguments) : ReadSoFar(d)
    BY <1>4 DEF ProcessInv
  <2>3. ReadSoFar(d)'
    BY <1>4, <2>2 DEF ReadSoFar
  <2>4. stage' \in {"manager", "serving"} =>
          args' = <<>> /\ validateRequestsAndLimits(flags') /\ validateWatchConfig(flags')
    BY <1>4
  <2> QED
    BY <1>4, <2>1, <2>3, <2>4 DEF ProcessInv
<1>5. CASE Validate
  BY <1>4, <1>5 DEF Validate
<1>6. CASE RunManager \/ ManagerFails
  BY <1>4, <1>6 DEF RunManager, ManagerFails, ProcessInv
<1>7. CASE Restart
  BY <1>1, <1>7 DEF Restart, ProcessInv
<1> QED
  BY <1>1, <1>2, <1>3, <1>5, <1>6, <1>7 DEF StartupNext, Progress, Redeploy

LEMMA ProcessStutter ==
  ASSUME ProcessInv, UNCHANGED process
  PROVE  ProcessInv' /\ flags' = flags
<1> USE DEF process
<1>1. FlagsTyped'
  BY DEF ProcessInv, FlagsTyped
<1>2. stage # "exited" => (\E d \in Seq(Arguments) : ReadSoFar(d))'
  BY DEF ProcessInv, ReadSoFar
<1>3. stage' \in {"manager", "serving"} =>
        args' = <<>> /\ validateRequestsAndLimits(flags') /\ validateWatchConfig(flags')
  BY DEF ProcessInv
<1> QED
  BY <1>1, <1>2, <1>3 DEF ProcessInv

(* Nothing is left to read when a process serves, and the checks have been *)
(* made on what the whole command line says.                               *)
LEMMA ReadsAll == ProcessInv => ServesAsTold
<1> SUFFICES ASSUME ProcessInv, stage = "serving"
             PROVE  /\ Acceptable(argv)
                    /\ flags = [x \in DOMAIN Defaults |-> Told(argv, x)]
                    /\ gates = [g \in Gates |-> ToldGate(argv, g)]
  BY DEF ServesAsTold
<1>1. PICK d \in Seq(Arguments) : ReadSoFar(d)
  BY DEF ProcessInv
<1>2. /\ args = <<>> /\ argv = d \o args
      /\ validateRequestsAndLimits(flags) /\ validateWatchConfig(flags)
  BY <1>1 DEF ProcessInv, ReadSoFar
<1>3. argv = d
  BY <1>2
<1>4. /\ flags = [x \in DOMAIN Defaults |-> Told(argv, x)]
      /\ gates = [g \in Gates |-> ToldGate(argv, g)]
      /\ \A i \in DOMAIN argv : "featureGates" \in DOMAIN argv[i] \/ ~FlagRefuses(argv[i])
      /\ \A p \in Places(argv) : Known(ItemAt(argv, p))
  BY <1>1, <1>3 DEF ReadSoFar
<1>5. Acceptable(argv)
  BY <1>2, <1>4 DEF Acceptable
<1> QED
  BY <1>4, <1>5

LEMMA TextSaysAll == ProcessInv => GatesRoundTrip
BY RoundTrip DEF ProcessInv, GatesRoundTrip

=============================================================================
