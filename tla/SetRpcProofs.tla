---------------------------- MODULE SetRpcProofs ----------------------------
(***************************************************************************)
(* Theorems about SetRpc, for any leaves, schema, requests and threads.    *)
(***************************************************************************)
EXTENDS SetRpc, SequenceTheorems, WellFoundedInduction, TLAPS

\* A set of positions that is not empty has a last one.
LEMMA LastPosition ==
  ASSUME NEW n \in Nat, NEW S \in SUBSET (1..n), S # {}
  PROVE  \E i \in S : \A j \in S : j <= i
<1> DEFINE T == {n - i : i \in S}
<1>1. T \subseteq Nat /\ T # {}
  <2>1. \A i \in S : n - i \in Nat
    OBVIOUS
  <2>2. PICK i \in S : TRUE
    OBVIOUS
  <2>3. n - i \in T
    OBVIOUS
  <2>. QED
    BY <2>1, <2>3
<1>2. \E x \in T : \A y \in T : ~(<<y, x>> \in OpToRel(<, Nat))
  <2> HIDE DEF T
  <2>. QED
    BY <1>1, NatLessThanWellFounded, WFMin
<1>3. PICK x \in T : \A y \in T : ~(y < x)
  BY <1>1, <1>2 DEF OpToRel
<1>4. PICK i \in S : x = n - i
  BY <1>3
<1>5. ASSUME NEW j \in S PROVE j <= i
  <2>1. n - j \in T
    OBVIOUS
  <2>2. ~(n - j < n - i)
    BY <2>1, <1>3, <1>4
  <2>3. i \in 1..n /\ j \in 1..n
    OBVIOUS
  <2>. QED
    BY <2>2, <2>3
<1>. QED
  BY <1>5

\* Sequences over fewer values are sequences over more.
LEMMA SeqOfMore ==
  ASSUME NEW S, NEW T, S \subseteq T, NEW q \in Seq(S)
  PROVE  q \in Seq(T)
<1>1. q \in [1..Len(q) -> T] /\ Len(q) \in Nat
  OBVIOUS
<1>. QED
  BY <1>1

\* Three sequences, one after the other.
LEMMA ConcatThree ==
  ASSUME NEW S, NEW d \in Seq(S), NEW p \in Seq(S), NEW u \in Seq(S)
  PROVE  /\ d \o p \o u \in Seq(S)
         /\ Len(d \o p \o u) = Len(d) + Len(p) + Len(u)
         /\ \A i \in 1..Len(d) : (d \o p \o u)[i] = d[i]
         /\ \A i \in 1..Len(p) : (d \o p \o u)[Len(d) + i] = p[i]
         /\ \A i \in 1..Len(u) : (d \o p \o u)[Len(d) + Len(p) + i] = u[i]
<1> DEFINE dp == d \o p
<1>1. /\ dp \in Seq(S)
      /\ Len(dp) = Len(d) + Len(p)
      /\ \A i \in 1..(Len(d) + Len(p)) :
           dp[i] = IF i <= Len(d) THEN d[i] ELSE p[i - Len(d)]
  BY ConcatProperties
<1>2. d \o p \o u = dp \o u
  OBVIOUS
<1>3. Len(d) \in Nat /\ Len(p) \in Nat /\ Len(u) \in Nat
  OBVIOUS
<1> HIDE DEF dp
<1>4. /\ dp \o u \in Seq(S)
      /\ Len(dp \o u) = Len(dp) + Len(u)
      /\ \A i \in 1..(Len(dp) + Len(u)) :
           (dp \o u)[i] = IF i <= Len(dp) THEN dp[i] ELSE u[i - Len(dp)]
  <2>1. dp \in Seq(S)
    BY <1>1
  <2>. QED
    BY <2>1, ConcatProperties
<1>5. \A i \in 1..Len(d) : (dp \o u)[i] = d[i]
  BY <1>1, <1>3, <1>4
<1>6. \A i \in 1..Len(p) : (dp \o u)[Len(d) + i] = p[i]
  BY <1>1, <1>3, <1>4
<1>7. \A i \in 1..Len(u) : (dp \o u)[Len(d) + Len(p) + i] = u[i]
  BY <1>1, <1>3, <1>4
<1>. QED
  BY <1>1, <1>2, <1>3, <1>4, <1>5, <1>6, <1>7

\* Ordered puts the deletes first, then the replacements, then the updates.
LEMMA OrderedItems ==
  ASSUME NEW r \in Request
  PROVE  /\ r.delete \in Seq(Item) /\ r.replace \in Seq(Item)
         /\ r.update \in Seq(Item) /\ Ordered(r) \in Seq(Item)
         /\ Len(Ordered(r)) = Len(r.delete) + Len(r.replace) + Len(r.update)
         /\ \A i \in 1..Len(r.delete) : Ordered(r)[i] = r.delete[i]
         /\ \A i \in 1..Len(r.replace) : Ordered(r)[Len(r.delete) + i] = r.replace[i]
         /\ \A i \in 1..Len(r.update) :
              Ordered(r)[Len(r.delete) + Len(r.replace) + i] = r.update[i]
<1>1. RequestOK(r)
  BY RequestAssumption
<1>2. r.delete \in Seq(Item) /\ r.replace \in Seq(Item) /\ r.update \in Seq(Item)
  BY <1>1, SeqOfMore DEF RequestOK
<1>. QED
  <2> DEFINE d == r.delete  p == r.replace  u == r.update
  <2>1. d \in Seq(Item) /\ p \in Seq(Item) /\ u \in Seq(Item)
    BY <1>2
  <2>2. Ordered(r) = d \o p \o u
    BY DEF Ordered
  <2> HIDE DEF d, p, u
  <2>3. /\ d \o p \o u \in Seq(Item)
        /\ Len(d \o p \o u) = Len(d) + Len(p) + Len(u)
        /\ \A i \in 1..Len(d) : (d \o p \o u)[i] = d[i]
        /\ \A i \in 1..Len(p) : (d \o p \o u)[Len(d) + i] = p[i]
        /\ \A i \in 1..Len(u) : (d \o p \o u)[Len(d) + Len(p) + i] = u[i]
    BY <2>1, ConcatThree
  <2>. QED
    BY <2>1, <2>2, <2>3 DEF d, p, u

\* Every entry has a path, and those of an update or a replacement write.
LEMMA ItemFacts ==
  ASSUME NEW r \in Request, NEW i \in 1..Len(Ordered(r))
  PROVE  /\ Ordered(r)[i] \in Item
         /\ Canon[Ordered(r)[i].xpath] \in Path
<1>1. Ordered(r)[i] \in Item
  <2> DEFINE q == Ordered(r)
  <2>1. q \in Seq(Item) /\ i \in 1..Len(q)
    BY OrderedItems
  <2> HIDE DEF q
  <2>2. q[i] \in Item
    BY <2>1
  <2>. QED
    BY <2>2 DEF q
<1>. QED
  BY <1>1, PathAssumption DEF Item

\* Entry i of request r names path p, and no later entry does.
Decides(r, i, p) ==
  /\ i \in 1..Len(Ordered(r))
  /\ Canon[Ordered(r)[i].xpath] = p
  /\ \A j \in (i + 1)..Len(Ordered(r)) : Canon[Ordered(r)[j].xpath] # p

\* Some entry decides on every path that an entry names.
LEMMA SomeDecides ==
  ASSUME NEW r \in Request, NEW p, NEW k \in 1..Len(Ordered(r)),
         Canon[Ordered(r)[k].xpath] = p
  PROVE  \E i : Decides(r, i, p)
<1> DEFINE q == Ordered(r)
           n == Len(q)
           S == {i \in 1..n : Canon[q[i].xpath] = p}
<1>1. n \in Nat /\ k \in S
  BY OrderedItems
<1>2. S \in SUBSET (1..n)
  OBVIOUS
<1>3. PICK i \in S : \A j \in S : j <= i
  <2> HIDE DEF S, n
  <2>. QED
    BY <1>1, <1>2, LastPosition
<1> HIDE DEF q, n
<1>4. ASSUME NEW j \in (i + 1)..n PROVE Canon[q[j].xpath] # p
  BY <1>1, <1>3
<1>. QED
  BY <1>3, <1>4 DEF Decides, q, n

\* What Applied leaves at a path: the leaf of the entry that decides on it.
LEMMA AppliedDecided ==
  ASSUME NEW s, NEW r \in Request, NEW ts, NEW p \in Path, NEW i, Decides(r, i, p)
  PROVE  Applied(s, r, ts)[p] = OpOf(Ordered(r)[i], ts).leaf
<1> DEFINE q == Ordered(r)
           b == BatchOf(r, ts)
           n == Len(q)
<1>1. n \in Nat /\ DOMAIN q = 1..n
  BY OrderedItems
<1>2. \A k \in 1..n : b[k] = OpOf(q[k], ts) /\ b[k].xpath = q[k].xpath
  BY <1>1 DEF BatchOf, OpOf
<1>3. Applied(s, r, ts)[p] = IF LastWrite(b, n, p) = {} THEN s[p]
                             ELSE b[CHOOSE k \in LastWrite(b, n, p) : TRUE].leaf
  BY DEF Applied, Effect
<1>4. /\ i \in 1..n /\ Canon[q[i].xpath] = p
      /\ \A j \in (i + 1)..n : Canon[q[j].xpath] # p
  BY DEF Decides
<1>5. i \in LastWrite(b, n, p)
  <2>1. \A j \in (i + 1)..n : j \in 1..n
    BY <1>1, <1>4
  <2>. QED
    BY <1>2, <1>4, <2>1 DEF LastWrite
<1>6. ASSUME NEW k \in LastWrite(b, n, p), k # i PROVE FALSE
  <2>1. k \in 1..n /\ Canon[b[k].xpath] = p /\ \A j \in (k + 1)..n : Canon[b[j].xpath] # p
    BY DEF LastWrite
  <2>2. k < i \/ i < k
    BY <1>1, <1>4, <1>6, <2>1
  <2>. QED
    BY <1>1, <1>2, <1>4, <2>1, <2>2
<1>7. LastWrite(b, n, p) = {i}
  BY <1>5, <1>6
<1>. QED
  BY <1>2, <1>3, <1>4, <1>7

\* And a path that no entry names keeps its leaf.
LEMMA AppliedElsewhere ==
  ASSUME NEW s, NEW r \in Request, NEW ts, NEW p \in Path,
         \A k \in 1..Len(Ordered(r)) : Canon[Ordered(r)[k].xpath] # p
  PROVE  Applied(s, r, ts)[p] = s[p]
<1> DEFINE q == Ordered(r)
           b == BatchOf(r, ts)
           n == Len(q)
<1>1. n \in Nat /\ DOMAIN q = 1..n
  BY OrderedItems
<1>2. \A k \in 1..n : b[k].xpath = q[k].xpath
  BY <1>1 DEF BatchOf, OpOf
<1>3. LastWrite(b, n, p) = {}
  BY <1>2 DEF LastWrite
<1>. QED
  BY <1>3 DEF Applied, Effect

\* One of the two holds.
LEMMA AppliedCases ==
  ASSUME NEW s, NEW r \in Request, NEW ts, NEW p \in Path
  PROVE  \/ Applied(s, r, ts)[p] = s[p]
         \/ \E i : /\ Decides(r, i, p)
                   /\ Applied(s, r, ts)[p] = OpOf(Ordered(r)[i], ts).leaf
<1>1. \A i : Decides(r, i, p) =>
              Applied(s, r, ts)[p] = OpOf(Ordered(r)[i], ts).leaf
  BY AppliedDecided
<1>2. CASE \A k \in 1..Len(Ordered(r)) : Canon[Ordered(r)[k].xpath] # p
  BY <1>2, AppliedElsewhere
<1>3. CASE \E i : Decides(r, i, p)
  BY <1>1, <1>3
<1>. QED
  BY <1>2, <1>3, SomeDecides

\* The leaf an operation leaves behind.
LEMMA OpLeaf ==
  ASSUME NEW r \in Request, NEW i \in 1..Len(Ordered(r)), NEW ts \in 0..MaxClock
  PROVE  OpOf(Ordered(r)[i], ts).leaf \in Leaf \cup {NoLeaf}
<1>1. \A p \in Path : SchemaType(p) \in LeafType
  BY SchemaAssumption DEF SchemaType, LeafType
<1>. QED
  BY <1>1, ItemFacts DEF OpOf, Leaf, Item

\* A request leaves a content a content.
LEMMA AppliedType ==
  ASSUME NEW s \in Content, NEW r \in Request, NEW ts \in 0..MaxClock
  PROVE  Applied(s, r, ts) \in Content
<1> DEFINE a == Applied(s, r, ts)
<1>1. a = [p \in Path |-> a[p]]
  BY DEF Applied, Effect
<1>2. ASSUME NEW p \in Path PROVE a[p] \in Leaf \cup {NoLeaf}
  <2>1. CASE a[p] = s[p]
    BY <2>1 DEF Content
  <2>2. ASSUME NEW i, Decides(r, i, p), a[p] = OpOf(Ordered(r)[i], ts).leaf
        PROVE  a[p] \in Leaf \cup {NoLeaf}
    BY <2>2, OpLeaf DEF Decides
  <2>. QED
    BY <2>1, <2>2, AppliedCases
<1> HIDE DEF a
<1>3. a \in Content
  BY <1>1, <1>2 DEF Content
<1>. QED
  BY <1>3 DEF a

\* All entries of a request have passed the validation.
Sound(r) == \A i \in 1..Len(Ordered(r)) : WriteError(Ordered(r)[i]) = "none"

\* Such a request touches declared configuration leaves only, which belong to
\* the provider that takes writes, and leaves them with their declared type.
LEMMA SoundTouches ==
  ASSUME NEW s, NEW r \in Request, Sound(r), NEW ts, NEW p \in Path
  PROVE  \/ Applied(s, r, ts)[p] = s[p]
         \/ /\ p \in DOMAIN Schema /\ Schema[p] = "Config" /\ Owner[p] \in Applier
            /\ Applied(s, r, ts)[p] # NoLeaf => Applied(s, r, ts)[p].type = "Config"
<1> DEFINE a == Applied(s, r, ts)[p]
<1>1. ASSUME NEW i, Decides(r, i, p), a = OpOf(Ordered(r)[i], ts).leaf
      PROVE  /\ p \in DOMAIN Schema /\ Schema[p] = "Config" /\ Owner[p] \in Applier
             /\ a # NoLeaf => a.type = "Config"
  <2>1. WriteError(Ordered(r)[i]) = "none" /\ Canon[Ordered(r)[i].xpath] = p
    BY <1>1 DEF Sound, Decides
  <2>2. SchemaType(p) = "Config"
    BY <2>1 DEF WriteError, Writable
  <2>3. p \in DOMAIN Schema /\ Schema[p] = "Config" /\ Owner[p] \in Applier
    BY <2>2, ApplierAssumption DEF SchemaType
  <2>. QED
    BY <1>1, <2>1, <2>2, <2>3 DEF OpOf
<1>. QED
  BY <1>1, AppliedCases
-----------------------------------------------------------------------------
(* The inductive invariant: what a handler has established at each stage.   *)

Progress ==
  \A h \in Handler :
    /\ \A i \in 1..checked[h] : WriteError(Items(h)[i]) = "none"
    /\ pc[h] \in {"called", "validate"} => visited[h] = 0
    /\ pc[h] \in {"validate", "commit"} => ~req[h].extension
    /\ pc[h] = "commit" => checked[h] = Len(Items(h))

IInv == TypeOK /\ Progress /\ TypesFollowSchema /\ SensorsShareTick

\* The declared type of a path is a type.
LEMMA SchemaTypeOK == \A p \in Path : SchemaType(p) \in LeafType
BY SchemaAssumption DEF SchemaType, LeafType

LEMMA InitIInv == Init => IInv
<1> SUFFICES ASSUME Init PROVE IInv
  OBVIOUS
<1>1. PICK seeded \in SUBSET DOMAIN Schema, v \in [Path -> Val] :
        /\ Sensor \subseteq seeded
        /\ store = [p \in Path |-> IF p \in seeded
                                   THEN [val |-> v[p], ts |-> 0, type |-> Schema[p]]
                                   ELSE NoLeaf]
  BY DEF Init
<1>2. seeded \subseteq Path /\ 0 \in 0..MaxClock
  BY SchemaAssumption, ClockAssumption
<1>3. \A p \in seeded : [val |-> v[p], ts |-> 0, type |-> Schema[p]] \in Leaf
  BY <1>2, SchemaAssumption DEF Leaf
<1>4. store \in Content
  BY <1>1, <1>2, <1>3 DEF Content
<1>5. Len(Route) \in Nat
  BY RouteAssumption
<1>6. \A h \in Handler : req[h] \in Request /\ Len(Items(h)) \in Nat
  BY OrderedItems DEF Init, Items
<1>7. TypeOK
  BY <1>2, <1>4, <1>5, <1>6 DEF Init, TypeOK, Stage, Status
<1>8. Progress
  BY DEF Init, Progress
<1>9. TypesFollowSchema
  BY <1>1, <1>2 DEF TypesFollowSchema
<1>10. SensorsShareTick
  <2>1. \A p \in Sensor : store[p] = [val |-> v[p], ts |-> 0, type |-> Schema[p]]
    BY <1>1, <1>2
  <2>2. \A p \in Sensor : store[p] \in Leaf /\ store[p].ts = 0
    <3> DEFINE L(p) == [val |-> v[p], ts |-> 0, type |-> Schema[p]]
    <3>1. \A p \in Sensor : L(p) \in Leaf /\ L(p).ts = 0
      BY <1>1, <1>3
    <3> HIDE DEF L
    <3>. QED
      BY <2>1, <3>1 DEF L
  <2>. QED
    BY <2>2, LeafAssumption DEF SensorsShareTick
<1>. QED
  BY <1>7, <1>8, <1>9, <1>10 DEF IInv

\* A slice leaves a content a content, every leaf with its declared type, and
\* the sensors alone.
LEMMA SliceSound ==
  ASSUME IInv, NEW h \in Handler, pc[h] = "commit", NEW P
  PROVE  /\ Slice(store, h, P) \in Content
         /\ TypesFollowSchema' \/ store' # Slice(store, h, P)
         /\ \A p \in Sensor : Slice(store, h, P)[p] = store[p]
<1> DEFINE a == Applied(store, req[h], now[h])
           s == Slice(store, h, P)
<1>1. /\ store \in Content /\ req[h] \in Request /\ now[h] \in 0..MaxClock
  BY DEF IInv, TypeOK
<1>2. Sound(req[h])
  BY DEF IInv, Progress, Sound, Items
<1>3. a \in Content
  BY <1>1, AppliedType
<1>4. \A p \in Path : \/ a[p] = store[p]
                      \/ /\ p \in DOMAIN Schema /\ Schema[p] = "Config"
                         /\ a[p] # NoLeaf => a[p].type = "Config"
  BY <1>1, <1>2, SoundTouches
<1> HIDE DEF a
<1>5. s = [p \in Path |-> IF Owner[p] = P /\ P \in Applier THEN a[p] ELSE store[p]]
  BY DEF Slice, a
<1> HIDE DEF s
<1>6. s \in Content
  BY <1>1, <1>3, <1>5 DEF Content
<1>7. \A p \in Path : s[p] = a[p] \/ s[p] = store[p]
  BY <1>5
<1>8. \A p \in Path : s[p] # NoLeaf => p \in DOMAIN Schema /\ s[p].type = Schema[p]
  BY <1>4, <1>7 DEF IInv, TypesFollowSchema
<1>9. \A p \in Sensor : s[p] = store[p]
  BY <1>4, <1>7, SensorAssumption, SchemaAssumption
<1>. QED
  BY <1>6, <1>8, <1>9 DEF TypesFollowSchema, s

\* A handler that returns a code keeps its part of TypeOK.
LEMMA ReturnTyped ==
  ASSUME TypeOK, NEW h \in Handler, NEW c \in Status \ {"none"}, Return(h, c),
         UNCHANGED <<store, clock, req, now, checked, visited>>
  PROVE  TypeOK'
<1>1. \A g \in Handler : Items(g)' = Items(g)
  BY DEF Items
<1>2. /\ pc' \in [Handler -> Stage] /\ pc'[h] = "done"
      /\ \A g \in Handler : g # h => pc'[g] = pc[g]
      /\ status' \in [Handler -> Status] /\ status'[h] = c
      /\ \A g \in Handler : g # h => status'[g] = status[g]
  BY DEF Return, TypeOK, Stage, Status
<1>3. ASSUME NEW g \in Handler
      PROVE  status'[g] = "none" <=> pc'[g] # "done"
  BY <1>2 DEF TypeOK
<1>. QED
  BY <1>1, <1>2, <1>3 DEF TypeOK

LEMMA StepIInv == IInv /\ [Next]_vars => IInv'
<1> SUFFICES ASSUME IInv, [Next]_vars PROVE IInv'
  OBVIOUS
<1> USE DEF IInv
<1>1. /\ \A h \in Handler : req[h] \in Request /\ Len(Items(h)) \in Nat
      /\ Len(Route) \in Nat
  BY OrderedItems, RouteAssumption DEF TypeOK, Items
<1>2. ASSUME NEW h \in Handler, Begin(h) PROVE IInv'
  <2>1. TypeOK'
    <3>1. CASE req[h].extension /\ Return(h, "UNIMPLEMENTED") /\ UNCHANGED now
      BY <1>2, <3>1, ReturnTyped DEF Begin, Status
    <3>2. CASE /\ now' = [now EXCEPT ![h] = clock]
               /\ pc' = [pc EXCEPT ![h] = "validate"]
               /\ UNCHANGED status
      BY <1>1, <1>2, <3>2 DEF Begin, TypeOK, Stage, Items
    <3>. QED
      BY <1>2, <3>1, <3>2 DEF Begin
  <2>2. Progress'
    BY <1>2 DEF Begin, Return, Progress, TypeOK, Items
  <2>3. TypesFollowSchema' /\ SensorsShareTick'
    BY <1>2 DEF Begin, TypesFollowSchema, SensorsShareTick
  <2>. QED
    BY <2>1, <2>2, <2>3
<1>3. ASSUME NEW h \in Handler, Validate(h) PROVE IInv'
  <2> DEFINE e == WriteError(Items(h)[checked[h] + 1])
  <2>1. CASE e = "none" /\ checked' = [checked EXCEPT ![h] = @ + 1]
             /\ UNCHANGED <<pc, status>>
    <3>1. TypeOK'
      <4>1. checked[h] \in Nat /\ checked[h] + 1 \in Nat /\ checked[h] + 1 <= Len(Items(h))
        BY <1>1, <1>3 DEF Validate, TypeOK
      <4>. QED
        BY <1>3, <2>1, <4>1 DEF Validate, TypeOK, Items
    <3>2. Progress'
      <4> SUFFICES ASSUME NEW g \in Handler
                   PROVE /\ \A i \in 1..checked'[g] : WriteError(Items(g)[i]) = "none"
                         /\ pc'[g] \in {"called", "validate"} => visited'[g] = 0
                         /\ pc'[g] \in {"validate", "commit"} => ~req'[g].extension
                         /\ pc'[g] = "commit" => checked'[g] = Len(Items(g))
        BY <1>3 DEF Progress, Validate, Items
      <4>1. CASE g = h
        <5>1. checked'[h] = checked[h] + 1 /\ checked[h] \in Nat
          BY <2>1 DEF TypeOK
        <5>2. \A i \in 1..(checked[h] + 1) : i \in 1..checked[h] \/ i = checked[h] + 1
          BY <5>1
        <5>3. \A i \in 1..(checked[h] + 1) : WriteError(Items(h)[i]) = "none"
          BY <2>1, <5>2 DEF Progress
        <5>. QED
          BY <1>3, <2>1, <4>1, <5>1, <5>3 DEF Progress, Validate
      <4>2. CASE g # h
        BY <1>3, <2>1, <4>2 DEF Progress, Validate, TypeOK
      <4>. QED
        BY <4>1, <4>2
    <3>. QED
      BY <1>3, <3>1, <3>2 DEF Validate, TypesFollowSchema, SensorsShareTick
  <2>2. CASE e # "none" /\ Return(h, e) /\ UNCHANGED checked
    <3>1. e \in {"NOT_FOUND", "INVALID_ARGUMENT"}
      BY <2>2 DEF WriteError
    <3>2. TypeOK'
      BY <1>3, <2>2, <3>1, ReturnTyped DEF Validate, Status
    <3>3. Progress'
      BY <1>3, <2>2 DEF Validate, Return, Progress, TypeOK, Items
    <3>. QED
      BY <1>3, <3>2, <3>3 DEF Validate, TypesFollowSchema, SensorsShareTick
  <2>. QED
    BY <1>3, <2>1, <2>2 DEF Validate
<1>4. ASSUME NEW h \in Handler, EndValidation(h) PROVE IInv'
  <2>1. TypeOK'
    BY <1>1, <1>4 DEF EndValidation, TypeOK, Stage, Items
  <2>2. Progress'
    BY <1>4 DEF EndValidation, Validated, Progress, TypeOK, Items
  <2>. QED
    BY <1>4, <2>1, <2>2 DEF EndValidation, TypesFollowSchema, SensorsShareTick
<1>5. ASSUME NEW h \in Handler, CommitSlice(h) PROVE IInv'
  <2> DEFINE s == Slice(store, h, Route[visited[h] + 1])
  <2>1. pc[h] = "commit" /\ store' = s
    BY <1>5 DEF CommitSlice
  <2>2. s \in Content /\ TypesFollowSchema' /\ \A p \in Sensor : s[p] = store[p]
    BY <2>1, SliceSound
  <2>3. TypeOK'
    <3>1. visited[h] + 1 \in 0..Len(Route)
      BY <1>1, <1>5 DEF CommitSlice, TypeOK
    <3> HIDE DEF s
    <3>. QED
      BY <1>5, <2>1, <2>2, <3>1 DEF CommitSlice, TypeOK, Items
  <2>4. Progress'
    BY <1>5 DEF CommitSlice, Progress, TypeOK, Items
  <2>5. SensorsShareTick'
    BY <2>1, <2>2 DEF SensorsShareTick
  <2>. QED
    BY <2>2, <2>3, <2>4, <2>5
<1>6. ASSUME NEW h \in Handler, Finish(h) PROVE IInv'
  <2>1. TypeOK'
    BY <1>6, ReturnTyped DEF Finish, Status
  <2>2. Progress'
    BY <1>6 DEF Finish, Return, Progress, TypeOK, Items
  <2>. QED
    BY <1>6, <2>1, <2>2 DEF Finish, TypesFollowSchema, SensorsShareTick
<1>7. CASE Tick
  <2>1. PICK v \in [Sensor -> Val] : store' = Ticked(v)
    BY <1>7 DEF Tick
  <2> DEFINE L(p) == [val |-> v[p], ts |-> clock, type |-> SchemaType(p)]
  <2>2. \A p \in Sensor : p \in Path /\ p \in DOMAIN Schema
                           /\ SchemaType(p) = Schema[p] /\ L(p) \in Leaf
    BY SensorAssumption, SchemaAssumption, SchemaTypeOK
       DEF SchemaType, Leaf, TypeOK
  <2>3. \A p \in Path : store'[p] = IF p \in Sensor THEN L(p) ELSE store[p]
    BY <2>1 DEF Ticked
  <2>4. store' \in Content
    <3>1. store' = [p \in Path |-> IF p \in Sensor THEN L(p) ELSE store[p]]
      BY <2>1 DEF Ticked
    <3> HIDE DEF L
    <3>. QED
      BY <2>2, <3>1 DEF TypeOK, Content
  <2>5. TypeOK'
    BY <1>1, <1>7, <2>4 DEF Tick, TypeOK, Stage, Items
  <2>6. Progress'
    BY <1>7 DEF Tick, Progress, Items
  <2>7. \A p \in Sensor : L(p).type = Schema[p] /\ L(p).ts = clock /\ L(p) # NoLeaf
    BY <2>2, LeafAssumption
  <2> HIDE DEF L
  <2>8. TypesFollowSchema'
    BY <2>2, <2>3, <2>7 DEF TypesFollowSchema
  <2>9. SensorsShareTick'
    BY <2>2, <2>3, <2>7 DEF SensorsShareTick
  <2>. QED
    BY <2>5, <2>6, <2>8, <2>9
<1>8. CASE Advance
  <2>1. TypeOK'
    BY <1>1, <1>8, ClockAssumption DEF Advance, TypeOK, Stage, Items
  <2>. QED
    BY <1>8, <2>1 DEF Advance, Progress, Items, TypesFollowSchema, SensorsShareTick
<1>9. CASE UNCHANGED vars
  BY <1>9 DEF vars, TypeOK, Content, Progress, Items, TypesFollowSchema, SensorsShareTick
<1>. QED
  BY <1>2, <1>3, <1>4, <1>5, <1>6, <1>7, <1>8, <1>9 DEF Next, Step

LEMMA Invariance == Spec => []IInv
BY InitIInv, StepIInv, PTL DEF Spec

\* The store, the handlers and what they have got through keep their types.
THEOREM TypeCorrect == Spec => []TypeOK
BY Invariance, PTL DEF IInv

\* However the Sets of any number of clients interleave with the simulator, a
\* leaf always has its declared type.
THEOREM TypesKept == Spec => []TypesFollowSchema
BY Invariance, PTL DEF IInv

\* And no Set ever separates the collection times of the sensors.
THEOREM SensorsKept == Spec => []SensorsShareTick
BY Invariance, PTL DEF IInv
-----------------------------------------------------------------------------
(* The codes that handlers return.                                          *)

\* The code c is the one request r deserves.
Deserves(r, c) ==
  LET q == Ordered(r)
      bad == {i \in DOMAIN q : ~Good(q[i])}
  IN  \/ r.extension /\ c = "UNIMPLEMENTED"
      \/ ~r.extension /\ bad = {} /\ c = "OK"
      \/ /\ ~r.extension
         /\ \E i \in bad : (\A j \in bad : i <= j) /\ c \in Refusals(q[i])

\* The validation refuses an entry if and only if it is not good, and says why.
LEMMA ErrorIsDeserved ==
  ASSUME NEW e
  PROVE  /\ WriteError(e) = "none" <=> Good(e)
         /\ ~Good(e) => WriteError(e) \in Refusals(e)
<1>1. SchemaType(Canon[e.xpath]) = "Config" <=>
        \E p \in DOMAIN Schema : p = Canon[e.xpath] /\ Schema[p] = "Config"
  BY DEF SchemaType
<1>2. \A p \in DOMAIN Schema : Owner[p] # NoProvider
  BY SchemaAssumption
<1>3. WriteError(e) = "none" <=> Good(e)
  BY <1>1, <1>2 DEF WriteError, Good, Routed, Writable
<1>4. ASSUME ~Good(e) PROVE WriteError(e) \in Refusals(e)
  <2>1. CASE ~e.whole
    BY <2>1 DEF WriteError, Refusals
  <2>2. CASE e.whole /\ Owner[Canon[e.xpath]] = NoProvider
    BY <1>2, <2>2 DEF WriteError, Refusals, Routed
  <2>3. CASE e.whole /\ Owner[Canon[e.xpath]] # NoProvider
    BY <1>3, <1>4, <2>3 DEF WriteError, Refusals, Routed
  <2>. QED
    BY <2>1, <2>2, <2>3
<1>. QED
  BY <1>3, <1>4

\* A request is answered OK when its last entry has passed,
LEMMA SoundDeserves ==
  ASSUME NEW r \in Request, ~r.extension, Sound(r)
  PROVE  Deserves(r, "OK")
<1>1. DOMAIN Ordered(r) = 1..Len(Ordered(r))
  BY OrderedItems
<1>2. \A i \in DOMAIN Ordered(r) : Good(Ordered(r)[i])
  BY <1>1, ErrorIsDeserved DEF Sound
<1>. QED
  BY <1>2 DEF Deserves

\* and with the code of the first that does not.
LEMMA FirstBadDeserves ==
  ASSUME NEW r \in Request, ~r.extension, NEW n \in 1..Len(Ordered(r)),
         \A j \in 1..(n - 1) : WriteError(Ordered(r)[j]) = "none",
         WriteError(Ordered(r)[n]) # "none"
  PROVE  Deserves(r, WriteError(Ordered(r)[n]))
<1> DEFINE q == Ordered(r)
           bad == {i \in DOMAIN q : ~Good(q[i])}
<1>1. DOMAIN q = 1..Len(q) /\ Len(q) \in Nat
  BY OrderedItems
<1>2. \A i \in bad : i \notin 1..(n - 1)
  BY ErrorIsDeserved
<1>3. n \in bad /\ \A i \in bad : n <= i
  <2>1. n \in bad
    BY <1>1, ErrorIsDeserved
  <2>2. ASSUME NEW i \in bad PROVE n <= i
    <3>1. i \in 1..Len(q) /\ n \in 1..Len(q) /\ i \notin 1..(n - 1)
      BY <1>1, <1>2
    <3>. QED
      BY <1>1, <3>1
  <2>. QED
    BY <2>1, <2>2
<1>4. WriteError(q[n]) \in Refusals(q[n])
  BY <1>3, ErrorIsDeserved
<1>. QED
  BY <1>3, <1>4 DEF Deserves

\* Whatever clients ask and however their Sets interleave with each other and with
\* the simulator, a Set is answered OK only if all its entries are good, and
\* otherwise with a code for the first that is not.
THEOREM StatusesAreRight == Spec => []StatusIsDeserved
<1> DEFINE Right == \A h \in Handler : pc[h] = "done" => Deserves(req[h], status[h])
<1>1. Init => Right
  BY DEF Init
<1>2. IInv /\ Right /\ [Next]_vars => Right'
  <2> SUFFICES ASSUME IInv, Right, [Next]_vars, NEW h \in Handler, pc'[h] = "done"
               PROVE  Deserves(req[h], status'[h]) /\ req' = req
    OBVIOUS
  <2>1. req' = req
    BY DEF Next, Step, Begin, Validate, EndValidation, CommitSlice, Finish, Tick, Advance, vars
  <2>2. req[h] \in Request /\ Items(h) = Ordered(req[h]) /\ Len(Items(h)) \in Nat
    BY OrderedItems DEF IInv, TypeOK, Items
  <2>3. CASE Begin(h)
    <3>1. req[h].extension /\ status'[h] = "UNIMPLEMENTED"
      BY <2>3 DEF Begin, Return, IInv, TypeOK
    <3>. QED
      BY <2>1, <3>1 DEF Deserves
  <2>4. CASE Validate(h)
    <3> DEFINE n == checked[h] + 1
    <3>1. /\ checked[h] \in Nat /\ n \in 1..Len(Items(h)) /\ n - 1 = checked[h]
          /\ ~req[h].extension
      BY <2>2, <2>4 DEF Validate, IInv, TypeOK, Progress
    <3>2. WriteError(Items(h)[n]) # "none" /\ status'[h] = WriteError(Items(h)[n])
      BY <2>4 DEF Validate, Return, IInv, TypeOK
    <3>3. \A j \in 1..(n - 1) : WriteError(Items(h)[j]) = "none"
      BY <3>1 DEF IInv, Progress
    <3> HIDE DEF n
    <3>. QED
      BY <2>1, <2>2, <3>1, <3>2, <3>3, FirstBadDeserves
  <2>5. CASE Finish(h)
    <3>1. status'[h] = "OK" /\ ~req[h].extension /\ Sound(req[h])
      BY <2>2, <2>5 DEF Finish, Return, IInv, TypeOK, Progress, Sound
    <3>. QED
      BY <2>1, <2>2, <3>1, SoundDeserves
  <2>6. CASE ~(Begin(h) \/ Validate(h) \/ Finish(h))
    <3>1. DOMAIN pc = Handler /\ DOMAIN status = Handler
      BY DEF IInv, TypeOK
    <3>2. ASSUME NEW g \in Handler, g # h, Step(g)
          PROVE  pc'[h] = pc[h] /\ status'[h] = status[h]
      <4>1. CASE Begin(g)
        BY <3>1, <3>2, <4>1 DEF Begin, Return
      <4>2. CASE Validate(g)
        BY <3>1, <3>2, <4>2 DEF Validate, Return
      <4>3. CASE EndValidation(g) \/ CommitSlice(g) \/ Finish(g)
        BY <3>1, <3>2, <4>3 DEF EndValidation, CommitSlice, Finish, Return
      <4>. QED
        BY <3>2, <4>1, <4>2, <4>3 DEF Step
    <3>3. ~EndValidation(h) /\ ~CommitSlice(h)
      BY <3>1 DEF EndValidation, CommitSlice
    <3>4. CASE Tick \/ Advance \/ UNCHANGED vars
      BY <2>1, <3>4 DEF Tick, Advance, vars
    <3>. QED
      BY <2>1, <2>6, <3>2, <3>3, <3>4 DEF Next, Step
  <2>. QED
    BY <2>3, <2>4, <2>5, <2>6
<1>3. IInv /\ Right => StatusIsDeserved
  <2> SUFFICES ASSUME Right, NEW h \in Handler, pc[h] = "done"
               PROVE  LET bad == {i \in DOMAIN Items(h) : ~Good(Items(h)[i])} IN
                      \/ req[h].extension /\ status[h] = "UNIMPLEMENTED"
                      \/ ~req[h].extension /\ bad = {} /\ status[h] = "OK"
                      \/ /\ ~req[h].extension
                         /\ \E i \in bad : /\ \A j \in bad : i <= j
                                           /\ status[h] \in Refusals(Items(h)[i])
    BY DEF StatusIsDeserved
  <2>. QED
    BY DEF Deserves, Items
<1>. QED
  BY <1>1, <1>2, <1>3, Invariance, PTL DEF Spec
-----------------------------------------------------------------------------
(* Set implements AtomicSet.                                                *)

\* Last yields an entry that names the path, and no later one does.
LEMMA LastNaming ==
  ASSUME NEW list \in Seq(Item), NEW p, A!Naming(list, p) # {}
  PROVE  \E i \in 1..Len(list) :
           /\ Canon[list[i].xpath] = p
           /\ \A j \in (i + 1)..Len(list) : Canon[list[j].xpath] # p
           /\ A!Last(list, p) = list[i]
<1> DEFINE n == Len(list)
           S == A!Naming(list, p)
<1>1. n \in Nat /\ DOMAIN list = 1..n
  OBVIOUS
<1>2. S = {i \in 1..n : Canon[list[i].xpath] = p}
  BY <1>1 DEF A!Naming
<1>3. A!Last(list, p) = list[CHOOSE i \in S : \A j \in S : j <= i]
  BY DEF A!Last
<1> HIDE DEF S, n
<1>4. \E i \in S : \A j \in S : j <= i
  <2>1. S \in SUBSET (1..n) /\ S # {}
    BY <1>2 DEF S
  <2>. QED
    BY <1>1, <2>1, LastPosition
<1>5. PICK i \in S : (\A j \in S : j <= i) /\ A!Last(list, p) = list[i]
  BY <1>3, <1>4
<1>6. ASSUME NEW j \in (i + 1)..n PROVE Canon[list[j].xpath] # p
  <2>1. i \in 1..n /\ j \in 1..n /\ ~(j <= i)
    BY <1>1, <1>2
  <2>. QED
    BY <1>2, <1>5, <2>1
<1>. QED
  BY <1>2, <1>5, <1>6 DEF n

\* The entry that decides on a path writes what Final says.
LEMMA AppliedIsFinal ==
  ASSUME NEW s, NEW r \in Request, NEW ts
  PROVE  Applied(s, r, ts) = A!Final(s, r, ts)
<1> DEFINE q == Ordered(r)
           del == r.delete
           rpl == r.replace
           upd == r.update
           D == Len(del)
           R == Len(rpl)
           U == Len(upd)
           n == Len(q)
<1>1. /\ del \in Seq(Item) /\ rpl \in Seq(Item) /\ upd \in Seq(Item)
      /\ n = D + R + U
      /\ \A i \in 1..D : q[i] = del[i]
      /\ \A i \in 1..R : q[D + i] = rpl[i]
      /\ \A i \in 1..U : q[D + R + i] = upd[i]
  BY OrderedItems
<1>2. /\ \A i \in 1..D : del[i].kind = "Remove"
      /\ \A i \in 1..R : rpl[i].kind = "Set"
      /\ \A i \in 1..U : upd[i].kind = "Set"
  <2>1. /\ del \in Seq({e \in Item : e.kind = "Remove" /\ e.whole})
        /\ rpl \in Seq({e \in Item : e.kind = "Set"})
        /\ upd \in Seq({e \in Item : e.kind = "Set"})
    BY RequestAssumption DEF RequestOK
  <2> HIDE DEF del, rpl, upd
  <2>. QED
    BY <2>1
<1> SUFFICES ASSUME NEW p \in Path PROVE Applied(s, r, ts)[p] = A!Final(s, r, ts)[p]
  BY DEF Applied, Effect, A!Final
<1>3. A!Final(s, r, ts)[p] =
        IF A!Naming(upd, p) # {} THEN A!Written(A!Last(upd, p), ts)
        ELSE IF A!Naming(rpl, p) # {} THEN A!Written(A!Last(rpl, p), ts)
        ELSE IF A!Naming(del, p) # {} THEN NoLeaf
        ELSE s[p]
  BY DEF A!Final
<1>4. \A i : Decides(r, i, p) => Applied(s, r, ts)[p] = OpOf(q[i], ts).leaf
  BY AppliedDecided
<1>5. (\A k \in 1..n : Canon[q[k].xpath] # p) => Applied(s, r, ts)[p] = s[p]
  BY AppliedElsewhere
<1>6. \A i : Decides(r, i, p) <=>
              /\ i \in 1..n /\ Canon[q[i].xpath] = p
              /\ \A j \in (i + 1)..n : Canon[q[j].xpath] # p
  BY DEF Decides
<1>7. \A e : e.kind = "Set" => OpOf(e, ts).leaf = A!Written(e, ts)
  BY DEF OpOf, A!Written, A!SchemaType, SchemaType
<1>8. \A e : e.kind = "Remove" => OpOf(e, ts).leaf = NoLeaf
  BY DEF OpOf
<1> DEFINE None(list) == \A i \in 1..Len(list) : Canon[list[i].xpath] # p
<1> HIDE DEF q, del, rpl, upd
<1>9. D \in Nat /\ R \in Nat /\ U \in Nat
  BY <1>1
<1>10. \A list \in Seq(Item) : A!Naming(list, p) = {} => None(list)
  BY DEF A!Naming
<1>11. ASSUME NEW k \in 1..n
       PROVE  \/ k \in 1..D /\ q[k] = del[k]
              \/ \E m \in 1..R : k = D + m /\ q[k] = rpl[m]
              \/ \E m \in 1..U : k = D + R + m /\ q[k] = upd[m]
  <2>1. CASE k \in 1..D
    BY <1>1, <2>1
  <2>2. CASE k - D \in 1..R
    <3>1. k = D + (k - D)
      BY <1>9
    <3>. QED
      BY <1>1, <2>2, <3>1
  <2>3. CASE k - (D + R) \in 1..U
    <3>1. k = D + R + (k - (D + R))
      BY <1>9
    <3>. QED
      BY <1>1, <2>3, <3>1
  <2>. QED
    BY <1>1, <1>9, <2>1, <2>2, <2>3
<1>12. CASE A!Naming(upd, p) # {}
  <2>1. PICK i \in 1..U : /\ Canon[upd[i].xpath] = p
                          /\ \A j \in (i + 1)..U : Canon[upd[j].xpath] # p
                          /\ A!Last(upd, p) = upd[i]
    <3>1. upd \in Seq(Item) /\ A!Naming(upd, p) # {}
      BY <1>1, <1>12
    <3>. QED
      BY <3>1, LastNaming
  <2>2. ASSUME NEW j \in (D + R + i + 1)..n PROVE Canon[q[j].xpath] # p
    <3>1. j \in 1..n
      BY <1>1, <1>9
    <3>2. PICK m \in 1..U : j = D + R + m /\ q[j] = upd[m]
      BY <1>9, <1>11, <3>1
    <3>3. m \in (i + 1)..U
      BY <1>9, <3>2
    <3>. QED
      BY <2>1, <3>2, <3>3
  <2>3. D + R + i \in 1..n /\ q[D + R + i] = upd[i]
    BY <1>1, <1>9
  <2>4. Decides(r, D + R + i, p)
    BY <1>6, <2>1, <2>2, <2>3
  <2>5. Applied(s, r, ts)[p] = OpOf(upd[i], ts).leaf
    BY <1>4, <2>3, <2>4
  <2>. QED
    BY <1>2, <1>3, <1>7, <1>12, <2>1, <2>5
<1>13. CASE A!Naming(upd, p) = {} /\ A!Naming(rpl, p) # {}
  <2>1. PICK i \in 1..R : /\ Canon[rpl[i].xpath] = p
                          /\ \A j \in (i + 1)..R : Canon[rpl[j].xpath] # p
                          /\ A!Last(rpl, p) = rpl[i]
    <3>1. rpl \in Seq(Item) /\ A!Naming(rpl, p) # {}
      BY <1>1, <1>13
    <3>. QED
      BY <3>1, LastNaming
  <2>2. ASSUME NEW j \in (D + i + 1)..n PROVE Canon[q[j].xpath] # p
    <3>1. j \in 1..n
      BY <1>1, <1>9
    <3>2. \/ \E m \in 1..R : j = D + m /\ q[j] = rpl[m]
          \/ \E m \in 1..U : q[j] = upd[m]
      BY <1>9, <1>11, <3>1
    <3>3. \A m \in 1..R : j = D + m => m \in (i + 1)..R
      BY <1>9
    <3>4. None(upd)
      BY <1>1, <1>10, <1>13
    <3>. QED
      BY <2>1, <3>2, <3>3, <3>4
  <2>3. D + i \in 1..n /\ q[D + i] = rpl[i]
    BY <1>1, <1>9
  <2>4. Decides(r, D + i, p)
    BY <1>6, <2>1, <2>2, <2>3
  <2>5. Applied(s, r, ts)[p] = OpOf(rpl[i], ts).leaf
    BY <1>4, <2>3, <2>4
  <2>. QED
    BY <1>2, <1>3, <1>7, <1>13, <2>1, <2>5
<1>14. CASE A!Naming(upd, p) = {} /\ A!Naming(rpl, p) = {} /\ A!Naming(del, p) # {}
  <2>1. PICK i \in 1..D : /\ Canon[del[i].xpath] = p
                          /\ \A j \in (i + 1)..D : Canon[del[j].xpath] # p
                          /\ A!Last(del, p) = del[i]
    <3>1. del \in Seq(Item) /\ A!Naming(del, p) # {}
      BY <1>1, <1>14
    <3>. QED
      BY <3>1, LastNaming
  <2>2. None(upd) /\ None(rpl)
    BY <1>1, <1>10, <1>14
  <2>3. ASSUME NEW j \in (i + 1)..n PROVE Canon[q[j].xpath] # p
    <3>1. j \in 1..n /\ (j \in 1..D => j \in (i + 1)..D)
      BY <1>1, <1>9
    <3>2. \/ j \in 1..D /\ q[j] = del[j]
          \/ \E m \in 1..R : q[j] = rpl[m]
          \/ \E m \in 1..U : q[j] = upd[m]
      BY <1>11, <3>1
    <3>. QED
      BY <2>1, <2>2, <3>1, <3>2
  <2>4. i \in 1..n /\ q[i] = del[i]
    BY <1>1, <1>9
  <2>5. Decides(r, i, p)
    BY <1>6, <2>1, <2>3, <2>4
  <2>6. Applied(s, r, ts)[p] = OpOf(del[i], ts).leaf
    BY <1>4, <2>4, <2>5
  <2>. QED
    BY <1>2, <1>3, <1>8, <1>14, <2>6
<1>15. CASE A!Naming(upd, p) = {} /\ A!Naming(rpl, p) = {} /\ A!Naming(del, p) = {}
  <2>1. None(upd) /\ None(rpl) /\ None(del)
    BY <1>1, <1>10, <1>15
  <2>2. ASSUME NEW k \in 1..n PROVE Canon[q[k].xpath] # p
    <3>1. \/ k \in 1..D /\ q[k] = del[k]
          \/ \E m \in 1..R : q[k] = rpl[m]
          \/ \E m \in 1..U : q[k] = upd[m]
      BY <1>11
    <3>. QED
      BY <2>1, <3>1
  <2>. QED
    BY <1>3, <1>5, <1>15, <2>2
<1>. QED
  BY <1>12, <1>13, <1>14, <1>15

\* AtomicSet refuses for the same reasons.
LEMMA SameReasons == \A e : A!WriteError(e) = WriteError(e)
BY DEF A!WriteError, WriteError, A!Routed, Routed, A!Writable, Writable, A!SchemaType, SchemaType

LEMMA SameOrder == \A r : A!Ordered(r) = Ordered(r)
BY DEF A!Ordered, Ordered

\* The verdict on a request all of whose entries pass,
LEMMA VerdictSound ==
  ASSUME NEW r \in Request, Sound(r), ~r.extension
  PROVE  A!Verdict(r) = "OK"
<1>1. DOMAIN Ordered(r) = 1..Len(Ordered(r))
  BY OrderedItems
<1>2. {i \in DOMAIN Ordered(r) : WriteError(Ordered(r)[i]) # "none"} = {}
  BY <1>1 DEF Sound
<1>. QED
  BY <1>2, SameReasons, SameOrder DEF A!Verdict

\* and on one whose entry i is the first that does not.
LEMMA VerdictFirstBad ==
  ASSUME NEW r \in Request, ~r.extension, NEW i \in 1..Len(Ordered(r)),
         WriteError(Ordered(r)[i]) # "none",
         \A j \in 1..(i - 1) : WriteError(Ordered(r)[j]) = "none"
  PROVE  A!Verdict(r) = WriteError(Ordered(r)[i])
<1> DEFINE q == Ordered(r)
           bad == {k \in DOMAIN q : WriteError(q[k]) # "none"}
           first == CHOOSE k \in bad : \A j \in bad : k <= j
<1>1. DOMAIN q = 1..Len(q) /\ Len(q) \in Nat
  BY OrderedItems
<1>2. A!Verdict(r) = IF bad = {} THEN "OK" ELSE WriteError(q[first])
  BY SameReasons, SameOrder DEF A!Verdict
<1> HIDE DEF q
<1>3. i \in bad
  BY <1>1 DEF q
<1>4. \A j \in bad : i <= j
  <2> SUFFICES ASSUME NEW j \in bad, j < i PROVE FALSE
    BY <1>1, <1>3
  <2>1. j \in 1..(i - 1)
    BY <1>1
  <2>. QED
    BY <2>1 DEF q
<1>5. \A k \in bad : (\A j \in bad : k <= j) => k = i
  BY <1>1, <1>3, <1>4
<1> HIDE DEF bad
<1>6. first = i
  BY <1>3, <1>4, <1>5
<1>. QED
  BY <1>2, <1>3, <1>6 DEF q

\* Only the slice of the provider that takes writes changes anything, and it
\* is the whole request.
LEMMA SliceIsFinal ==
  ASSUME IInv, NEW h \in Handler, pc[h] = "commit", NEW k \in 1..Len(Route)
  PROVE  /\ Turn \in 1..Len(Route)
         /\ k = Turn => Slice(store, h, Route[k]) = A!Final(store, req[h], now[h])
         /\ k # Turn => Slice(store, h, Route[k]) = store
<1> DEFINE a == Applied(store, req[h], now[h])
<1>1. /\ store \in Content /\ req[h] \in Request /\ now[h] \in 0..MaxClock
  BY DEF IInv, TypeOK
<1>2. Sound(req[h])
  BY DEF IInv, Progress, Sound, Items
<1>3. DOMAIN Route = 1..Len(Route)
  BY RouteAssumption
<1>4. \E i \in DOMAIN Route : Applier = {Route[i]}
  BY ApplierAssumption
<1>5. Turn \in DOMAIN Route /\ Applier = {Route[Turn]}
  BY <1>4 DEF Turn
<1>6. Route[k] \in Applier <=> k = Turn
  BY <1>3, <1>5, RouteAssumption
<1>7. a \in Content
  BY <1>1, AppliedType
<1>8. \A p \in Path : a[p] = store[p] \/ Owner[p] = Route[Turn]
  BY <1>1, <1>2, <1>5, SoundTouches
<1>9. a = A!Final(store, req[h], now[h])
  BY <1>1, AppliedIsFinal
<1> HIDE DEF a
<1>10. Slice(store, h, Route[k]) =
         [p \in Path |-> IF Owner[p] = Route[k] /\ Route[k] \in Applier
                        THEN a[p] ELSE store[p]]
  BY DEF Slice, a
<1>11. CASE k = Turn
  <2>1. Slice(store, h, Route[k]) = [p \in Path |-> a[p]]
    BY <1>6, <1>8, <1>10, <1>11
  <2>2. a = [p \in Path |-> a[p]]
    BY <1>7 DEF Content
  <2>. QED
    BY <1>3, <1>5, <1>9, <1>11, <2>1, <2>2
<1>12. CASE k # Turn
  <2>1. store = [p \in Path |-> store[p]]
    BY <1>1 DEF Content
  <2>. QED
    BY <1>3, <1>5, <1>6, <1>10, <1>12, <2>1
<1>. QED
  BY <1>11, <1>12

LEMMA RefineInit == Init => A!AInit
<1> SUFFICES ASSUME Init PROVE A!AInit
  OBVIOUS
<1>1. store \in Content
  BY InitIInv DEF IInv, TypeOK
<1>2. A!Content = Content
  BY DEF A!Content, Content, A!Leaf, Leaf, A!LeafType, LeafType
<1>3. \A h \in Handler : Outcome(h) = "none"
  BY DEF Init, Outcome
<1>. QED
  BY <1>1, <1>2, <1>3 DEF Init, A!AInit

\* The outcomes after a step of handler h, the others standing still.
LEMMA OutcomeOf ==
  ASSUME IInv, NEW h \in Handler, NEW c,
         \A g \in Handler \ {h} :
           pc'[g] = pc[g] /\ status'[g] = status[g] /\ visited'[g] = visited[g],
         Outcome(h)' = c
  PROVE  [g \in Handler |-> Outcome(g)]'
           = [[g \in Handler |-> Outcome(g)] EXCEPT ![h] = c]
<1>1. Turn' = Turn
  BY DEF Turn
<1>2. \A g \in Handler \ {h} : Outcome(g)' = Outcome(g)
  BY <1>1 DEF Outcome
<1>. QED
  BY <1>2

\* A step that leaves the store alone and does not change what the Set has
\* come to is a stutter; one that decides it is a refusal.
LEMMA RefineQuiet ==
  ASSUME IInv, NEW h \in Handler,
         \A g \in Handler \ {h} :
           pc'[g] = pc[g] /\ status'[g] = status[g] /\ visited'[g] = visited[g],
         UNCHANGED <<store, req>>,
         \/ Outcome(h)' = Outcome(h)
         \/ /\ Outcome(h) = "none"
            /\ Outcome(h)' = A!Verdict(req[h]) /\ A!Verdict(req[h]) # "OK"
  PROVE  [A!ANext]_(A!avars)
<1> DEFINE out == [g \in Handler |-> Outcome(g)]
<1>1. CASE Outcome(h)' = Outcome(h)
  <2>1. out' = [out EXCEPT ![h] = Outcome(h)]
    BY <1>1, OutcomeOf
  <2>2. out' = out
    BY <2>1
  <2>. QED
    BY <2>2 DEF A!avars
<1>2. CASE /\ Outcome(h) = "none"
           /\ Outcome(h)' = A!Verdict(req[h]) /\ A!Verdict(req[h]) # "OK"
  <2>1. out' = [out EXCEPT ![h] = A!Verdict(req[h])]
    BY <1>2, OutcomeOf
  <2>2. A!ARefuse(h)
    BY <1>2, <2>1 DEF A!ARefuse
  <2>. QED
    BY <2>2 DEF A!ANext
<1>. QED
  BY <1>1, <1>2

LEMMA RefineStep == IInv /\ [Next]_vars => [A!ANext]_(A!avars)
<1> SUFFICES ASSUME IInv, [Next]_vars PROVE [A!ANext]_(A!avars)
  OBVIOUS
<1> DEFINE out == [g \in Handler |-> Outcome(g)]
<1>0. /\ \A h \in Handler : req[h] \in Request /\ Len(Items(h)) \in Nat
      /\ Len(Route) \in Nat /\ Turn' = Turn /\ Turn \in 1..Len(Route)
  <2>1. \E i \in DOMAIN Route : Applier = {Route[i]}
    BY ApplierAssumption
  <2>2. Turn \in DOMAIN Route
    BY <2>1 DEF Turn
  <2>. QED
    BY <2>2, OrderedItems, RouteAssumption DEF IInv, TypeOK, Items, Turn
<1>1. ASSUME NEW h \in Handler, Begin(h) PROVE [A!ANext]_(A!avars)
  <2>1. /\ UNCHANGED <<store, req>> /\ Outcome(h) = "none"
        /\ \A g \in Handler \ {h} :
             pc'[g] = pc[g] /\ status'[g] = status[g] /\ visited'[g] = visited[g]
    BY <1>1 DEF Begin, Return, IInv, TypeOK, Outcome
  <2>2. CASE req[h].extension /\ Return(h, "UNIMPLEMENTED")
    <3>1. A!Verdict(req[h]) = "UNIMPLEMENTED"
      BY <2>2 DEF A!Verdict
    <3>2. Outcome(h)' = "UNIMPLEMENTED"
      BY <2>2 DEF Return, Outcome, IInv, TypeOK
    <3>. QED
      BY <2>1, <3>1, <3>2, RefineQuiet
  <2>3. CASE pc' = [pc EXCEPT ![h] = "validate"] /\ UNCHANGED status
    <3>1. Outcome(h)' = "none"
      BY <1>1, <2>3 DEF Begin, Outcome, IInv, TypeOK
    <3>. QED
      BY <2>1, <3>1, RefineQuiet
  <2>. QED
    BY <1>1, <2>2, <2>3 DEF Begin
<1>2. ASSUME NEW h \in Handler, Validate(h) PROVE [A!ANext]_(A!avars)
  <2> DEFINE i == checked[h] + 1
             e == WriteError(Items(h)[i])
  <2>1. /\ UNCHANGED <<store, req>> /\ Outcome(h) = "none" /\ pc[h] = "validate"
        /\ \A g \in Handler \ {h} :
             pc'[g] = pc[g] /\ status'[g] = status[g] /\ visited'[g] = visited[g]
    BY <1>2 DEF Validate, Return, IInv, TypeOK, Outcome
  <2>2. CASE e = "none" /\ UNCHANGED <<pc, status>>
    <3>1. Outcome(h)' = "none"
      BY <1>2, <2>1, <2>2 DEF Validate, Outcome, IInv, TypeOK
    <3>. QED
      BY <2>1, <3>1, RefineQuiet
  <2>3. CASE e # "none" /\ Return(h, e)
    <3>1. i \in 1..Len(Items(h)) /\ i - 1 = checked[h] /\ ~req[h].extension
      BY <1>0, <1>2, <2>1 DEF Validate, IInv, TypeOK, Progress
    <3>2. \A j \in 1..(i - 1) : WriteError(Items(h)[j]) = "none"
      BY <3>1 DEF IInv, Progress
    <3>3. A!Verdict(req[h]) = e
      <4> HIDE DEF i
      <4>. QED
        BY <1>0, <2>3, <3>1, <3>2, VerdictFirstBad DEF Items
    <3>4. e # "OK" /\ Outcome(h)' = e
      BY <2>3 DEF WriteError, Return, Outcome, IInv, TypeOK
    <3>. QED
      BY <2>1, <3>3, <3>4, RefineQuiet
  <2>. QED
    BY <1>2, <2>2, <2>3 DEF Validate
<1>3. ASSUME NEW h \in Handler, EndValidation(h) PROVE [A!ANext]_(A!avars)
  <2>1. /\ UNCHANGED <<store, req>> /\ Outcome(h) = "none" /\ pc[h] = "validate"
        /\ \A g \in Handler \ {h} :
             pc'[g] = pc[g] /\ status'[g] = status[g] /\ visited'[g] = visited[g]
    BY <1>3 DEF EndValidation, IInv, TypeOK, Outcome
  <2>2. visited'[h] = 0 /\ status'[h] = "none"
    BY <1>3, <2>1 DEF EndValidation, IInv, TypeOK, Progress
  <2>3. Outcome(h)' = "none"
    BY <1>0, <2>2 DEF Outcome
  <2>. QED
    BY <2>1, <2>3, RefineQuiet
<1>4. ASSUME NEW h \in Handler, CommitSlice(h) PROVE [A!ANext]_(A!avars)
  <2> DEFINE k == visited[h] + 1
  <2>1. /\ UNCHANGED req /\ pc[h] = "commit" /\ pc'[h] = "commit"
        /\ visited[h] \in Nat /\ k \in 1..Len(Route) /\ visited'[h] = k
        /\ status[h] = "none" /\ status'[h] = "none"
        /\ \A g \in Handler \ {h} :
             pc'[g] = pc[g] /\ status'[g] = status[g] /\ visited'[g] = visited[g]
        /\ store' = Slice(store, h, Route[k])
    BY <1>0, <1>4 DEF CommitSlice, IInv, TypeOK
  <2> HIDE DEF k
  <2>2. /\ k = Turn => store' = A!Final(store, req[h], now[h])
        /\ k # Turn => store' = store
    BY <2>1, SliceIsFinal
  <2>3. CASE k = Turn
    <3>1. Outcome(h) = "none" /\ Outcome(h)' = "OK"
      BY <1>0, <2>1, <2>3 DEF Outcome, k
    <3>2. out' = [out EXCEPT ![h] = "OK"]
      BY <2>1, <3>1, OutcomeOf
    <3>3. A!Verdict(req[h]) = "OK"
      <4>1. Sound(req[h]) /\ ~req[h].extension
        BY <2>1 DEF IInv, Progress, Sound, Items
      <4>. QED
        BY <1>0, <4>1, VerdictSound
    <3>4. now[h] \in 0..MaxClock
      BY DEF IInv, TypeOK
    <3>5. A!AApply(h)
      BY <2>1, <2>2, <2>3, <3>1, <3>2, <3>3, <3>4 DEF A!AApply
    <3>. QED
      BY <3>5 DEF A!ANext
  <2>4. CASE k # Turn
    <3>1. Outcome(h)' = Outcome(h)
      BY <1>0, <2>1, <2>4 DEF Outcome, k
    <3>. QED
      BY <2>1, <2>2, <2>4, <3>1, RefineQuiet
  <2>. QED
    BY <2>3, <2>4
<1>5. ASSUME NEW h \in Handler, Finish(h) PROVE [A!ANext]_(A!avars)
  <2>1. /\ UNCHANGED <<store, req>> /\ pc[h] = "commit" /\ visited[h] = Len(Route)
        /\ status[h] = "none" /\ status'[h] = "OK"
        /\ \A g \in Handler \ {h} :
             pc'[g] = pc[g] /\ status'[g] = status[g] /\ visited'[g] = visited[g]
    BY <1>5 DEF Finish, Return, IInv, TypeOK
  <2>2. Outcome(h)' = Outcome(h)
    BY <1>0, <2>1 DEF Outcome
  <2>. QED
    BY <2>1, <2>2, RefineQuiet
<1>6. CASE Tick
  <2>1. PICK v \in [Sensor -> Val] : store' = Ticked(v)
    BY <1>6 DEF Tick
  <2>2. clock \in 0..MaxClock
    BY DEF IInv, TypeOK
  <2>3. UNCHANGED <<req, out>>
    BY <1>0, <1>6 DEF Tick, Outcome
  <2>4. A!ATick
    BY <2>1, <2>2, <2>3 DEF A!ATick, Ticked, A!SchemaType, SchemaType
  <2>. QED
    BY <2>4 DEF A!ANext
<1>7. CASE Advance \/ UNCHANGED vars
  BY <1>0, <1>7 DEF Advance, vars, A!avars, Outcome
<1>. QED
  BY <1>1, <1>2, <1>3, <1>4, <1>5, <1>6, <1>7 DEF Next, Step

\* A Set validates entry by entry and commits provider by provider, and still
\* takes effect in one step or not at all, whatever the requests, the schema
\* and the order in which the providers were registered.
THEOREM SetRefinement == Spec => ImplementsAtomicSet
BY Invariance, RefineInit, RefineStep, PTL DEF Spec, ImplementsAtomicSet, A!ASpec
=============================================================================
