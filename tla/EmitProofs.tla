----------------------------- MODULE EmitProofs -----------------------------
(***************************************************************************)
(* What a client's copy becomes when it receives what subscribe_emit.cpp   *)
(* builds, for any leaves, containers and snapshots, and how what is built *)
(* is stamped.  PollDiffProofs and SubscribeProofs rest on these lemmas.   *)
(***************************************************************************)
EXTENDS Emit, FiniteSetTheorems, TLAPS

LOCAL INSTANCE FiniteSetsExt

\* A Notification is for one group, tells the values of present leaves of that
\* group only, and deletes absent leaves of that group only.
LEMMA ChangeNote ==
  ASSUME NEW s \in Snapshot, NEW t \in Snapshot, NEW time,
         NEW n \in BuildChange(s, t, time)
  PROVE  /\ n.group \in Touched(s, t)
         /\ n.atomic <=> n.group # Flat
         /\ \A p \in DOMAIN n.update : /\ p \in Path
                                       /\ GroupOf[p] = n.group
                                       /\ p \in Present(t)
                                       /\ n.update[p] = t[p].val
         /\ \A p \in n.delete : /\ p \in Path
                                /\ GroupOf[p] = n.group
                                /\ p \notin Present(t)
         /\ n.group = Flat =>
              /\ DOMAIN n.update = {p \in Updated(s, t) : GroupOf[p] = Flat}
              /\ n.delete = {p \in Removed(s, t) : GroupOf[p] = Flat}
         /\ n.group # Flat => DOMAIN n.update = Members(t, n.group)
<1>1. PICK g \in Touched(s, t) :
        n = IF g = Flat THEN FlatChange(s, t, time)
            ELSE ContainerChange(g, s, t, time)
  BY DEF BuildChange
<1>2. CASE g = Flat
  BY <1>1, <1>2
  DEF FlatChange, Note, Updated, Removed, Present
<1>3. CASE g # Flat
  <2>1. CASE Members(t, g) = {}
    BY <1>1, <1>3, <2>1 DEF ContainerChange, Note, Members
  <2>2. CASE Members(t, g) # {}
    BY <1>1, <1>3, <2>2
    DEF ContainerChange, FullNote, Note, Members, Present
  <2>. QED
    BY <2>1, <2>2
<1>. QED
  BY <1>2, <1>3

\* Every group that changed gets its Notification.
LEMMA ChangeSent ==
  ASSUME NEW s \in Snapshot, NEW t \in Snapshot, NEW time,
         NEW g \in Touched(s, t)
  PROVE  \E n \in BuildChange(s, t, time) : n.group = g
<1> DEFINE n == IF g = Flat THEN FlatChange(s, t, time)
                ELSE ContainerChange(g, s, t, time)
<1>1. n \in BuildChange(s, t, time)
  BY DEF BuildChange
<1>2. n.group = g
  BY DEF FlatChange, ContainerChange, FullNote, Note
<1>. QED
  BY <1>1, <1>2

\* The client's copy of one path after a change is received.
LEMMA ReceiveChange ==
  ASSUME NEW s \in Snapshot, NEW t \in Snapshot, NEW time,
         NEW v \in View, NEW p \in Path
  PROVE  LET w == Receive(v, BuildChange(s, t, time))
         IN  /\ GroupOf[p] \notin Touched(s, t) => w[p] = v[p]
             /\ GroupOf[p] = Flat /\ p \notin Changed(s, t) => w[p] = v[p]
             /\ p \in Changed(s, t) => w[p] = ValueOf(t[p])
             /\ GroupOf[p] # Flat /\ GroupOf[p] \in Touched(s, t)
                  => w[p] = ValueOf(t[p])
<1> DEFINE ns == BuildChange(s, t, time)
           w == Receive(v, ns)
<1>1. \A n \in Telling(ns, p) : n.group = GroupOf[p] /\ n.update[p] = ValueOf(t[p])
  <2> SUFFICES ASSUME NEW n \in Telling(ns, p)
               PROVE  n.group = GroupOf[p] /\ n.update[p] = ValueOf(t[p])
    OBVIOUS
  <2>1. n \in ns /\ p \in DOMAIN n.update
    BY DEF Telling
  <2>. QED
    BY <2>1, ChangeNote DEF ValueOf, Present
<1>2. Telling(ns, p) # {} => w[p] = ValueOf(t[p])
  BY <1>1 DEF Receive
<1>3. Telling(ns, p) = {} /\ Wiping(ns, p) # {} => w[p] = NoLeaf
  BY DEF Receive
<1>4. Telling(ns, p) = {} /\ Wiping(ns, p) = {} => w[p] = v[p]
  BY DEF Receive
<1>5. \A n \in Wiping(ns, p) : n.group = GroupOf[p]
  BY ChangeNote DEF Wiping
<1>6. CASE GroupOf[p] \notin Touched(s, t)
  <2>1. Telling(ns, p) = {} /\ Wiping(ns, p) = {}
    BY <1>1, <1>5, <1>6, ChangeNote DEF Telling, Wiping
  <2>2. p \notin Changed(s, t)
    BY <1>6 DEF Touched
  <2>. QED
    BY <1>4, <1>6, <2>1, <2>2
<1>7. CASE GroupOf[p] = Flat /\ Flat \in Touched(s, t)
  <2>1. PICK n \in ns : n.group = Flat
    BY <1>7, ChangeSent
  <2>2. /\ DOMAIN n.update = {q \in Updated(s, t) : GroupOf[q] = Flat}
        /\ n.delete = {q \in Removed(s, t) : GroupOf[q] = Flat}
    BY <2>1, ChangeNote
  <2>3. \A m \in ns : m.group = Flat =>
           /\ DOMAIN m.update = {q \in Updated(s, t) : GroupOf[q] = Flat}
           /\ m.delete = {q \in Removed(s, t) : GroupOf[q] = Flat}
           /\ ~m.atomic
    BY ChangeNote
  <2>4. CASE p \in Updated(s, t)
    <3>1. n \in Telling(ns, p)
      BY <1>7, <2>2, <2>4 DEF Telling
    <3>2. w[p] = ValueOf(t[p])
      BY <3>1, <1>2
    <3>. QED
      BY <3>2, <1>7, <2>4 DEF Changed
  <2>5. CASE p \in Removed(s, t)
    <3>1. p \notin Updated(s, t) /\ ValueOf(t[p]) = NoLeaf
      BY <2>5 DEF Removed, Updated, Present, ValueOf
    <3>2. Telling(ns, p) = {}
      BY <3>1, <1>1, <1>7, <2>3 DEF Telling
    <3>3. n \in Wiping(ns, p)
      BY <1>7, <2>2, <2>5 DEF Wiping
    <3>. QED
      BY <1>3, <1>7, <2>5, <3>1, <3>2, <3>3 DEF Changed
  <2>6. CASE p \notin Changed(s, t)
    <3>1. Telling(ns, p) = {}
      BY <2>6, <1>1, <1>7, <2>3 DEF Telling, Changed
    <3>2. Wiping(ns, p) = {}
      BY <2>6, <1>5, <1>7, <2>3 DEF Wiping, Changed
    <3>. QED
      BY <1>4, <1>7, <2>6, <3>1, <3>2
  <2>. QED
    BY <2>4, <2>5, <2>6 DEF Changed
<1>8. CASE GroupOf[p] # Flat /\ GroupOf[p] \in Touched(s, t)
  <2>1. PICK n \in ns : n.group = GroupOf[p]
    BY <1>8, ChangeSent
  <2>2. DOMAIN n.update = Members(t, GroupOf[p]) /\ n.atomic
    BY <1>8, <2>1, ChangeNote
  <2>3. CASE p \in Present(t)
    <3>1. n \in Telling(ns, p)
      BY <2>2, <2>3 DEF Telling, Members
    <3>. QED
      BY <1>2, <1>8, <3>1
  <2>4. CASE p \notin Present(t)
    <3>1. Telling(ns, p) = {}
      BY <2>4, ChangeNote DEF Telling
    <3>2. n \in Wiping(ns, p)
      BY <2>1, <2>2 DEF Wiping
    <3>3. ValueOf(t[p]) = NoLeaf
      BY <2>4 DEF ValueOf, Present
    <3>. QED
      BY <1>3, <1>8, <3>1, <3>2, <3>3
  <2>. QED
    BY <2>3, <2>4
<1>. QED
  BY <1>6, <1>7, <1>8

\* A leaf that is not touched has not changed; so a copy of snapshot s becomes
\* a copy of snapshot t.
LEMMA ChangeCarries ==
  ASSUME NEW s \in Snapshot, NEW t \in Snapshot, NEW time, NEW v \in View,
         NEW p \in Path, v[p] = ValueOf(s[p])
  PROVE  Receive(v, BuildChange(s, t, time))[p] = ValueOf(t[p])
<1>1. p \notin Changed(s, t) => ValueOf(t[p]) = ValueOf(s[p])
  BY DEF Changed, Updated, Removed, Present, ValueOf
<1>2. GroupOf[p] \notin Touched(s, t) => p \notin Changed(s, t)
  BY DEF Touched
<1>. QED
  BY <1>1, <1>2, ReceiveChange

\* Values of leaves are values.
LEMMA ValueType ==
  ASSUME NEW s \in Snapshot, NEW p \in Path
  PROVE  ValueOf(s[p]) \in Val \cup {NoLeaf}
BY DEF Snapshot, Leaf, ValueOf

\* What a client receives leaves its copy a copy.
LEMMA ReceiveType ==
  ASSUME NEW s \in Snapshot, NEW t \in Snapshot, NEW time, NEW v \in View
  PROVE  Receive(v, BuildChange(s, t, time)) \in View
<1> DEFINE w == Receive(v, BuildChange(s, t, time))
<1>1. ASSUME NEW p \in Path PROVE w[p] \in Val \cup {NoLeaf}
  <2>1. w[p] = v[p] \/ w[p] = ValueOf(t[p])
    BY ReceiveChange
  <2>. QED
    BY <2>1, ValueType DEF View
<1>. QED
  BY <1>1 DEF Receive, View
-----------------------------------------------------------------------------
\* Every Notification of a full snapshot is for one group and tells all its
\* leaves.
LEMMA FullNoteFacts ==
  ASSUME NEW t \in Snapshot, NEW time, NEW n \in BuildFull(t, time)
  PROVE  /\ DOMAIN n.update = Members(t, n.group)
         /\ \A p \in DOMAIN n.update : n.update[p] = t[p].val
         /\ n.delete = {}
         /\ n.atomic <=> n.group # Flat
         /\ n.group # Flat => Members(t, n.group) # {}
<1>1. PICK g : n = FullNote(g, t, time) /\ (g # Flat => Members(t, g) # {})
  BY DEF BuildFull
<1>2. n.group = g /\ DOMAIN n.update = Members(t, g) /\ n.delete = {}
  BY <1>1 DEF FullNote, Note
<1>3. \A p \in Members(t, g) : n.update[p] = t[p].val
  BY <1>1 DEF FullNote, Note
<1>4. n.atomic <=> g # Flat
  BY <1>1 DEF FullNote, Note
<1>. QED
  BY <1>1, <1>2, <1>3, <1>4

\* The client's copy of one path after a full snapshot is received: present
\* leaves are told, an absent leaf of a container that is present is wiped,
\* and nothing is said of the other absent leaves.
LEMMA ReceiveFull ==
  ASSUME NEW t \in Snapshot, NEW time, NEW v \in View, NEW p \in Path
  PROVE  LET w == Receive(v, BuildFull(t, time))
         IN  /\ p \in Present(t) => w[p] = ValueOf(t[p])
             /\ p \notin Present(t) =>
                  IF GroupOf[p] # Flat /\ Members(t, GroupOf[p]) # {}
                  THEN w[p] = NoLeaf ELSE w[p] = v[p]
<1> DEFINE ns == BuildFull(t, time)
           w == Receive(v, ns)
<1>1. \A n \in Telling(ns, p) : n.update[p] = ValueOf(t[p]) /\ p \in Present(t)
  BY FullNoteFacts DEF Telling, Members, ValueOf, Present
<1>2. CASE p \in Present(t)
  <2> DEFINE n == FullNote(GroupOf[p], t, time)
  <2>1. p \in Members(t, GroupOf[p])
    BY <1>2 DEF Members
  <2>2. n \in ns
    BY <2>1, GroupAssumption DEF BuildFull
  <2>3. n \in Telling(ns, p)
    BY <2>1, <2>2 DEF Telling, FullNote, Note
  <2>. QED
    BY <1>1, <1>2, <2>3 DEF Receive
<1>3. CASE p \notin Present(t)
  <2>1. Telling(ns, p) = {}
    BY <1>1, <1>3
  <2>2. CASE GroupOf[p] # Flat /\ Members(t, GroupOf[p]) # {}
    <3> DEFINE n == FullNote(GroupOf[p], t, time)
    <3>1. n \in ns
      BY <2>2, GroupAssumption DEF BuildFull
    <3>2. n \in Wiping(ns, p)
      BY <2>2, <3>1 DEF Wiping, FullNote, Note
    <3>. QED
      BY <1>3, <2>1, <2>2, <3>2 DEF Receive
  <2>3. CASE ~(GroupOf[p] # Flat /\ Members(t, GroupOf[p]) # {})
    <3>1. Wiping(ns, p) = {}
      BY <2>3, FullNoteFacts DEF Wiping
    <3>. QED
      BY <1>3, <2>1, <2>3, <3>1 DEF Receive
  <2>. QED
    BY <2>2, <2>3
<1>. QED
  BY <1>2, <1>3

LEMMA ReceiveFullType ==
  ASSUME NEW t \in Snapshot, NEW time, NEW v \in View
  PROVE  Receive(v, BuildFull(t, time)) \in View
<1> DEFINE w == Receive(v, BuildFull(t, time))
<1>1. ASSUME NEW p \in Path PROVE w[p] \in Val \cup {NoLeaf}
  <2>1. w[p] \in {v[p], ValueOf(t[p]), NoLeaf}
    BY ReceiveFull
  <2>. QED
    BY <2>1, ValueType DEF View
<1>. QED
  BY <1>1 DEF Receive, View
-----------------------------------------------------------------------------
\* A bounded set of times has a last one.
LEMMA LatestExists ==
  ASSUME NEW S \in SUBSET Nat, S # {}, NEW m \in Nat, \A s \in S : s <= m
  PROVE  \E x \in S : \A y \in S : x >= y
<1> DEFINE Later(x) == {s \in S : s > x}
           T == {Later(x) : x \in S}
<1>1. IsFiniteSet(S)
  BY FS_BoundedSetOfNaturals
<1>2. T \subseteq FiniteSubsetsOf(S)
  BY <1>1, FS_Subset DEF FiniteSubsetsOf
<1>3. PICK t \in T : \A u \in T : ~(<<u, t>> \in StrictSubsetOrdering(S))
  <2>1. T # {}
    OBVIOUS
  <2>. QED
    BY <1>2, <2>1, WFMin, FS_StrictSubsetOrderingWellFounded
<1>4. PICK x \in S : t = Later(x)
  OBVIOUS
<1>5. ASSUME NEW y \in S, ~(x >= y) PROVE FALSE
  <2>1. Later(y) \in T
    OBVIOUS
  <2>2. x \in Nat /\ y \in Nat /\ y > x
    BY <1>5
  <2>3. y \in Later(x) /\ y \notin Later(y) /\ Later(y) \subseteq Later(x)
    <3> HIDE DEF T
    <3>1. y \in Later(x) /\ y \notin Later(y)
      BY <2>2
    <3>2. ASSUME NEW s \in Later(y) PROVE s \in Later(x)
      BY <2>2, <3>2
    <3>. QED
      BY <3>1, <3>2
  <2>4. <<Later(y), t>> \in StrictSubsetOrdering(S)
    BY <1>4, <2>3 DEF StrictSubsetOrdering
  <2>. QED
    BY <1>3, <2>1, <2>4
<1>. QED
  BY <1>4, <1>5

\* The stamp of a Notification that carries leaves collected by now.
LEMMA StampFacts ==
  ASSUME NEW t \in Snapshot, NEW time \in Nat, NEW S \in SUBSET Present(t),
         \A p \in S : t[p].ts <= time
  PROVE  /\ Stamp(t, S, time) \in Nat /\ Stamp(t, S, time) <= time
         /\ \A p \in S : t[p].ts <= Stamp(t, S, time)
         /\ S # {} /\ (\A p \in S : t[p].ts > 0)
              => \E p \in S : t[p].ts = Stamp(t, S, time)
<1> DEFINE Ts == {t[p].ts : p \in S}
           ts == IF S = {} THEN 0 ELSE Max(Ts)
<1>0. Ts \subseteq Nat
  BY TimeAssumption DEF Present, Snapshot, Leaf
<1>1. Stamp(t, S, time) = IF ts = 0 THEN time ELSE ts
  BY DEF Stamp
<1>2. CASE S = {}
  BY <1>1, <1>2
<1>3. CASE S # {}
  <2>1. \E x \in Ts : \A y \in Ts : x >= y
    <3>1. Ts # {} /\ \A y \in Ts : y <= time
      BY <1>3
    <3>. HIDE DEF Ts
    <3>. QED
      BY <1>0, <3>1, LatestExists
  <2>2. Max(Ts) \in Ts /\ \A y \in Ts : Max(Ts) >= y
    BY <2>1 DEF Max
  <2>3. PICK q \in S : Max(Ts) = t[q].ts
    BY <2>2
  <2>4. \A p \in S : t[p].ts \in Nat /\ t[p].ts <= Max(Ts)
    BY <1>0, <2>2, <2>3
  <2>5. ts = Max(Ts) /\ ts \in Nat /\ ts <= time
    BY <1>3, <2>3, <2>4
  <2>6. CASE ts = 0
    BY <1>1, <2>3, <2>4, <2>5, <2>6
  <2>7. CASE ts # 0
    BY <1>1, <2>3, <2>4, <2>5, <2>7
  <2>. QED
    BY <2>6, <2>7
<1>. QED
  BY <1>2, <1>3

\* Every Notification is stamped for the leaves it carries, which are present.
LEMMA NoteStamps ==
  ASSUME NEW s \in Snapshot, NEW t \in Snapshot, NEW time,
         NEW n \in BuildChange(s, t, time) \cup BuildFull(t, time)
  PROVE  n.ts = Stamp(t, DOMAIN n.update, time) /\ DOMAIN n.update \subseteq Present(t)
<1>1. CASE n \in BuildFull(t, time)
  <2>1. PICK g : n = FullNote(g, t, time)
    BY <1>1 DEF BuildFull
  <2>2. DOMAIN n.update = Members(t, g) /\ n.ts = Stamp(t, Members(t, g), time)
    BY <2>1 DEF FullNote, Note
  <2>. QED
    BY <2>2 DEF Members
<1>2. CASE n \in BuildChange(s, t, time)
  <2>1. PICK g : n = IF g = Flat THEN FlatChange(s, t, time)
                     ELSE ContainerChange(g, s, t, time)
    BY <1>2 DEF BuildChange
  <2>2. n.ts = Stamp(t, DOMAIN n.update, time)
    BY <2>1 DEF FlatChange, ContainerChange, FullNote, Note
  <2>. QED
    BY <1>2, <2>2, ChangeNote
<1>. QED
  BY <1>1, <1>2

\* A container that lost its last leaf is deleted with all it may have had.
LEMMA EmptiedDeleted ==
  ASSUME NEW s \in Snapshot, NEW t \in Snapshot, NEW time,
         NEW n \in BuildChange(s, t, time), n.atomic, Members(t, n.group) = {}
  PROVE  n.delete # {}
<1>1. PICK g \in Touched(s, t) :
        n = IF g = Flat THEN FlatChange(s, t, time) ELSE ContainerChange(g, s, t, time)
  BY DEF BuildChange
<1>2. n.group = g /\ g # Flat
  BY <1>1 DEF FlatChange, ContainerChange, FullNote, Note
<1>3. n.delete = {p \in Path : GroupOf[p] = g}
  BY <1>1, <1>2 DEF ContainerChange, Note
<1>. QED
  BY <1>1, <1>3 DEF Touched, Changed, Updated, Removed, Present
=============================================================================
