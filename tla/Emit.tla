-------------------------------- MODULE Emit --------------------------------
(***************************************************************************)
(* gnmi/subscribe_emit.cpp: how two snapshots of a subscription become     *)
(* gNMI Notifications.  A snapshot is a function on Path that yields       *)
(* NoLeaf where the std::map has no entry.  Paths fall into groups: the    *)
(* atomic containers of the registry, and Flat for the leaves outside any. *)
(* Every definition here is a constant operator; PollDiff and Subscribe    *)
(* give them a state machine, and Get emits with them.                     *)
(***************************************************************************)
EXTENDS Naturals, FiniteSets

CONSTANTS
  Path,         \* leaf paths
  Val,          \* leaf values (gnmi::TypedValue)
  Time,         \* collection times, in nanoseconds
  Container,    \* prefixes of the atomic containers
  Flat,         \* the group of the leaves that no atomic container owns
  GroupOf,      \* GroupOf[p]: registry.atomicPrefix(p), or Flat
  NoLeaf        \* marks a path that has no leaf

ASSUME GroupAssumption  == GroupOf \in [Path -> Container \cup {Flat}]
ASSUME FlatAssumption   == Flat \notin Container
ASSUME NoValAssumption  == NoLeaf \notin Val
ASSUME TimeAssumption   == Time \subseteq Nat

LOCAL INSTANCE FiniteSetsExt

Leaf == [val : Val, ts : Time]

ASSUME NoLeafAssumption == NoLeaf \notin Leaf

Snapshot == [Path -> Leaf \cup {NoLeaf}]

\* A client's copy of the tree: values only.
View == [Path -> Val \cup {NoLeaf}]

Empty == [p \in Path |-> NoLeaf]

ValueOf(leaf) == IF leaf = NoLeaf THEN NoLeaf ELSE leaf.val

Present(snap) == {p \in Path : snap[p] # NoLeaf}

\* The part of a snapshot that partition() puts into one group.
Members(snap, g) == {p \in Present(snap) : GroupOf[p] = g}
-----------------------------------------------------------------------------
(* LeafStore::diff: a leaf is updated when it is new or its value differs;   *)
(* its collection time does not count.                                       *)

\* A mutant of Updated: only leaves that were there before are compared.
UpdatedExisting(prev, cur) ==
  {p \in Present(cur) : prev[p] # NoLeaf /\ prev[p].val # cur[p].val}

Updated(prev, cur) ==
  {p \in Present(cur) : prev[p] = NoLeaf \/ prev[p].val # cur[p].val}

\* A mutant of Removed: diff() without its second loop.
RemovedNever(prev, cur) == {}

Removed(prev, cur) == Present(prev) \ Present(cur)

Changed(prev, cur) == Updated(prev, cur) \cup Removed(prev, cur)
-----------------------------------------------------------------------------
(* Notifications                                                             *)

\* Mutants of Stamp: 0 when there is no leaf, and the time of the oldest leaf.
StampBare(snap, S, now) == IF S = {} THEN 0 ELSE Max({snap[p].ts : p \in S})

StampOldest(snap, S, now) ==
  IF S = {} THEN now ELSE Min({snap[p].ts : p \in S})

\* The collection time of the freshest leaf carried, or the time of emission
\* when there is none (or when it is 0, the code's mark of "none").
Stamp(snap, S, now) ==
  LET ts == IF S = {} THEN 0 ELSE Max({snap[p].ts : p \in S})
  IN  IF ts = 0 THEN now ELSE ts

\* A Notification for group g that carries the leaves upd of snap and deletes
\* the leaves del; that of an atomic container is marked atomic.
Note(g, snap, upd, del, now) ==
  [group |-> g, atomic |-> g # Flat,
   update |-> [p \in upd |-> snap[p].val], delete |-> del,
   ts |-> Stamp(snap, upd, now)]

FullNote(g, snap, now) == Note(g, snap, Members(snap, g), {}, now)

\* The snapshot in full: one Notification per atomic container present, and
\* one for the other leaves, sent even when empty if it is the only one.
BuildFull(snap, now) ==
  LET groups == {c \in Container : Members(snap, c) # {}}
  IN  {FullNote(c, snap, now) : c \in groups}
        \cup (IF Members(snap, Flat) # {} \/ groups = {}
              THEN {FullNote(Flat, snap, now)} ELSE {})

FlatChange(prev, cur, now) ==
  Note(Flat, cur, {p \in Updated(prev, cur) : GroupOf[p] = Flat},
       {p \in Removed(prev, cur) : GroupOf[p] = Flat}, now)

\* A mutant of ContainerChange: an atomic container is sent as a diff.
ContainerDiff(c, prev, cur, now) ==
  Note(c, cur, {p \in Updated(prev, cur) : GroupOf[p] = c},
       {p \in Removed(prev, cur) : GroupOf[p] = c}, now)

\* A changed container is sent in full; one that lost its last leaf is deleted
\* as a whole, by an empty delete path under its prefix.
ContainerChange(c, prev, cur, now) ==
  IF Members(cur, c) = {}
  THEN Note(c, cur, {}, {p \in Path : GroupOf[p] = c}, now)
  ELSE FullNote(c, cur, now)

Touched(prev, cur) == {GroupOf[p] : p \in Changed(prev, cur)}

\* What changed from prev to cur, one Notification per group that changed.
BuildChange(prev, cur, now) ==
  {IF g = Flat THEN FlatChange(prev, cur, now)
   ELSE ContainerChange(g, prev, cur, now) : g \in Touched(prev, cur)}
-----------------------------------------------------------------------------
(* The client, modelled from what the emitting code relies on: an update     *)
(* sets a leaf, a delete removes it, and a leaf that an atomic Notification  *)
(* omits is implicitly deleted.  One call emits at most one Notification per *)
(* group, so the order in which they arrive does not matter.                 *)

Telling(notes, p) == {n \in notes : p \in DOMAIN n.update}

Wiping(notes, p) ==
  {n \in notes : p \in n.delete \/ (n.atomic /\ n.group = GroupOf[p])}

Receive(view, notes) ==
  [p \in Path |->
     IF Telling(notes, p) # {}
       THEN (CHOOSE n \in Telling(notes, p) : TRUE).update[p]
     ELSE IF Wiping(notes, p) # {} THEN NoLeaf
     ELSE view[p]]
=============================================================================
