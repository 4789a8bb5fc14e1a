--------------------------- MODULE PollDiffProofs ---------------------------
(***************************************************************************)
(* That the poll-and-diff loop of PollDiff keeps the client's copy equal   *)
(* to the snapshot last polled, and sends whole records, honestly stamped. *)
(***************************************************************************)
EXTENDS PollDiff, EmitProofs

\* The part of the state that the argument needs.
Copies == cur \in Snapshot /\ view \in View /\ Mirrors

\* Polls keep the copy, whatever it was copied from.
LEMMA CopiesInvariance == Spec => []Copies
<1>1. Init => Copies
  <2> SUFFICES ASSUME Init PROVE Copies
    OBVIOUS
  <2>1. cur \in Snapshot /\ Empty \in View
    BY DEF Init, Seen, Empty, View
  <2>2. view \in View
    BY <2>1, ReceiveFullType DEF Init
  <2>3. ASSUME NEW p \in Path PROVE view[p] = ValueOf(cur[p])
    BY <2>1, ReceiveFull DEF Init, Empty, Present, ValueOf
  <2>. QED
    BY <2>1, <2>2, <2>3 DEF Copies, Mirrors, View
<1>2. Copies /\ [Next]_vars => Copies'
  <2> SUFFICES ASSUME Copies, [Next]_vars PROVE Copies'
    OBVIOUS
  <2>1. CASE Poll
    <3>1. cur' \in Snapshot
      BY <2>1 DEF Poll, Seen
    <3>2. view' \in View
      BY <2>1, <3>1, ReceiveType DEF Poll, Copies
    <3>3. ASSUME NEW p \in Path PROVE view'[p] = ValueOf(cur'[p])
      BY <2>1, <3>1, ChangeCarries DEF Poll, Copies, Mirrors
    <3>. QED
      BY <3>1, <3>2, <3>3 DEF Copies, Mirrors, View
  <2>2. CASE UNCHANGED vars
    BY <2>2 DEF vars, Copies, Mirrors
  <2>. QED
    BY <2>1, <2>2 DEF Next, Cancelled
<1>. QED
  BY <1>1, <1>2, PTL DEF Spec

\* After every poll the client's copy is the snapshot just polled, whatever
\* the store did in between: the notifications built from a pair of snapshots
\* carry the whole difference, and nothing else.
THEOREM PollsMirror == Spec => []Mirrors
<1>1. Copies => Mirrors
  BY DEF Copies
<1>. QED
  BY <1>1, CopiesInvariance, PTL
-----------------------------------------------------------------------------
\* What the last poll sent was built from what it saw.
Built ==
  /\ now \in 1..MaxTime
  /\ prev \in Snapshot /\ cur \in Seen(now)
  /\ notes \subseteq BuildChange(prev, cur, now) \cup BuildFull(cur, now)

LEMMA BuiltInvariance == Spec => []Built
<1>1. Init => Built
  BY MaxTimeAssumption DEF Init, Built, Empty, Snapshot
<1>2. Built /\ [Next]_vars => Built'
  <2> SUFFICES ASSUME Built, [Next]_vars PROVE Built'
    OBVIOUS
  <2>1. CASE Poll
    <3>1. now' \in 1..MaxTime
      BY <2>1, MaxTimeAssumption DEF Poll, Built
    <3>. QED
      BY <2>1, <3>1 DEF Poll, Built, Seen
  <2>2. CASE UNCHANGED vars
    BY <2>2 DEF vars, Built
  <2>. QED
    BY <2>1, <2>2 DEF Next, Cancelled
<1>. QED
  BY <1>1, <1>2, PTL DEF Spec

\* No Notification is older than a leaf it carries or newer than the poll.
THEOREM StampsHold == Spec => []StampsAreFresh
<1>1. Built => StampsAreFresh
  <2> SUFFICES ASSUME Built, NEW n \in notes
               PROVE  /\ \A p \in DOMAIN n.update : cur[p].ts <= n.ts
                      /\ n.ts <= now
                      /\ DOMAIN n.update # {} => \E p \in DOMAIN n.update : cur[p].ts = n.ts
    BY DEF StampsAreFresh
  <2>1. cur \in Snapshot /\ now \in Nat /\ \A p \in Present(cur) : cur[p].ts <= now
    BY DEF Built, Seen
  <2>2. n.ts = Stamp(cur, DOMAIN n.update, now) /\ DOMAIN n.update \subseteq Present(cur)
    BY <2>1, NoteStamps DEF Built
  <2>3. ASSUME NEW p \in Present(cur) PROVE cur[p].ts > 0
    <3>1. cur[p].ts \in Time
      BY <2>1 DEF Present, Snapshot, Leaf
    <3>. QED
      <4>1. cur[p].ts \in Nat /\ cur[p].ts # 0
        BY <3>1, TimeAssumption, EpochAssumption
      <4>. QED
        BY <4>1
  <2>. QED
    BY <2>1, <2>2, <2>3, StampFacts
<1>. QED
  BY <1>1, BuiltInvariance, PTL

\* An atomic Notification is a whole record or the delete of one.
THEOREM RecordsSentWhole == Spec => []RecordsAreWhole
<1>1. Built => RecordsAreWhole
  <2> SUFFICES ASSUME Built, NEW n \in notes, n.atomic
               PROVE  \/ DOMAIN n.update = Members(cur, n.group) /\ DOMAIN n.update # {}
                      \/ Members(cur, n.group) = {} /\ DOMAIN n.update = {} /\ n.delete # {}
    BY DEF RecordsAreWhole
  <2>1. cur \in Snapshot /\ prev \in Snapshot
    BY DEF Built, Seen
  <2>2. CASE n \in BuildFull(cur, now)
    BY <2>1, <2>2, FullNoteFacts
  <2>3. CASE n \in BuildChange(prev, cur, now)
    BY <2>1, <2>3, ChangeNote, EmptiedDeleted
  <2>. QED
    BY <2>2, <2>3 DEF Built
<1>. QED
  BY <1>1, BuiltInvariance, PTL

\* The state of a poll is well typed.
THEOREM TypeCorrect == Spec => []TypeOK
<1>1. Built /\ Copies => TypeOK
  <2> SUFFICES ASSUME Built, Copies PROVE TypeOK
    OBVIOUS
  <2>1. now \in Time /\ now \in Nat
    BY MaxTimeAssumption DEF Built
  <2>2. ASSUME NEW n \in notes PROVE n.ts \in Time
    <3>1. cur \in Snapshot /\ \A p \in Present(cur) : cur[p].ts <= now /\ cur[p].ts \in Time
      BY DEF Built, Seen, Snapshot, Leaf, Present
    <3>2. n.ts = Stamp(cur, DOMAIN n.update, now) /\ DOMAIN n.update \subseteq Present(cur)
      BY <3>1, NoteStamps DEF Built
    <3>3. \A p \in Present(cur) : cur[p].ts > 0
      BY <3>1, TimeAssumption, EpochAssumption
    <3>4. CASE DOMAIN n.update = {}
      BY <2>1, <3>2, <3>4 DEF Stamp
    <3>5. CASE DOMAIN n.update # {}
      BY <2>1, <3>1, <3>2, <3>3, <3>5, StampFacts
    <3>. QED
      BY <3>4, <3>5
  <2>. QED
    BY <2>1, <2>2 DEF TypeOK, Built, Copies
<1>. QED
  BY <1>1, BuiltInvariance, CopiesInvariance, PTL
=============================================================================
