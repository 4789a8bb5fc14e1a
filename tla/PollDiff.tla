------------------------------ MODULE PollDiff ------------------------------
(***************************************************************************)
(* The ON_CHANGE half of gnmi/subscribe.cpp, for one subscriber seen on    *)
(* its own: it keeps the snapshot of its last poll, and every poll sends   *)
(* the client what changed since.  Nothing is assumed of the store: at     *)
(* each poll it may hold any leaves at all.  Subscribe adds the      *)
(* handler around this loop and the store under it.                        *)
(***************************************************************************)
EXTENDS Emit

CONSTANT MaxTime  \* bounds the clock of a run

ASSUME MaxTimeAssumption == MaxTime \in Nat \ {0} /\ 1..MaxTime \subseteq Time
ASSUME EpochAssumption   == 0 \notin Time   \* the clock counts from 1970

VARIABLES
  prev,     \* the snapshot of the poll before the last one
  cur,      \* the snapshot of the last poll, the code's oc.prev
  notes,    \* what the last poll sent
  view,     \* the client's copy
  now       \* the clock, advanced at each poll

vars == <<prev, cur, notes, view, now>>

\* The snapshots a poll may see at time t: no leaf collected in the future.
Seen(t) == {s \in Snapshot : \A p \in Present(s) : s[p].ts <= t}

TypeOK == /\ now \in Time
          /\ prev \in Snapshot
          /\ cur \in Seen(now)
          /\ view \in View
          /\ \A n \in notes : n.ts \in Time

\* The initial emit and the baseline, taken at one time.
Init == /\ now = 1
        /\ cur \in Seen(now)
        /\ prev = Empty
        /\ notes = BuildFull(cur, now)
        /\ view = Receive(Empty, notes)

Poll == /\ now < MaxTime
        /\ now' = now + 1
        /\ cur' \in Seen(now')
        /\ prev' = cur
        /\ notes' = BuildChange(cur, cur', now')
        /\ view' = Receive(view, notes')

\* The client cancels the RPC.
Cancelled == UNCHANGED vars

Next == Poll \/ Cancelled

Spec == Init /\ [][Next]_vars
-----------------------------------------------------------------------------
(* Properties                                                                *)

\* After every poll the client's copy is the snapshot just polled: the diff of
\* the flat leaves, the full re-send of a changed container and the delete of
\* an emptied one together carry every change (buildChangeNotifications).
Mirrors == view = [p \in Path |-> ValueOf(cur[p])]

\* A change that is sent has the time of the freshest leaf it carries, and that
\* of its emission only when it carries none (DESIGN.md, timestamps): no leaf
\* is reported before it was collected, or after now.
StampsAreFresh ==
  \A n \in notes :
    /\ \A p \in DOMAIN n.update : cur[p].ts <= n.ts
    /\ n.ts <= now
    /\ DOMAIN n.update # {} => \E p \in DOMAIN n.update : cur[p].ts = n.ts

\* An atomic Notification is the whole record: all the leaves its container
\* has, or the delete of all it may have (data_provider.hpp, atomicPrefix).
RecordsAreWhole ==
  \A n \in notes : n.atomic =>
    \/ DOMAIN n.update = Members(cur, n.group) /\ DOMAIN n.update # {}
    \/ Members(cur, n.group) = {} /\ DOMAIN n.update = {} /\ n.delete # {}
=============================================================================
