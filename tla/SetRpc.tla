------------------------------- MODULE SetRpc -------------------------------
(***************************************************************************)
(* gnmi/set.cpp, Set::run, in several RPC threads at once, beside the      *)
(* simulator that writes the sensors.  A handler takes its timestamp,      *)
(* validates its entries one by one while the others write, and commits;   *)
(* the registry's commit visits the providers in turn and hands each its   *)
(* slice of the batch.  A provider's own commit is one step (LeafStore).   *)
(***************************************************************************)
EXTENDS SetData

CONSTANTS
  Handler,      \* RPC threads, each serving one Set
  Request,      \* the requests clients may send
  Sensor        \* the leaves the simulator writes

RequestOK(r) == /\ r.extension \in BOOLEAN
                /\ r.delete \in Seq({e \in Item : e.kind = "Remove" /\ e.whole})
                /\ r.replace \in Seq({e \in Item : e.kind = "Set"})
                /\ r.update \in Seq({e \in Item : e.kind = "Set"})

ASSUME RequestAssumption == \A r \in Request : RequestOK(r)
ASSUME SensorAssumption ==
  \A p \in Sensor : p \in DOMAIN Schema /\ Schema[p] = "Operational"

VARIABLES
  store,        \* the leaves of all providers' stores
  clock,        \* system_clock
  pc,           \* where a handler is
  req,          \* its request, given from the start
  now,          \* its transaction timestamp
  checked,      \* how many entries have passed the validation
  visited,      \* how many providers its commit has visited
  status        \* what it returned

vars == <<store, clock, pc, req, now, checked, visited, status>>

Items(h) == Ordered(req[h])

Stage == {"called", "validate", "commit", "done"}

Status == {"none", "OK", "NOT_FOUND", "INVALID_ARGUMENT", "UNIMPLEMENTED"}

TypeOK ==
  /\ store \in Content
  /\ clock \in 0..MaxClock
  /\ pc \in [Handler -> Stage]
  /\ req \in [Handler -> Request]
  /\ now \in [Handler -> 0..MaxClock]
  /\ checked \in [Handler -> Nat]
  /\ visited \in [Handler -> 0..Len(Route)]
  /\ status \in [Handler -> Status]
  /\ \A h \in Handler :
       /\ checked[h] <= Len(Items(h))
       /\ status[h] = "none" <=> pc[h] # "done"

\* The providers have declared their leaves and seeded them: all the sensors, at
\* one time, but of the configuration only the leaves declared with a value.
Init ==
  /\ \E seeded \in SUBSET DOMAIN Schema, v \in [Path -> Val] :
       /\ Sensor \subseteq seeded
       /\ store = [p \in Path |-> IF p \in seeded
                                  THEN [val |-> v[p], ts |-> 0, type |-> Schema[p]]
                                  ELSE NoLeaf]
  /\ clock = 0
  /\ pc = [h \in Handler |-> "called"]
  /\ req \in [Handler -> Request]
  /\ now = [h \in Handler |-> 0]
  /\ checked = [h \in Handler |-> 0]
  /\ visited = [h \in Handler |-> 0]
  /\ status = [h \in Handler |-> "none"]
-----------------------------------------------------------------------------
Return(h, s) == /\ pc' = [pc EXCEPT ![h] = "done"]
                /\ status' = [status EXCEPT ![h] = s]

\* Extensions are refused first of all; then the transaction gets its time.
Begin(h) ==
  /\ pc[h] = "called"
  /\ \/ req[h].extension /\ Return(h, "UNIMPLEMENTED") /\ UNCHANGED now
     \/ /\ ~req[h].extension
        /\ now' = [now EXCEPT ![h] = clock]
        /\ pc' = [pc EXCEPT ![h] = "validate"]
        /\ UNCHANGED status
  /\ UNCHANGED <<store, clock, req, checked, visited>>

\* One entry is validated; the first bad one ends the call.
Validate(h) ==
  /\ pc[h] = "validate" /\ checked[h] < Len(Items(h))
  /\ LET e == WriteError(Items(h)[checked[h] + 1]) IN
     \/ /\ e = "none"
        /\ checked' = [checked EXCEPT ![h] = @ + 1]
        /\ UNCHANGED <<pc, status>>
     \/ e # "none" /\ Return(h, e) /\ UNCHANGED checked
  /\ UNCHANGED <<store, clock, req, now, visited>>

\* A mutant of Validated: the commit does not wait for the last entry.
ValidatedButOne(h) == checked[h] + 1 >= Len(Items(h))

Validated(h) == checked[h] = Len(Items(h))

EndValidation(h) ==
  /\ pc[h] = "validate" /\ Validated(h)
  /\ pc' = [pc EXCEPT ![h] = "commit"]
  /\ UNCHANGED <<store, clock, req, now, checked, visited, status>>

\* The operations on the leaves of provider P, in their order; a provider that
\* does not override applyBatch ignores them.
Slice(s, h, P) ==
  [p \in Path |-> IF Owner[p] = P /\ P \in Applier
                  THEN Applied(s, req[h], now[h])[p] ELSE s[p]]

\* The registry hands the next provider its slice.
CommitSlice(h) ==
  /\ pc[h] = "commit" /\ visited[h] < Len(Route)
  /\ store' = Slice(store, h, Route[visited[h] + 1])
  /\ visited' = [visited EXCEPT ![h] = @ + 1]
  /\ UNCHANGED <<clock, pc, req, now, checked, status>>

Finish(h) ==
  /\ pc[h] = "commit" /\ visited[h] = Len(Route)
  /\ Return(h, "OK")
  /\ UNCHANGED <<store, clock, req, now, checked, visited>>

\* A mutant of Ticked: only the sensors that moved are committed.
TickedMoved(v) ==
  [p \in Path |-> IF p \in Sensor /\ store[p].val # v[p]
                  THEN [val |-> v[p], ts |-> clock, type |-> SchemaType(p)]
                  ELSE store[p]]

\* The store after a tick of the simulator: every sensor, moved or not, under
\* one collection time.
Ticked(v) ==
  [p \in Path |-> IF p \in Sensor
                  THEN [val |-> v[p], ts |-> clock, type |-> SchemaType(p)]
                  ELSE store[p]]

Tick == /\ \E v \in [Sensor -> Val] : store' = Ticked(v)
        /\ UNCHANGED <<clock, pc, req, now, checked, visited, status>>

Advance == /\ clock < MaxClock
           /\ clock' = clock + 1
           /\ UNCHANGED <<store, pc, req, now, checked, visited, status>>

Step(h) == \/ Begin(h) \/ Validate(h) \/ EndValidation(h)
           \/ CommitSlice(h) \/ Finish(h)

Next == (\E h \in Handler : Step(h)) \/ Tick \/ Advance

Spec == Init /\ [][Next]_vars
-----------------------------------------------------------------------------
(* Properties                                                                *)

\* Every leaf is declared and has the type its declaration gives it, however
\* often it was deleted, created and overwritten (store_backed_provider.hpp:
\* "a leaf's type is always the schema's, never a default").
TypesFollowSchema ==
  \A p \in Path : store[p] # NoLeaf => p \in DOMAIN Schema /\ store[p].type = Schema[p]

\* The sensors share one collection time at all times, so that bundling them
\* in one Notification is honest (DESIGN.md): no Set ever gets at one of them.
SensorsShareTick ==
  \A p, q \in Sensor : store[p] # NoLeaf /\ store[q] # NoLeaf
                         /\ store[p].ts = store[q].ts

\* The provider that takes writes, in the order of registration.
Turn == CHOOSE i \in DOMAIN Route : Route[i] \in Applier

\* The Set has happened once that provider has its slice.
Outcome(h) == IF status[h] # "none" THEN status[h]
              ELSE IF pc[h] = "commit" /\ visited[h] >= Turn THEN "OK"
              ELSE "none"

A == INSTANCE AtomicSet WITH asked <- req, outcome <- [h \in Handler |-> Outcome(h)]

\* Set is a transaction: although it validates entry by entry beside other
\* writers and commits provider by provider, it implements AtomicSet.
ImplementsAtomicSet == A!ASpec

\* An entry that may be written: complete, and for a leaf that is declared as
\* configuration, whether or not there is one at present.
Good(item) ==
  item.whole /\ \E p \in DOMAIN Schema : p = Canon[item.xpath] /\ Schema[p] = "Config"

\* What an entry that is not good is refused with: NOT_FOUND says that there is no
\* such leaf, INVALID_ARGUMENT that the entry lacks something or that the leaf is
\* not to be written (set.cpp, checkWritable).  For a leaf that the owner of its
\* path never declared both are let pass: the comment there promises the first,
\* the code answers the second.
Refusals(item) ==
  LET declared == \E p \in DOMAIN Schema : p = Canon[item.xpath]
      owned    == Owner[Canon[item.xpath]] # NoProvider
  IN  {s \in {"NOT_FOUND", "INVALID_ARGUMENT"} :
         IF s = "NOT_FOUND" THEN item.whole /\ ~declared ELSE ~item.whole \/ owned}

\* A Set is answered OK only if all its entries are good, otherwise with a code
\* for the first that is not, in the order of the transaction, whatever other
\* writers do to the leaves it names between its validation and its commit.
StatusIsDeserved ==
  \A h \in Handler : pc[h] = "done" =>
    LET bad == {i \in DOMAIN Items(h) : ~Good(Items(h)[i])} IN
    \/ req[h].extension /\ status[h] = "UNIMPLEMENTED"
    \/ ~req[h].extension /\ bad = {} /\ status[h] = "OK"
    \/ /\ ~req[h].extension
       /\ \E i \in bad : /\ \A j \in bad : i <= j
                         /\ status[h] \in Refusals(Items(h)[i])
=============================================================================
