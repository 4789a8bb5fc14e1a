------------------------------- MODULE GetRpc -------------------------------
(***************************************************************************)
(* gnmi/get.cpp: one Get, answered path by path from the registry's        *)
(* snapshots while Set handlers and the simulator commit.  A commit and    *)
(* the snapshot of one path are single steps (LeafStore); those of several *)
(* paths are not.                                                          *)
(***************************************************************************)
EXTENDS Paths

CONSTANTS
  PathOf,       \* PathOf[l]: the elements of the path of each declared leaf l
  Schema,       \* Schema[l]: its LeafType
  Route,        \* the registered providers in order: the elements of their
                \* prefix, their leaves, whether they have atomic records
  Request,      \* the requests a client may send
  Batch,        \* net effects of the batches that may be committed: the
                \* leaves they set and those they remove
  Now,          \* the emission time
  MaxCommits,   \* bounds the commits of a run
  NoLeaf        \* marks a leaf that is not in the store

LeafType == {"Config", "State", "Operational"}

Declared == DOMAIN PathOf

Text(elems) == stripPathQuotes(gnmi_to_xpath([origin |-> <<>>, elem |-> elems]))

\* The keys of the stores' maps and the prefixes of the registry's routes.
TextOf == [l \in Declared |-> Text(PathOf[l])]
Prefix == [i \in DOMAIN Route |-> Text(Route[i].prefix)]

\* The registry's answer for each leaf: that of a provider with atomic records.
GroupOf ==
  [l \in Declared |->
     IF \E i \in DOMAIN Route : Route[i].atomic /\ matches(TextOf[l], Prefix[i])
       THEN atomicPrefix(TextOf[l]) ELSE <<>>]

Container == {GroupOf[l] : l \in Declared} \ {<<>>}

\* The emitters that Get shares with Subscribe.  The value of a leaf is the
\* number of the commit that wrote it.
E == INSTANCE Emit WITH Path <- Declared, Val <- 0..MaxCommits,
                        Time <- 1..(MaxCommits + 1), Flat <- <<>>

ASSUME SchemaAssumption == Schema \in [Declared -> LeafType]
\* The providers declare paths without empty names, each once.
ASSUME LeafAssumption ==
  /\ \A l \in Declared : /\ PathOf[l] \in Seq(Elem)
                         /\ \A i \in DOMAIN PathOf[l] : PathOf[l][i].name # <<>>
  /\ \A l, m \in Declared : PathOf[l] = PathOf[m] => l = m
\* main.cpp: prefixes without keys, none at or below another, and what a provider
\* declares lies below its own.
ASSUME RouteAssumption ==
  /\ \A i \in DOMAIN Route :
       LET r == Route[i] IN
       /\ r.prefix \in Seq(Elem) /\ r.prefix = Keyless(r.prefix)
       /\ \A j \in DOMAIN Route : Under(r.prefix, Route[j].prefix) => i = j
       /\ \A l \in r.leaves : /\ l \in Declared /\ Under(r.prefix, PathOf[l])
                             /\ Len(r.prefix) < Len(PathOf[l])
       /\ r.atomic \in BOOLEAN
  /\ \A l \in Declared : \E i \in DOMAIN Route : l \in Route[i].leaves
\* What bounds a record is a container, never a leaf: no leaf's text ends with
\* the marker.
ASSUME ContainerAssumption ==
  \A l \in Declared :
    LET n == Len(AtomicMarker)
        t == TextOf[l]
    IN  Len(t) >= n => SubSeq(t, Len(t) - n + 1, Len(t)) # AtomicMarker
\* What get.cpp relies on: a record has leaves of one type only.
ASSUME RecordAssumption ==
  \A l, m \in Declared :
    GroupOf[l] = GroupOf[m] /\ GroupOf[l] \in Container => Schema[l] = Schema[m]
ASSUME RequestAssumption ==
  \A r \in Request : /\ r.supported \in BOOLEAN /\ r.hasPrefix \in BOOLEAN
                     /\ r.type \in LeafType \cup {"ALL"}
                     /\ r.prefix \in Path /\ r.path \in Seq(Path)
ASSUME BatchAssumption ==
  /\ \A b \in Batch : b.set \subseteq Declared /\ b.remove \subseteq Declared
  /\ MaxCommits \in Nat

VARIABLES
  store,        \* the leaves of all stores
  commits,
  req,
  pc,           \* "verify", "paths" or "done"
  response,     \* response[i]: the Notifications for path i
  status,
  during        \* history: the contents there were since the call

vars == <<store, commits, req, pc, response, status, during>>

Leaf(n) == [val |-> n, ts |-> n + 1]

TypeOK ==
  /\ store \in [Declared -> E!Leaf \cup {NoLeaf}]
  /\ commits \in 0..MaxCommits
  /\ req.type \in LeafType \cup {"ALL"} /\ req.supported \in BOOLEAN
  /\ pc \in {"verify", "paths", "done"}
  /\ status \in {"running", "OK", "UNIMPLEMENTED", "INVALID_ARGUMENT", "NOT_FOUND"}
  /\ status = "running" <=> pc # "done"
  /\ Len(response) <= Len(req.path) /\ (status = "OK" => Len(response) = Len(req.path))
  /\ \A i \in DOMAIN response : response[i] # {} /\ \A n \in response[i] : n.update # {}
  /\ Len(during) = commits + 1 /\ during[Len(during)] = store

Init ==
  /\ store \in [Declared -> {Leaf(0), NoLeaf}]
  /\ \A l \in Declared : Schema[l] = "Operational" => store[l] # NoLeaf
  /\ commits = 0
  /\ req \in Request
  /\ pc = "verify" /\ response = <<>> /\ status = "running"
  /\ during = <<store>>
-----------------------------------------------------------------------------
(* The registry and the filter                                               *)

\* The text asked for: the request's prefix and one of its paths.
Fullpath(path) ==
  (IF req.hasPrefix THEN gnmi_to_xpath(req.prefix) ELSE <<>>) \o gnmi_to_xpath(path)

Owners(xpath) == {i \in DOMAIN Route : matches(xpath, Prefix[i])}

Routed(xpath) == Owners(xpath) # {}

\* The leaves of every owner's store that the query selects.
Snapshot(xpath) ==
  LET query == stripPathQuotes(xpath)
      held  == UNION {Route[i].leaves : i \in Owners(xpath)}
  IN  [l \in Declared |-> IF l \in held /\ selects(query, TextOf[l]) THEN store[l] ELSE NoLeaf]

matchesType(type) == req.type = "ALL" \/ type = req.type

filterByDataType(snap) == [l \in Declared |-> IF matchesType(Schema[l]) THEN snap[l] ELSE NoLeaf]

\* A mutant of PathError: a path is empty only if it has no leaf of any type.
PathErrorUnfiltered(path) ==
  IF ~validateGnmiPath(path) THEN "INVALID_ARGUMENT"
  ELSE IF ~Routed(Fullpath(path)) THEN "UNIMPLEMENTED"
  ELSE IF E!Present(Snapshot(Fullpath(path))) = {} THEN "NOT_FOUND"
  ELSE "none"

\* Why a path fails: it is malformed (the prefix is not looked at), nobody owns
\* it, or it has no leaf of the type.
PathError(path) ==
  IF ~validateGnmiPath(path) THEN "INVALID_ARGUMENT"
  ELSE IF ~Routed(Fullpath(path)) THEN "UNIMPLEMENTED"
  ELSE IF E!Present(filterByDataType(Snapshot(Fullpath(path)))) = {} THEN "NOT_FOUND"
  ELSE "none"

\* A Notification on the wire.  The paths of an atomic one are relative to its
\* container; the other has the paths in full and the prefix of the request.
Wire(n) ==
  [atomic |-> n.atomic,
   prefix |-> IF n.atomic THEN xpath_to_gnmi_path(n.group)
              ELSE IF req.hasPrefix THEN req.prefix.elem ELSE <<>>,
   update |-> {[path |-> xpath_to_gnmi_path(SubSeq(TextOf[l], Len(n.group) + 1, Len(TextOf[l]))),
                val |-> n.update[l]] : l \in DOMAIN n.update}]
-----------------------------------------------------------------------------
(* Get::run                                                                  *)

End(s) == pc' = "done" /\ status' = s

\* verifyGetRequest: encoding, data type, models and extensions.
Verify ==
  /\ pc = "verify"
  /\ IF req.supported THEN pc' = "paths" /\ UNCHANGED status ELSE End("UNIMPLEMENTED")
  /\ UNCHANGED <<store, commits, req, response, during>>

\* The next path, read and appended to the response, or the end of the call.
Answer ==
  LET path == req.path[Len(response) + 1]
      snap == filterByDataType(Snapshot(Fullpath(path)))
  IN
  /\ pc = "paths" /\ Len(response) < Len(req.path)
  /\ \/ PathError(path) # "none" /\ End(PathError(path)) /\ UNCHANGED response
     \/ /\ PathError(path) = "none"
        /\ response' = Append(response, {Wire(n) : n \in E!BuildFull(snap, Now)})
        /\ UNCHANGED <<pc, status>>
  /\ UNCHANGED <<store, commits, req, during>>

Finish ==
  /\ pc = "paths" /\ Len(response) = Len(req.path)
  /\ End("OK")
  /\ UNCHANGED <<store, commits, req, response, during>>

\* Another RPC or the simulator.
Commit ==
  /\ commits < MaxCommits
  /\ commits' = commits + 1
  /\ \E b \in Batch :
       store' = [l \in Declared |-> IF l \in b.set THEN Leaf(commits')
                                    ELSE IF l \in b.remove THEN NoLeaf ELSE store[l]]
  /\ during' = Append(during, store')
  /\ UNCHANGED <<req, pc, response, status>>

Ended == pc = "done" /\ UNCHANGED vars

Next == Verify \/ Answer \/ Finish \/ Commit \/ Ended

Spec == Init /\ [][Next]_vars
-----------------------------------------------------------------------------
(* Properties, on the elements of the paths                                  *)

Query(i) ==
  (IF req.hasPrefix THEN Elements(req.prefix) ELSE <<>>) \o Elements(req.path[i])

\* The leaves of content s that path i asks for.
Wanted(i, s) == {l \in Declared : /\ s[l] # NoLeaf /\ Below(Query(i), PathOf[l])
                                  /\ req.type \in {"ALL", Schema[l]}}

\* What the Notifications for path i tell the client.
Told(i) == UNION {{<<IF n.atomic THEN n.prefix \o u.path ELSE u.path, u.val>> : u \in n.update} :
                    n \in response[i]}

\* Times, as indices of `during', at which the paths may have been read: in turn.
Times == {at \in [DOMAIN req.path -> DOMAIN during] :
            \A i, j \in DOMAIN req.path : i <= j => at[i] <= at[j]}

\* Each path is answered with exactly the leaves of the type at or below it, as
\* they all were at one time during the call, and later paths are read later;
\* over keys given, left out for all instances or left out at the end, names
\* that begin another, and records with their relative paths.
AnswersAreSnapshots ==
  status = "OK" =>
    \E at \in Times : \A i \in DOMAIN req.path :
      Told(i) = {<<PathOf[l], during[at[i]][l].val>> : l \in Wanted(i, during[at[i]])}

\* The status is the one of the first path at fault, by the table of DESIGN.md:
\* malformed, below no registered prefix, or without a leaf of the type; the
\* latter at a time when it had none.
Fault(i, s) ==
  IF \E k \in DOMAIN req.path[i].elem : LET e == req.path[i].elem[k] IN
       e.name = <<>> \/ e.key \in BadKey                         THEN "INVALID_ARGUMENT"
  ELSE IF \A k \in DOMAIN Route : ~Under(Route[k].prefix, Query(i)) THEN "UNIMPLEMENTED"
  ELSE IF Wanted(i, s) = {}                                      THEN "NOT_FOUND"
  ELSE "OK"

StatusIsDeserved ==
  pc = "done" /\ req.supported =>
    \E at \in Times :
      LET faults == {i \in DOMAIN req.path : Fault(i, during[at[i]]) # "OK"} IN
      \/ faults = {} /\ status = "OK"
      \/ \E i \in faults : /\ \A j \in faults : i <= j
                           /\ status = Fault(i, during[at[i]])

\* The leaves an atomic Notification has, and those of the record of leaf l.
Carried(n) == {l \in Declared : \E u \in n.update : n.prefix \o u.path = PathOf[l]}

Beside(l) == {m \in Declared : Front(PathOf[m]) = Front(PathOf[l])}

\* Notification n is a whole record: all that there was of it at one time.
Complete(n) ==
  \E k \in DOMAIN during : \A l \in Carried(n) :
    {m \in Beside(l) : during[k][m] # NoLeaf} \subseteq Carried(n)

\* Path i asks for nothing less than the records that n has leaves of.
AskedWhole(i, n) == \A l \in Carried(n) : \A m \in Beside(l) : Below(Query(i), PathOf[m])

\* A path at or above a record gets it whole in one atomic Notification: neither
\* the search for the record's prefix, done leaf by leaf on texts, nor a commit,
\* nor the filter by type takes leaves from it.
RecordsAreWhole ==
  \A i \in DOMAIN response : \A n \in response[i] :
    n.atomic /\ AskedWhole(i, n) => Complete(n)

\* The same for every path: what is emitted as atomic carries "the complete state
\* of the prefix", since "omitted leaves are implicitly deleted"
\* (data_provider.hpp, atomicPrefix).
RecordsAreComplete ==
  \A i \in DOMAIN response : \A n \in response[i] : n.atomic => Complete(n)

\* The prefix of a Notification is for its paths (gnmi.proto, Notification):
\* together they name a leaf.
PathsResolve ==
  \A i \in DOMAIN response : \A n \in response[i] : \A u \in n.update :
    n.prefix \o u.path \in {PathOf[l] : l \in Declared}
=============================================================================
