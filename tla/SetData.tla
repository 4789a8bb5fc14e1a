------------------------------ MODULE SetData ------------------------------
(***************************************************************************)
(* What a gNMI SetRequest asks for (gnmi/set.cpp), the registry it is      *)
(* routed by (backend/data_provider.hpp) and the schema it is held against *)
(* (backend/store_backed_provider.hpp).  Constant operators only.          *)
(***************************************************************************)
EXTENDS Naturals, Sequences

CONSTANTS
  Path, NoLeaf, Spelling, Canon,    \* as in StoreData
  Val,          \* leaf values
  MaxClock,     \* bounds the clock
  Route,        \* the providers in the order of their registration
  NoProvider,   \* owns the paths that no registered prefix matches
  Owner,        \* Owner[p]: the provider whose prefix matches p
  Schema,       \* Schema[p]: the type of each declared leaf
  Applier       \* the providers that override applyBatch

LeafType == {"Config", "State", "Operational"}

Leaf == [val : Val, ts : 0..MaxClock, type : LeafType]

INSTANCE StoreData

Provider == {Route[i] : i \in DOMAIN Route}

\* One entry of the request: a path to delete, or a path and value to write;
\* a written entry may lack either (whole is FALSE).
Item == [kind : {"Set", "Remove"}, xpath : Spelling, val : Val, whole : BOOLEAN]

ASSUME PathAssumption  == Canon \in [Spelling -> Path]
ASSUME LeafAssumption  == NoLeaf \notin Leaf
ASSUME ClockAssumption == MaxClock \in Nat
ASSUME RouteAssumption ==
  /\ Route \in Seq(Provider) /\ NoProvider \notin Provider
  /\ \A i, j \in DOMAIN Route : Route[i] = Route[j] => i = j
  /\ Owner \in [Path -> Provider \cup {NoProvider}]
ASSUME SchemaAssumption ==
  /\ DOMAIN Schema \subseteq Path
  /\ \A p \in DOMAIN Schema : Schema[p] \in LeafType /\ Owner[p] # NoProvider

\* main.cpp registers one provider that takes writes, and only that provider
\* declares leaves of type Config.
ASSUME ApplierAssumption ==
  /\ \E i \in DOMAIN Route : Applier = {Route[i]}
  /\ \A p \in DOMAIN Schema : Schema[p] = "Config" => Owner[p] \in Applier

SchemaType(p) == IF p \in DOMAIN Schema THEN Schema[p] ELSE "State"

\* What the registry and the provider say of a write to a path.
Routed(p) == Owner[p] # NoProvider

Writable(p) == SchemaType(p) = "Config"
-----------------------------------------------------------------------------
\* A mutant of Ordered: updates before deletes.
OrderedByUpdate(r) == r.update \o r.replace \o r.delete

\* The order in which both phases visit the entries.
Ordered(r) == r.delete \o r.replace \o r.update

\* A mutant of WriteError: an unrouted path is answered as in Get.
WriteErrorAsGet(item) ==
  IF ~item.whole THEN "INVALID_ARGUMENT"
  ELSE IF ~Routed(Canon[item.xpath]) THEN "UNIMPLEMENTED"
  ELSE IF ~Writable(Canon[item.xpath]) THEN "INVALID_ARGUMENT"
  ELSE "none"

\* Why an entry is refused: it lacks its path or value, nobody owns its path,
\* or the leaf is not declared as configuration, whether or not it exists.
WriteError(item) ==
  IF ~item.whole THEN "INVALID_ARGUMENT"
  ELSE IF ~Routed(Canon[item.xpath]) THEN "NOT_FOUND"
  ELSE IF ~Writable(Canon[item.xpath]) THEN "INVALID_ARGUMENT"
  ELSE "none"

\* A mutant of OpOf: the type of a leaf is left at WriteOp's default.
OpOfDefault(item, ts) ==
  [kind |-> item.kind, xpath |-> item.xpath,
   leaf |-> IF item.kind = "Remove" THEN NoLeaf
            ELSE [val |-> item.val, ts |-> ts, type |-> "Operational"]]

\* Another: a delete leaves a leaf without a value behind.
OpOfEmpty(item, ts) ==
  [kind |-> item.kind, xpath |-> item.xpath,
   leaf |-> [val |-> IF item.kind = "Remove" THEN NoLeaf ELSE item.val, ts |-> ts,
             type |-> SchemaType(Canon[item.xpath])]]

\* The operation an entry becomes, its leaf stamped with the type of the schema.
OpOf(item, ts) ==
  [kind |-> item.kind, xpath |-> item.xpath,
   leaf |-> IF item.kind = "Remove" THEN NoLeaf
            ELSE [val |-> item.val, ts |-> ts,
                  type |-> SchemaType(Canon[item.xpath])]]

BatchOf(r, ts) == [i \in DOMAIN Ordered(r) |-> OpOf(Ordered(r)[i], ts)]

\* The store after the whole request is applied at time ts.
Applied(s, r, ts) == Effect(s, BatchOf(r, ts), Len(Ordered(r)))
=============================================================================
