----------------------------- MODULE LeafStore -----------------------------
(***************************************************************************)
(* backend/leaf_store.cpp: a std::map of leaves behind a std::shared_mutex.*)
(* commit() holds the mutex exclusively and applies the operations of the  *)
(* batch in order; get(), collect() and snapshot() hold it shared and copy *)
(* the leaves they select.  Every operation and every leaf copied is a     *)
(* step of its own, so that the lock alone keeps a read from seeing half a *)
(* batch.  The leaves are copied in an arbitrary order (the code follows   *)
(* the order of the keys).                                                 *)
(***************************************************************************)
EXTENDS StoreData

CONSTANTS
  Batch,      \* the batches that may be committed: sequences of operations
  Target,     \* the sets of leaf paths a read may select
  Writer,     \* threads that commit: Set handlers and the simulator
  Reader      \* threads that read: Get and Subscribe handlers

ASSUME BatchAssumption  == Batch \subseteq Seq(Op)
ASSUME TargetAssumption == Target \subseteq SUBSET Path

VARIABLES
  leaves,     \* leaves_: what the map holds
  exclusive,  \* threads that hold mu_ by a unique_lock
  shared,     \* threads that hold mu_ by a shared_lock
  batch, pos, \* commit's argument and the next operation of its loop
  target,     \* the paths the read of a thread selects
  todo,       \* the selected paths its loop has still to visit
  out,        \* the snapshot it is building
  result,     \* what its last read returned
  committed   \* history: the map as the last finished commit left it

vars == <<leaves, exclusive, shared, batch, pos, target, todo, out, result,
          committed>>
writerVars == <<exclusive, batch, pos, committed>>
readerVars == <<shared, target, todo, out, result>>

A == INSTANCE AtomicStore WITH store <- committed

TypeOK ==
  /\ leaves \in Content
  /\ committed \in Content
  /\ exclusive \in SUBSET Writer
  /\ shared \in SUBSET Reader
  /\ batch \in [Writer -> Batch \cup {<<>>}]
  /\ pos \in [Writer -> Nat \ {0}]
  /\ \A w \in Writer : pos[w] <= Len(batch[w]) + 1
  /\ target \in [Reader -> SUBSET Path]
  /\ todo \in [Reader -> SUBSET Path]
  /\ out \in [Reader -> Content]
  /\ result \in [Reader -> Content]

\* initLeaves has seeded the map before any other thread can reach it.
Init ==
  /\ leaves \in Content
  /\ committed = leaves
  /\ exclusive = {}
  /\ shared = {}
  /\ batch = [w \in Writer |-> <<>>]
  /\ pos = [w \in Writer |-> 1]
  /\ target = [r \in Reader |-> {}]
  /\ todo = [r \in Reader |-> {}]
  /\ out = [r \in Reader |-> Empty]
  /\ result = [r \in Reader |-> Empty]
-----------------------------------------------------------------------------
(* commit                                                                  *)

\* A mutant of FreeForWriter: the writer does not wait for readers.
FreeIgnoringReaders == exclusive = {}

\* std::shared_mutex: the exclusive mode excludes every other holder.
FreeForWriter == exclusive = {} /\ shared = {}

CommitLock(w) ==
  /\ FreeForWriter
  /\ exclusive' = exclusive \cup {w}
  /\ \E b \in Batch : batch' = [batch EXCEPT ![w] = b]
  /\ pos' = [pos EXCEPT ![w] = 1]
  /\ UNCHANGED <<leaves, committed>>
  /\ UNCHANGED readerVars

\* Mutants of Apply: map::emplace in place of an assignment, which keeps an
\* entry that is there already; and a key stored as the caller spelled it.
ApplyEmplace(m, op) ==
  [m EXCEPT ![Canon[op.xpath]] = IF op.kind = "Set" /\ @ # NoLeaf THEN @
                                 ELSE op.leaf]

ApplyRaw(m, op) ==
  [k \in DOMAIN m \cup {op.xpath} |-> IF k = op.xpath THEN op.leaf ELSE m[k]]

\* The switch of commit's loop; a Remove operation carries no leaf.
Apply(m, op) ==
  [m EXCEPT ![Canon[op.xpath]] = IF op.kind = "Set" THEN op.leaf ELSE NoLeaf]

ApplyOp(w) ==
  /\ w \in exclusive
  /\ pos[w] <= Len(batch[w])
  /\ leaves' = Apply(leaves, batch[w][pos[w]])
  /\ pos' = [pos EXCEPT ![w] = @ + 1]
  /\ UNCHANGED <<exclusive, batch, committed>>
  /\ UNCHANGED readerVars

\* A mutant of LockReleased: the lock outlives the call.
LockKept(w) == exclusive

LockReleased(w) == exclusive \ {w}

CommitUnlock(w) ==
  /\ w \in exclusive
  /\ pos[w] > Len(batch[w])
  /\ exclusive' = LockReleased(w)
  /\ committed' = leaves
  /\ UNCHANGED <<leaves, batch, pos>>
  /\ UNCHANGED readerVars
-----------------------------------------------------------------------------
(* get, collect and snapshot                                               *)

FreeForReader == exclusive = {}

ReadLock(r) ==
  /\ r \notin shared
  /\ FreeForReader
  /\ shared' = shared \cup {r}
  /\ \E t \in Target : /\ target' = [target EXCEPT ![r] = t]
                       /\ todo' = [todo EXCEPT ![r] = t]
  /\ out' = [out EXCEPT ![r] = Empty]
  /\ UNCHANGED <<leaves, result>>
  /\ UNCHANGED writerVars

CopyLeaf(r) ==
  /\ r \in shared
  /\ \E p \in todo[r] : /\ out' = [out EXCEPT ![r][p] = leaves[p]]
                        /\ todo' = [todo EXCEPT ![r] = @ \ {p}]
  /\ UNCHANGED <<leaves, shared, target, result>>
  /\ UNCHANGED writerVars

ReadUnlock(r) ==
  /\ r \in shared
  /\ todo[r] = {}
  /\ result' = [result EXCEPT ![r] = out[r]]
  /\ shared' = shared \ {r}
  /\ UNCHANGED <<leaves, target, todo, out>>
  /\ UNCHANGED writerVars
-----------------------------------------------------------------------------
WriterStep(w) == CommitLock(w) \/ ApplyOp(w) \/ CommitUnlock(w)
ReaderStep(r) == ReadLock(r) \/ CopyLeaf(r) \/ ReadUnlock(r)

Next == \/ \E w \in Writer : WriterStep(w)
        \/ \E r \in Reader : ReaderStep(r)

Spec == Init /\ [][Next]_vars

\* A thread inside a critical section is scheduled; who gets the mutex next is
\* up to the implementation, std::shared_mutex promises no order.
Fairness ==
  /\ \A w \in Writer : WF_vars(ApplyOp(w) \/ CommitUnlock(w))
  /\ \A r \in Reader : WF_vars(CopyLeaf(r) \/ ReadUnlock(r))

FairSpec == Spec /\ Fairness
-----------------------------------------------------------------------------
(* Properties                                                              *)

\* What a read has copied so far, and so what it returns, is the content the
\* last finished commit left: no read mixes two batches, however many commits
\* and reads run at once (leaf_store.hpp: snapshot() "either precedes or
\* follows the whole batch").
ScanCoherent ==
  \A r \in shared :
    out[r] = Selected(committed, target[r] \ todo[r])

\* commit and the reads are as good as indivisible steps: the whole
\* specification implements AtomicStore, for which the last operation on a
\* path decides, so that a delete followed by a set of the same leaf, spelled
\* with quotes or without, ends as the set (leaf_store.cpp, commit).
ImplementsAtomicStore == A!ASpec

\* Whoever is inside the mutex leaves it: a commit ends after its last
\* operation and a read after its last leaf, whatever the other threads do.
CriticalSectionsEnd ==
  /\ \A w \in Writer : w \in exclusive ~> w \notin exclusive
  /\ \A r \in Reader : r \in shared ~> r \notin shared
=============================================================================
