---------------------------- MODULE AtomicStore ----------------------------
(***************************************************************************)
(* What a LeafStore promises its callers (the comments of leaf_store.hpp   *)
(* and data_provider.hpp): a commit applies a whole WriteBatch in one      *)
(* indivisible step, and a read returns the selected leaves of one store   *)
(* content.  The detailed specification, LeafStore, takes the lock and     *)
(* goes through the batch and the leaves one at a time.                    *)
(***************************************************************************)
EXTENDS StoreData

CONSTANTS
  Batch,      \* the batches that may be committed: sequences of operations
  Target,     \* the sets of leaf paths a read may select
  Reader

VARIABLES
  store,      \* the content of the store
  result      \* result[r]: what the last read of thread r returned

avars == <<store, result>>
-----------------------------------------------------------------------------
AInit == /\ store \in Content
         /\ result = [r \in Reader |-> Empty]

Commit == \E b \in Batch : /\ store' = Effect(store, b, Len(b))
                           /\ UNCHANGED result

Read == \E r \in Reader, t \in Target :
          /\ result' = [result EXCEPT ![r] = Selected(store, t)]
          /\ UNCHANGED store

ANext == Commit \/ Read

ASpec == AInit /\ [][ANext]_avars
=============================================================================
