---------------------------- MODULE MCLeafStore ----------------------------
(* Two leaves, each with two spellings, two writers and two readers.  The   *)
(* batches are a record written at once, a delete and a re-creation of one  *)
(* leaf under both spellings, a delete, and the empty batch.                *)
EXTENDS LeafStore, TLC

CONSTANTS x, y, xq, l1, l2, w1, w2, r1, r2

MCPath == {x, y}
MCSpelling == {x, xq, y}
MCCanon == x :> x @@ xq :> x @@ y :> y

Set(s, l) == [kind |-> "Set", xpath |-> s, leaf |-> l]
Remove(s) == [kind |-> "Remove", xpath |-> s, leaf |-> NoLeaf]

MCBatch == { <<Set(x, l1), Set(y, l1)>>,
             <<Remove(xq), Set(y, l2), Set(x, l2)>>,
             <<Remove(y)>>,
             <<>> }
MCTarget == { {x}, {x, y} }
=============================================================================
