----------------------------- MODULE StoreData -----------------------------
(***************************************************************************)
(* The data a leaf store works on (backend/data_provider.hpp): leaves and  *)
(* the operations of a WriteBatch, and what a batch does to a map of       *)
(* leaves.  A map is a total function on Path that yields NoLeaf where it  *)
(* has no entry.                                                           *)
(***************************************************************************)
EXTENDS Naturals, Sequences

CONSTANTS
  Path,       \* canonical leaf paths, the keys of leaves_
  Leaf,       \* stored leaves: value, collection time and type together
  NoLeaf,     \* marks a path that has no leaf
  Spelling,   \* xpaths as callers write them, key values quoted or not
  Canon       \* Canon[x]: the key an xpath is stored under

Op == [kind : {"Set"}, xpath : Spelling, leaf : Leaf]
        \cup [kind : {"Remove"}, xpath : Spelling, leaf : {NoLeaf}]

ASSUME NoLeafAssumption == NoLeaf \notin Leaf
ASSUME CanonAssumption  == Canon \in [Spelling -> Path]

Content == [Path -> Leaf \cup {NoLeaf}]

Empty == [p \in Path |-> NoLeaf]

\* The leaves of content s that a read of the paths in t returns.
Selected(s, t) == [p \in Path |-> IF p \in t THEN s[p] ELSE NoLeaf]
-----------------------------------------------------------------------------
\* The position of the last of the first n operations of b that names p: the
\* empty set if none of them does, and a singleton otherwise.
LastWrite(b, n, p) ==
  {i \in 1..n : /\ Canon[b[i].xpath] = p
                /\ \A j \in (i + 1)..n : Canon[b[j].xpath] # p}

\* Content s after the first n operations of batch b: for every path the last
\* operation that names it decides, whatever came before it.
Effect(s, b, n) ==
  [p \in Path |-> IF LastWrite(b, n, p) = {} THEN s[p]
                  ELSE b[CHOOSE i \in LastWrite(b, n, p) : TRUE].leaf]
=============================================================================
