-------------------------- MODULE LeafStoreProofs --------------------------
(***************************************************************************)
(* Theorems about LeafStore, for any paths, leaves, batches and threads.   *)
(***************************************************************************)
EXTENDS LeafStore, TLAPS

\* A commit inside the mutex is alone there, with a batch of some caller.
LockInv == \A w \in exclusive : /\ exclusive = {w} /\ shared = {}
                                /\ batch[w] \in Batch

\* The map is the last committed content, followed by the operations that the
\* commit inside the mutex, if there is one, has applied.
ApplyInv ==
  /\ exclusive = {} => leaves = committed
  /\ \A w \in exclusive : leaves = A!Effect(committed, batch[w], pos[w] - 1)

\* A read visits paths of a target that a caller may ask for.
TodoInv == \A r \in shared : todo[r] \subseteq target[r] /\ target[r] \in Target

\* The invariant that is inductive: ScanCoherent alone is not, it needs the map
\* to stand still while a reader is inside.
IInv == TypeOK /\ LockInv /\ ApplyInv /\ TodoInv /\ ScanCoherent
-----------------------------------------------------------------------------
USE DEF writerVars, readerVars

\* The operations of every batch are operations, and name stored paths.
LEMMA BatchOps ==
  ASSUME NEW b \in Batch \cup {<<>>}, NEW i \in 1..Len(b)
  PROVE  /\ b \in Seq(Op)
         /\ b[i] \in Op
         /\ Canon[b[i].xpath] \in Path
         /\ b[i].leaf \in Leaf \cup {NoLeaf}
         /\ b[i].kind = "Remove" => b[i].leaf = NoLeaf
         /\ b[i].kind \in {"Set", "Remove"}
<1>1. b \in Seq(Op)
  BY BatchAssumption
<1>2. b[i] \in Op
  BY <1>1
<1>. QED
  BY <1>1, <1>2, CanonAssumption DEF Op

\* One operation of a batch leaves a content a content.
LEMMA ApplyType ==
  ASSUME NEW m \in Content, NEW b \in Batch \cup {<<>>}, NEW i \in 1..Len(b)
  PROVE  Apply(m, b[i]) \in Content
BY BatchOps DEF Apply, Content

\* Nothing applied, nothing changed.
LEMMA EffectNone ==
  ASSUME NEW s \in Content, NEW b
  PROVE  A!Effect(s, b, 0) = s
<1>1. \A p \in Path : A!LastWrite(b, 0, p) = {}
  BY DEF A!LastWrite
<1>. QED
  BY <1>1 DEF A!Effect, Content

\* Applying the next operation of a batch to the effect of the ones before it
\* gives the effect of one operation more: the loop of commit computes what
\* AtomicStore says in one step.
LEMMA EffectStep ==
  ASSUME NEW s \in Content, NEW b \in Batch \cup {<<>>}, NEW i \in 1..Len(b)
  PROVE  Apply(A!Effect(s, b, i - 1), b[i]) = A!Effect(s, b, i)
<1> DEFINE k == Canon[b[i].xpath]
<1>1. A!LastWrite(b, i, k) = {i}
  BY BatchOps DEF A!LastWrite
<1>2. ASSUME NEW p \in Path, p # k
      PROVE  A!LastWrite(b, i, p) = A!LastWrite(b, i - 1, p)
  <2>1. \A j \in 1..i : Canon[b[j].xpath] = p => j # i
    BY <1>2
  <2>2. 1..(i - 1) = 1..i \ {i}
    BY BatchOps
  <2>3. \A j \in 1..(i - 1) : (j + 1)..i = ((j + 1)..(i - 1)) \cup {i}
    BY BatchOps
  <2>. QED
    BY <2>1, <2>2, <2>3, <1>2 DEF A!LastWrite
<1>3. b[CHOOSE j \in A!LastWrite(b, i, k) : TRUE].leaf = b[i].leaf
  BY <1>1
<1>4. k \in Path
  BY BatchOps
<1>5. ASSUME NEW p \in Path
      PROVE  Apply(A!Effect(s, b, i - 1), b[i])[p] = A!Effect(s, b, i)[p]
  <2>1. CASE p = k
    BY <2>1, <1>1, <1>3, <1>4, BatchOps DEF Apply, A!Effect
  <2>2. CASE p # k
    BY <2>2, <1>2, <1>4 DEF Apply, A!Effect
  <2>. QED
    BY <2>1, <2>2
<1>. QED
  BY <1>5 DEF Apply, A!Effect
-----------------------------------------------------------------------------
\* The map, the batches and the snapshots under construction keep their types
\* through every step: in particular a key that commit stores is a canonical
\* path, and a commit never runs past its batch.
THEOREM TypeCorrect == Spec => []TypeOK
<1>1. Init => TypeOK
  BY DEF Init, TypeOK, Content, Empty
<1>2. TypeOK /\ [Next]_vars => TypeOK'
  <2> SUFFICES ASSUME TypeOK, [Next]_vars PROVE TypeOK'
    OBVIOUS
  <2>1. ASSUME NEW w \in Writer, CommitLock(w) PROVE TypeOK'
    BY <2>1, BatchAssumption DEF CommitLock, TypeOK
  <2>2. ASSUME NEW w \in Writer, ApplyOp(w) PROVE TypeOK'
    <3>1. pos[w] \in 1..Len(batch[w]) /\ batch[w] \in Batch \cup {<<>>}
      BY <2>2, BatchAssumption DEF ApplyOp, TypeOK
    <3>2. leaves' \in Content
      BY <2>2, <3>1, ApplyType DEF ApplyOp, TypeOK
    <3>. QED
      BY <2>2, <3>1, <3>2, BatchOps DEF ApplyOp, TypeOK
  <2>3. ASSUME NEW w \in Writer, CommitUnlock(w) PROVE TypeOK'
    BY <2>3 DEF CommitUnlock, LockReleased, TypeOK
  <2>4. ASSUME NEW r \in Reader, ReadLock(r) PROVE TypeOK'
    BY <2>4, TargetAssumption DEF ReadLock, TypeOK, Content, Empty
  <2>5. ASSUME NEW r \in Reader, CopyLeaf(r) PROVE TypeOK'
    BY <2>5 DEF CopyLeaf, TypeOK, Content
  <2>6. ASSUME NEW r \in Reader, ReadUnlock(r) PROVE TypeOK'
    BY <2>6 DEF ReadUnlock, TypeOK
  <2>7. CASE UNCHANGED vars
    BY <2>7 DEF vars, TypeOK
  <2>. QED
    BY <2>1, <2>2, <2>3, <2>4, <2>5, <2>6, <2>7
    DEF Next, WriterStep, ReaderStep
<1>. QED
  BY <1>1, <1>2, PTL DEF Spec
-----------------------------------------------------------------------------
\* Nothing is inside the mutex, and no content is half applied, at the start.
LEMMA InitIInv == Init => IInv
<1> SUFFICES ASSUME Init PROVE IInv
  OBVIOUS
<1>1. TypeOK
  BY DEF Init, TypeOK, Content, Empty
<1>. QED
  BY <1>1 DEF Init, IInv, LockInv, ApplyInv, TodoInv, ScanCoherent

\* Every step of a writer or a reader keeps the inductive invariant.
LEMMA StepIInv == IInv /\ TypeOK' /\ [Next]_vars => IInv'
<1> SUFFICES ASSUME IInv, TypeOK', [Next]_vars PROVE IInv'
  OBVIOUS
<1> USE DEF IInv
<1>1. ASSUME NEW w \in Writer, CommitLock(w) PROVE IInv'
  <2> USE <1>1 DEF CommitLock, FreeForWriter
  <2>1. TodoInv' /\ ScanCoherent' /\ LockInv'
    BY DEF LockInv, TodoInv, ScanCoherent, TypeOK
  <2>2. batch'[w] \in Batch \cup {<<>>} /\ pos'[w] = 1 /\ exclusive' = {w}
    BY DEF TypeOK
  <2>3. leaves' = A!Effect(committed', batch'[w], pos'[w] - 1)
    BY <2>2, EffectNone DEF ApplyInv, TypeOK
  <2>4. ApplyInv'
    BY <2>2, <2>3 DEF ApplyInv
  <2>. QED
    BY <2>1, <2>4
<1>2. ASSUME NEW w \in Writer, ApplyOp(w) PROVE IInv'
  <2> USE <1>2 DEF ApplyOp
  <2>1. exclusive = {w} /\ shared = {}
    BY DEF LockInv
  <2>2. pos[w] \in 1..Len(batch[w]) /\ batch[w] \in Batch \cup {<<>>}
    BY BatchAssumption DEF TypeOK
  <2>3. leaves' = A!Effect(committed', batch'[w], pos'[w] - 1)
    BY <2>2, EffectStep DEF ApplyInv, TypeOK
  <2>4. ApplyInv'
    BY <2>1, <2>3 DEF ApplyInv
  <2>5. LockInv' /\ TodoInv' /\ ScanCoherent'
    BY <2>1 DEF LockInv, TodoInv, ScanCoherent
  <2>. QED
    BY <2>4, <2>5
<1>3. ASSUME NEW w \in Writer, CommitUnlock(w) PROVE IInv'
  <2> USE <1>3 DEF CommitUnlock, LockReleased
  <2>1. exclusive' = {} /\ shared' = {}
    BY DEF LockInv
  <2>. QED
    BY <2>1 DEF LockInv, ApplyInv, TodoInv, ScanCoherent
<1>4. ASSUME NEW r \in Reader, ReadLock(r) PROVE IInv'
  <2> USE <1>4 DEF ReadLock, FreeForReader
  <2>1. LockInv' /\ ApplyInv' /\ TodoInv'
    BY DEF LockInv, ApplyInv, TodoInv, TypeOK
  <2>2. ASSUME NEW q \in shared', q # r
        PROVE  out'[q] = Selected(committed', target'[q] \ todo'[q])
    BY <2>2 DEF ScanCoherent, TypeOK
  <2>3. out'[r] = Selected(committed', target'[r] \ todo'[r])
    BY DEF TypeOK, Selected, Empty
  <2>4. ScanCoherent'
    BY <2>2, <2>3 DEF ScanCoherent
  <2>. QED
    BY <2>1, <2>4
<1>5. ASSUME NEW r \in Reader, CopyLeaf(r) PROVE IInv'
  <2> USE <1>5 DEF CopyLeaf
  <2>1. exclusive = {} /\ leaves = committed
    BY DEF LockInv, ApplyInv, TypeOK
  <2>2. PICK p \in todo[r] : /\ out' = [out EXCEPT ![r][p] = leaves[p]]
                             /\ todo' = [todo EXCEPT ![r] = @ \ {p}]
    OBVIOUS
  <2>3. out'[r] = Selected(committed', target'[r] \ todo'[r])
    <3>1. p \in target[r] /\ p \in Path
      BY <2>2, TargetAssumption DEF TodoInv, TypeOK
    <3>2. target[r] \ (todo[r] \ {p}) = (target[r] \ todo[r]) \cup {p}
      BY <3>1
    <3>3. out[r] = Selected(committed, target[r] \ todo[r])
      BY DEF ScanCoherent
    <3>. QED
      BY <2>1, <2>2, <3>1, <3>2, <3>3 DEF Selected, TypeOK, Content
  <2>4. ScanCoherent'
    BY <2>2, <2>3 DEF ScanCoherent, TypeOK
  <2>5. LockInv' /\ ApplyInv' /\ TodoInv'
    BY <2>2 DEF LockInv, ApplyInv, TodoInv, TypeOK
  <2>. QED
    BY <2>4, <2>5
<1>6. ASSUME NEW r \in Reader, ReadUnlock(r) PROVE IInv'
  BY <1>6 DEF ReadUnlock, LockInv, ApplyInv, TodoInv, ScanCoherent
<1>7. CASE UNCHANGED vars
  BY <1>7 DEF vars, LockInv, ApplyInv, TodoInv, ScanCoherent
<1>. QED
  BY <1>1, <1>2, <1>3, <1>4, <1>5, <1>6, <1>7
  DEF Next, WriterStep, ReaderStep

LEMMA Inductive == Spec => []IInv
BY InitIInv, StepIInv, TypeCorrect, PTL DEF Spec

\* No read mixes two batches: whatever the leaves, the batches and the number
\* of threads, what a read copies is the content one commit left.
THEOREM ReadsAreCoherent == Spec => []ScanCoherent
<1>1. IInv => ScanCoherent
  BY DEF IInv
<1>. QED
  BY <1>1, Inductive, PTL

\* The locked loops of commit and of the reads implement indivisible commits
\* and reads: LeafStore implements AtomicStore.
THEOREM StoreRefinement == Spec => ImplementsAtomicStore
<1>1. Init => A!AInit
  BY DEF Init, A!AInit, Content, Empty, A!Content, A!Empty
<1>2. IInv /\ [Next]_vars => [A!ANext]_(A!avars)
  <2> SUFFICES ASSUME IInv, [Next]_vars PROVE [A!ANext]_(A!avars)
    OBVIOUS
  <2> USE DEF IInv, A!avars
  <2>1. ASSUME NEW w \in Writer, CommitUnlock(w) PROVE A!Commit
    <3> USE <2>1 DEF CommitUnlock
    <3>1. pos[w] - 1 = Len(batch[w]) /\ batch[w] \in Batch \cup {<<>>}
      BY BatchAssumption DEF TypeOK
    <3>2. committed' = A!Effect(committed, batch[w], Len(batch[w]))
      BY <3>1 DEF ApplyInv
    <3>. QED
      BY <3>2 DEF A!Commit, LockInv
  <2>2. ASSUME NEW r \in Reader, ReadUnlock(r) PROVE A!Read
    <3> USE <2>2 DEF ReadUnlock
    <3>1. target[r] \in Target /\ out[r] = Selected(committed, target[r])
      BY DEF TodoInv, ScanCoherent
    <3>. QED
      BY <3>1 DEF A!Read, A!Selected, Selected
  <2>3. ASSUME NEW w \in Writer, CommitLock(w) \/ ApplyOp(w)
        PROVE  UNCHANGED <<committed, result>>
    BY <2>3 DEF CommitLock, ApplyOp
  <2>4. ASSUME NEW r \in Reader, ReadLock(r) \/ CopyLeaf(r)
        PROVE  UNCHANGED <<committed, result>>
    BY <2>4 DEF ReadLock, CopyLeaf
  <2>. QED
    BY <2>1, <2>2, <2>3, <2>4
    DEF Next, WriterStep, ReaderStep, vars, A!ANext
<1>. QED
  BY <1>1, <1>2, Inductive, PTL DEF Spec, ImplementsAtomicStore, A!ASpec
=============================================================================
