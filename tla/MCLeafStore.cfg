CONSTANTS
  x = x
  y = y
  xq = xq
  l1 = l1
  l2 = l2
  w1 = w1
  w2 = w2
  r1 = r1
  r2 = r2
  NoLeaf = NoLeaf
  Path <- MCPath
  Leaf = {l1, l2}
  Spelling <- MCSpelling
  Canon <- MCCanon
  Batch <- MCBatch
  Target <- MCTarget
  Writer = {w1, w2}
  Reader = {r1, r2}
SPECIFICATION FairSpec
INVARIANTS TypeOK ScanCoherent
PROPERTIES ImplementsAtomicStore CriticalSectionsEnd
