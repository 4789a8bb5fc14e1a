CONSTANTS
  k1 = k1
  k2 = k2
  k3 = k3
  bad = bad
  v1 = v1
  v2 = v2
  h = h
  a = a
  ab = ab
  Alphabet = {"c", "s", "v", "h", "n", "g", "a", "b", "o"}
  Key = {k1, k2, k3}
  BadKey = {bad}
  NoKey = NoKey
  NoLeaf = NoLeaf
  AtomicRoot <- MCAtomicRoot
  AtomicMarker <- MCAtomicMarker
  PathOf <- MCPathOf
  Schema <- MCSchema
  Route <- MCRoute
  Request <- PrefixRequest
  Batch <- MCBatch
  Now = 9
  MaxCommits = 1
SPECIFICATION Spec
INVARIANT PathsResolve
