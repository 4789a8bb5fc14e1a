CONSTANTS
  f = f
  x = x
  y = y
  c = c
  v1 = v1
  v2 = v2
  Flat = Flat
  NoLeaf = NoLeaf
  Path = {f, x, y}
  Val = {v1, v2}
  Time = {1}
  Container = {c}
  GroupOf <- MCGroupOf
  Request <- HeartbeatRequests
  Start <- AllLeaves
  Batch <- MCBatch
  Now = 1
  HalfRange = 4
  MaxSlip = 1
  MaxAge = 3
  MaxMessages = 0
  MaxCommits = 1
SPECIFICATION Spec
PROPERTY RemovalsAreSent
