CONSTANTS
  f = f
  x = x
  y = y
  c = c
  Flat = Flat
  NoLeaf = NoLeaf
  MaxTime = 3
  Path = {f, x, y}
  Val = {v1, v2}
  Container = {c}
  GroupOf <- MCGroupOf
  Time = {1, 2, 3}
SPECIFICATION Spec
INVARIANTS TypeOK Mirrors StampsAreFresh RecordsAreWhole
