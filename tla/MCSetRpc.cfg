CONSTANTS
  s1 = s1
  s2 = s2
  host = host
  hostq = hostq
  zone = zone
  ghost = ghost
  alien = alien
  sensors = sensors
  system = system
  v1 = v1
  v2 = v2
  h1 = h1
  h2 = h2
  NoLeaf = NoLeaf
  NoProvider = NoProvider
  Path <- MCPath
  Spelling <- MCSpelling
  Canon <- MCCanon
  Val = {v1, v2}
  MaxClock = 1
  Route <- MCRoute
  Owner <- MCOwner
  Schema <- MCSchema
  Applier = {system}
  Handler = {h1, h2}
  Request <- MCRequest
  Sensor = {s1, s2}
SPECIFICATION Spec
SYMMETRY Threads
INVARIANTS TypeOK TypesFollowSchema SensorsShareTick StatusIsDeserved
PROPERTY ImplementsAtomicSet
