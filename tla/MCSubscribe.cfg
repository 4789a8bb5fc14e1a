CONSTANTS
  f = f
  x = x
  y = y
  c = c
  v1 = v1
  v2 = v2
  Flat = Flat
  NoLeaf = NoLeaf
  Path = {f, x, y}
  Val = {v1, v2}
  Time = {1}
  Container = {c}
  GroupOf <- MCGroupOf
  Request <- AllRequests
  Start <- OneStart
  Batch <- MCBatch
  Now = 1
  HalfRange = 4
  MaxSlip = 2
  MaxAge = 3
  MaxMessages = 2
  MaxCommits = 2
SPECIFICATION FairSpec
INVARIANTS TypeOK Mirror RecordsNotTorn RefusedBeforeSync AnswersAreCurrent OneSyncPerPoll
PROPERTIES Converges CancelEnds TimersRepair HeartbeatsOncePerInterval PollsAreAnswered BadIsRefused
