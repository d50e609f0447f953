SPECIFICATION Spec
CONSTANTS
  r1 = r1
  r2 = r2
  r3 = r3
  r4 = r4
  t1 = t1
  NoToken = NoToken
  NoOperation = NoOperation
  LaneCap <- Cap
  Requests = {r1, r2}
  Kind <- IdleKind
  Weight <- IdleWeight
  Token <- IdleToken
  Tokens = {}
  Releasable = {}
  MaxQueueSize = 2
  MaxWorkers = 1
  Waiters = {w1}
  Operations = {}
PROPERTIES
  IdleWaitIsCurrent
CHECK_DEADLOCK FALSE
