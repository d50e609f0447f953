SPECIFICATION MixSpec
CONSTANTS
  r1 = r1
  r2 = r2
  r3 = r3
  r4 = r4
  t1 = t1
  NoToken = NoToken
  NoOperation = NoOperation
  LaneCap <- Cap
  Requests = {r1, r2, r3, r4}
  Kind <- MixKind
  Weight <- MixWeight
  Token <- MixToken
  Tokens = {t1}
  Releasable = {r3}
  MaxQueueSize = 2
  MaxWorkers = 2
  Waiters = {w1}
  Operations = {op1}
INVARIANTS
  CapacityExact
  NoGhostQuery
  NoLostWakeup
PROPERTIES
  EveryCallerReturns
  DrainCompletes
  PassedOverLaneAdvances
CHECK_DEADLOCK FALSE
