SPECIFICATION FairSpec
CONSTANTS
  r1 = r1
  r2 = r2
  r3 = r3
  r4 = r4
  a1 = a1
  k1 = k1
  NoKey = NoKey
  NoRequest = NoRequest
  NoOperation = NoOperation
  Requests = {r1, r2, r4}
  Actions = {a1}
  ActionOf <- OneAction
  Key <- EditedKey
  Keys = {k1}
  Policy <- EditedPolicy
  Waiters = {w1}
  Operations = {o1}
INVARIANTS
  NoLostWakeup
  DrainedMeansIdle
PROPERTIES
  EveryCallerReturns
