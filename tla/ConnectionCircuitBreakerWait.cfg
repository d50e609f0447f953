SPECIFICATION FairBreakerSpec
CONSTANTS
  Callers = {c1, c2}
  Keys = {k1}
  Breakers = {b1, b2}
  NoBreaker = NoBreaker
  FailureThreshold = 2
  MaxSize = 1
  MaxFailures = 3
PROPERTY WaitingIsEnough
