SPECIFICATION BreakerSpec
CONSTANTS
  Callers = {c1, c2, c3}
  Keys = {k1}
  Breakers = {b1, b2, b3, b4}
  NoBreaker = NoBreaker
  FailureThreshold = 2
  MaxSize = 1
  MaxFailures = 3
INVARIANT SingleProbe
