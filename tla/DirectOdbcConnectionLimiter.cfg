SPECIFICATION FairSpec
CONSTANTS
  s1 = s1
  s2 = s2
  b1 = b1
  g1 = g1
  Operations = {s1, s2, b1, g1}
  ClassOf <- MixClassOf
  Limits = {1, 2, 4}
INVARIANTS PermitsExact NoStrandedWaiter
PROPERTIES OpensWithinLimits WaitersAreServed
