CONSTANTS
  u1 = u1
  u2 = u2
  MaxChanges = 1
  MaxDeaths = 1
  Admins = {a1, a2}
  Users = {u1, u2}
SPECIFICATION MCSpec
CHECK_DEADLOCK FALSE
INVARIANTS
  OneStandardPhase
  PassedMeansComplete
PROPERTIES
  OneAttempt
  AttemptIsRecorded
