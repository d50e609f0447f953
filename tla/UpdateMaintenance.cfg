SPECIFICATION FairSpec
CONSTANTS
  query = query
  call = call
  session = session
  Operations = {o1, o2}
  NoOperation = NoOperation
  Work = {query, call, session}
  Kind <- WorkKind
  LedgerLimit = 1
INVARIANTS
  ClosedMeansIdle
  NoReopeningUnderExitPolicies
  FreezeIsReversed
PROPERTIES
  PreparationEnds
