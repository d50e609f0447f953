SPECIFICATION Spec
CONSTANTS
  Runs = {r1, r2}
  r1 = r1
  r2 = r2
  Options <- MCOptions
  Reports <- MCReports
  MaxHostChanges = 2
  MaxRepairs = 2
  MaxTampering = 2
  MaxAttempts = 2
  Versions = {1, 2}
  Selections <- MCSelections
  Outcomes <- MCOutcomes
  Required <- MCRequired
  Sections <- MCSections
  MaxSummaries = 2
  MaxConditions = 1
SYMMETRY Symmetry
INVARIANTS
  PassIsEarned
  RepairPassedMeansPreserved
  PassedMeansWholeLifecycle
  ApprovedMeansMeasured
  PassedComparisonIsConclusive
PROPERTIES
  InstallerRunsOverASnapshot
\* The tools end, and each is started a bounded number of times.
CHECK_DEADLOCK FALSE
