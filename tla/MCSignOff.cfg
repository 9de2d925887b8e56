SPECIFICATION Spec
CONSTANTS
  d1 = d1
  d2 = d2
  StageList <- MCStageList
  Kind <- MCKind
  TestsOf <- MCTestsOf
  SimLogs <- MCSimLogs
  ToolOutcomes <- MCToolOutcomes
  CovOutcomes <- MCCovOutcomes
  Options <- MCOptions
  Elsewhere <- MCElsewhere
  MaxRuns = 2
  Parallel = 1
  MaxOrphans = 1
  MinPassed <- MCMinPassed
  MaxFailPct = 50
  MinPassRate = 100
  Thresholds <- MCThresholds
  Policy <- MCPolicy
  PoolSize = 3
  Unlisted = FALSE
SYMMETRY MCSymmetry
CHECK_DEADLOCK FALSE
INVARIANTS
  StalePassNamed
  PassMeansThreshold
  ReportsAgree
