SPECIFICATION Spec
CONSTANTS
  NumJobs <- MCNumJobs
  Source <- MCSource
  Options <- MCOptions
  SimLogs <- MCSimLogs
  MaxRuns <- MCMaxRuns
INVARIANTS
  RTypeOK
  PassIsEarned
  SecondCheckAgrees
  PicklesMatchReport
PROPERTIES
  RegressionEnds
