SPECIFICATION Spec
CHECK_DEADLOCK FALSE
CONSTANTS
  Suites <- MCSuites
  TestsOf <- MCTestsOf
  Reference <- MCReference
  SuiteRate <- MCSuiteRate
  KnownFail <- MCKnownFail
  Under <- MCUnder
  SimOutcomes <- MCSimOutcomes
  Options <- MCOptions
  MaxRuns <- MCMaxRuns
  MinPassed <- MCMinPassed
  MaxFailPct = 34
  MinPassRate = 100
  Thresholds <- MCThresholds
  Policy <- MCPolicy
INVARIANTS
  NoRelaxation
