SPECIFICATION Spec
CHECK_DEADLOCK FALSE
CONSTANTS
  Kinds <- MCKinds
  SimLogs <- MCSimLogs
  MaxMakes <- MCMaxMakes
PROPERTIES
  CompileErrorCollected
