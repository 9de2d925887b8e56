SPECIFICATION PSpec
CONSTANTS
  NumThreads = 1
  Regs = {1, 2}
  Mips = {0}
  FatalOnMismatch = TRUE
  TraceInputs <- Nothing
  HintInputs <- Nothing
  MaxTrace = 3
  MaxProbe = 0
  MaxAxi = 0
  Commits <- SomeCommits
  TagModulus = 2
  MergeStores = TRUE
  MaxTag = 3
CHECK_DEADLOCK FALSE
INVARIANT NoStoreStranded
