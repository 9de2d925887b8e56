SPECIFICATION Spec
CONSTANTS
  NumThreads = 2
  Regs = {1}
  Mips = {0}
  FatalOnMismatch = TRUE
  TraceInputs <- TwoHartItems
  HintInputs <- TwoHartHints
  MaxTrace = 3
  MaxProbe = 1
  MaxAxi = 2
INVARIANT NoMissedWakeup
PROPERTY ImplementsLockstep
CHECK_DEADLOCK FALSE
