SPECIFICATION Spec
CONSTANTS
  NumThreads = 1
  Regs = {1}
  Mips = {0}
  FatalOnMismatch = FALSE
  TraceInputs <- InterruptedStore
  HintInputs <- Nothing
  MaxTrace = 2
  MaxProbe = 0
  MaxAxi = 1
PROPERTY IrqOnlyTakesNothing
CHECK_DEADLOCK FALSE
