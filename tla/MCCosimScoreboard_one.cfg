SPECIFICATION FairSpec
CONSTANTS
  NumThreads = 1
  Regs = {1}
  Mips = {0, 8}
  FatalOnMismatch = FALSE
  TraceInputs <- OneHartItems
  HintInputs <- OneHartHints
  MaxTrace = 3
  MaxProbe = 1
  MaxAxi = 1
INVARIANTS TypeOK StoreAccounting MipChain
PROPERTIES StoreTakesWrite HintDiscipline StoreServed
CHECK_DEADLOCK FALSE
