SPECIFICATION Spec
CONSTANTS
  NumThreads = 1
  Words <- MCWords
  Irqs = {"ext"}
  Effects <- NoEffect
  Items <- TrapItems
  MaxPending = 0
INVARIANTS NoErrorLeftOver NmiStackHoldsInterrupted
CHECK_DEADLOCK FALSE
