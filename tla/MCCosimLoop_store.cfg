SPECIFICATION Spec
CONSTANTS
  NumThreads = 2
  Words <- MCWords
  Irqs = {}
  Effects <- MCEffects
  Items <- TwoHarts
  MaxPending = 0
PROPERTY StoreDifferenceReported
CHECK_DEADLOCK FALSE
