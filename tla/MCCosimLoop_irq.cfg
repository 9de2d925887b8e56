SPECIFICATION Spec
CONSTANTS
  NumThreads = 1
  Words <- MCWords
  Irqs = {"ext"}
  Effects <- NoEffect
  Items <- IrqItems
  MaxPending = 0
PROPERTY NewInterruptTaken
CHECK_DEADLOCK FALSE
