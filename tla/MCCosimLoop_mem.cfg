SPECIFICATION Spec
CONSTANTS
  NumThreads = 2
  Words <- MCWords
  Irqs = {}
  Effects <- MCEffects
  Items <- TwoHarts
  MaxPending = 2
PROPERTIES OwnHartOnly DsideFailureHarmless WidenedReadConsumedWhole
CHECK_DEADLOCK FALSE
