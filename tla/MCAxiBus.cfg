SPECIFICATION FairSpec
CONSTANTS
  LastAddr = 1
  Data = {d1, d2}
  Lens <- Single
  RESPONSE_DELAY = 0
  Injects = {TRUE, FALSE}
INVARIANTS ATypeOK ErrorsOnlyWhereChosen
PROPERTIES MonitorFaithful EveryRequestServed ImplementsMemory
