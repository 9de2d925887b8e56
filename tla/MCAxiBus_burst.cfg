SPECIFICATION Spec
CONSTANTS
  LastAddr = 1
  Data = {d1, d2}
  Lens <- Bursts
  RESPONSE_DELAY = 0
  Injects = {FALSE}
PROPERTY ImplementsMemory
