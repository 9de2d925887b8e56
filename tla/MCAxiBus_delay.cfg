SPECIFICATION FairSpec
CONSTANTS
  LastAddr = 1
  Data = {d1, d2}
  Lens <- Single
  RESPONSE_DELAY = 1
  Injects = {FALSE}
PROPERTY EveryRequestServed
