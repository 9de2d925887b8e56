SPECIFICATION Spec
CONSTANTS
  LastAddr = 1
  Data = {d1, d2}
  Lens <- Single
  RESPONSE_DELAY = 0
  Injects = {TRUE}
INVARIANT WriteErrorDelivered
