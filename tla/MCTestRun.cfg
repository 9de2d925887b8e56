SPECIFICATION FairTestSpec
CHECK_DEADLOCK FALSE
CONSTANTS
  LastAddr = 1
  Data = {pass, fail, char}
  Lens <- Single
  RESPONSE_DELAY = 0
  Injects = {FALSE}
  MAILBOX = 1
  PASS = pass
  FAIL = fail
  Drain = 10
  Forms = {"sequence"}
INVARIANTS PassNeedsToken TokenIsHeard DrainSuffices
PROPERTIES TokenEndsTest
