SPECIFICATION FairSpec
CONSTANTS
  Calls = {c1}
  MaxAttempts = 2
  MaxBackoff = 1
  Threshold = 1
INVARIANTS
  StatusMatchesLoop
PROPERTIES
  LoginSettles
CHECK_DEADLOCK FALSE
