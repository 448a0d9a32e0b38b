SPECIFICATION Spec
CONSTANTS
  Calls = {c1}
  MaxAttempts = 3
  MaxBackoff = 1
  Threshold = 2
PROPERTY
  PairSuccessReconnects
CHECK_DEADLOCK FALSE
