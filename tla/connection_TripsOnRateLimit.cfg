SPECIFICATION Spec
CONSTANTS
  Calls = {c1}
  MaxAttempts = 3
  MaxBackoff = 1
  Threshold = 2
INVARIANT
  TripsOnRateLimit
CHECK_DEADLOCK FALSE
