SPECIFICATION FairBreakerSpec
CONSTANTS
  FailureThreshold = 3
  FailureWindow = 4
  BaseCooldown = 1
  MaxCooldown = 5
  MaxTrips = 4
INVARIANTS
  ForgetsWhenClosed
PROPERTIES
  Implements
  Recovers
