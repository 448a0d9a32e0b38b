SPECIFICATION Spec
CONSTANTS
  Logins = {u1, u2, u3}
  Messages = {m1}
  INITIAL_PREKEY_COUNT = 2
  MIN_PREKEY_COUNT = 1
  MaxId = 4
  MaxCrashes = 1
  MaxCacheSize = 2
SYMMETRY Symmetric
CHECK_DEADLOCK FALSE
INVARIANTS
  AckedOnly
  DecryptableUnlessReused
