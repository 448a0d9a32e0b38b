SPECIFICATION Spec
CONSTANTS
  a = a
  b = b
  Calls = {a}
  Contents <- MCContents
  Hosts = 1
  Chunks = 1
  MaxTime = 0
  MaxAuths = 1
CHECK_DEADLOCK FALSE
INVARIANTS
  ForwardMarked
