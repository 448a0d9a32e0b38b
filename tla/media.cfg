SPECIFICATION FairSpec
CONSTANTS
  a = a
  b = b
  Calls = {a, b}
  Contents <- MCContents
  Hosts = 2
  Chunks = 2
  MaxTime = 1
  MaxAuths = 2
CHECK_DEADLOCK FALSE
INVARIANTS
  OwnBytes
  FilesRemoved
  ContextArrives
PROPERTIES
  SendSettles
