SPECIFICATION Spec
CONSTANTS
  Calls = {c1, c2}
  MaxAttempts = 2
  MaxBackoff = 1
  Threshold = 1
INVARIANTS
  DisconnectSticks
  ConnectedMeansClosed
PROPERTIES
  StopIsFinal
SYMMETRY Symmetry
CHECK_DEADLOCK FALSE
