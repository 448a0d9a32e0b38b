SPECIFICATION Spec
CONSTANTS
  a = a
  b = b
  c = c
  NoMessage = NoMessage
  Messages = {a, b, c}
  Weight <- MixedPriorities
  MaxRetries = 2
  MaxSize = 2
  MaxDead = 1
PROPERTY
  ClearRejectsAllPending
