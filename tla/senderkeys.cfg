SPECIFICATION Spec
CONSTANTS
  Handlers = {h1, h2}
  MaxStates = 2
  MaxMessageKeys = 2
  MaxAhead = 2
  MaxKeys = 2
  MaxSends = 3
  MaxReceipts = 2
SYMMETRY Symmetry
CHECK_DEADLOCK FALSE
INVARIANTS
  KeysKept
  DecryptedOnce
  KeyOnRecord
