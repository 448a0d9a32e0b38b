SPECIFICATION FairSpec
CONSTANTS
  Callers = {c1, c2}
  MessagesPerMinute = 2
  Minute = 5
  Scale = 3
  Rounding = 1
  MaxPoll = 2
  DelayMin = 1
  DelayMax = 2
  MaxBack = 1
  Horizon = 4
INVARIANTS
  TypeOK
  WindowBound
  PromiseKept
PROPERTY
  TokensAreGranted
