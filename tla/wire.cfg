SPECIFICATION FairSpec
CONSTANTS
  MaxFrames = 4
  ZippedFrames <- MCZipped
  MalformedFrames <- MCMalformed
  MaxNodes = 2
  Interval = 2
  Grace = 1
  SingleTokens <- MCSingle
  DoubleTokens <- MCDouble
  Strings <- MCStrings
  Nodes <- MCNodes
  Lengths <- MCLengths
  Persons = {p1, p2, p3}
  Creator = p1
  Subjects = {1, 2}
  Durations = {60}
  Texts = {1, 2}
CHECK_DEADLOCK FALSE
INVARIANTS
  InStep
  DeliveredInOrder
  StanzasReturn
  GroupsFollow
PROPERTIES
  FramesDelivered
  SilenceReported
