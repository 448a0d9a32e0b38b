SPECIFICATION Spec
CONSTANTS
  n1 = n1
  n2 = n2
  l1 = l1
  l2 = l2
  Stanzas = {s1, s2}
  Numbers = {n1, n2}
  Lids = {l1, l2}
  Shapes <- MCShapes
  Layers = 2
  MaxEnds = 0
  People = {p1, p2, p3}
  Me = p1
  Modes = {"pn", "lid"}
  Devices = {0, 5}
  MaxRead = 3
CHECK_DEADLOCK FALSE
PROPERTIES
  SessionsFollow
