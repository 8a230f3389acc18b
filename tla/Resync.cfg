SPECIFICATION Spec
CONSTANTS
  p1 = p1
  p2 = p2
  Nodes = {"n1"}
  Clients <- TwoClients
  c1 = c1
  c2 = c2
  Home <- Together
  Publishers <- TwoPublishers
  MaxSeq = 2
  MaxFailures = 1
SYMMETRY Interchangeable
INVARIANTS
  LastStateCurrent
CHECK_DEADLOCK FALSE
