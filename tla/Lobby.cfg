SPECIFICATION Spec
CONSTANTS
  t1 = t1
  t2 = t2
  Users = {"ann", "bob", "cid", "dan"}
  Creator = "ann"
  MaxPlayers = 3
  Tasks <- TwoTasks
  MaxJoins = 3
  MaxFailures = 1
SYMMETRY Interchangeable
INVARIANTS
  TypeOK
  RoomBound
  OneStartWins
  OrderlyHost
PROPERTIES
  StatusForward
CHECK_DEADLOCK FALSE
