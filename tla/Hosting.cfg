SPECIFICATION Spec
CONSTANTS
  t1 = t1
  t2 = t2
  Users = {"ann", "bob", "cid"}
  Creator = "ann"
  MaxPlayers = 3
  Tasks <- TwoTasks
  MaxJoins = 3
  MaxFailures = 0
SYMMETRY Interchangeable
INVARIANT
  HostIsEarliest
CHECK_DEADLOCK FALSE
