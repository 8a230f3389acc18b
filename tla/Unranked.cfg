SPECIFICATION Spec
CONSTANTS
  Instances <- TwoProcesses
  Handlers <- Connections
  Home <- HomeOf
  Users = {"u1", "u2"}
  Ranked = FALSE
  MaxVersion = 2
  MaxFailures = 1
INVARIANT
  UnrankedNotRated
CHECK_DEADLOCK FALSE
