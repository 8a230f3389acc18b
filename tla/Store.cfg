SPECIFICATION FairSpec
CONSTANTS
  Instances <- TwoProcesses
  Handlers <- Connections
  Home <- HomeOf
  Users = {"u1", "u2"}
  Ranked = TRUE
  MaxVersion = 2
  MaxFailures = 1
INVARIANTS
  TypeOK
  ClosedMeansOver
  RatedAtMostOnce
PROPERTIES
  NoLostUpdate
  PlaysMatch
  FinishCompletes
CHECK_DEADLOCK FALSE
