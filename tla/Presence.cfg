SPECIFICATION Spec
CONSTANTS
  Users = {"ann"}
  Conns = {"c1", "c2"}
  Owner <- BothAnn
  QueueSize = 2
  MaxFailures = 1
INVARIANTS
  TypeOK
  WatchedOver
PROPERTIES
  WholeGraceAway
  RunEnds
  GoneAreRemoved
CHECK_DEADLOCK FALSE
