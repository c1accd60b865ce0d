SPECIFICATION FairSpec
CONSTANTS
  Conns = {c1, c2, c3}
  Peers = {p1, p2}
  NoConn = NoConn
  Faults = {"reset", "throw"}
CHECK_DEADLOCK FALSE
INVARIANTS OneOpenPerPhone StatusFollowsPool
PROPERTIES ImplementsDevices LeavingIsNoticed
