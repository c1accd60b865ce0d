SPECIFICATION ScheFairSpec
CONSTANTS
  Conns = {c1, c2, c3}
  Peers = {s1}
  NoConn = NoConn
  Faults = {"reset", "silent", "throw"}
CHECK_DEADLOCK FALSE
INVARIANT OneSchedule
PROPERTY PoolGetsFree
