SPECIFICATION MCSpec
CONSTANTS
  s1 = s1  s2 = s2  c1 = c1  c2 = c2
  Sessions <- TwoSessions
  IO = IO
  Conns <- TwoConns
  NoConn = NoConn
  NoSession = NoSession
  MaxAccounts = 2
CHECK_DEADLOCK FALSE
INVARIANTS SettledBeforeNext RequestIsHeard WaitIsTimed
PROPERTIES ImplementsCalls LateAnswerIsIgnored
