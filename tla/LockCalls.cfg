SPECIFICATION FairSpec
CONSTANTS
  Threads = {s1, s2, s3}
  NoThread = NoThread
  MaxCalls = 1
  MaxEntries = 2
CHECK_DEADLOCK FALSE
INVARIANTS OverlapsAreKnown StandstillIsWedge
PROPERTIES WedgeIsFinal CallsEnd
