SPECIFICATION MCKFairSpec
CONSTANTS
  d1 = d1  a1 = a1
  NoAccount = NoAccount
  Devices <- OneDevice
  Accounts <- OneAccount
  Holders <- MCHolders
  Slots = {1, 2}
  Targets = {1}
  Faults <- KeepFaults
  MaxRefusals = 1
  MaxRestarts = 1
CHECK_DEADLOCK FALSE
INVARIANTS KeepInv ChoreOnce SecondSessionNeedsRace LastSessionFreesPhone
PROPERTIES KeepEnds KImplementsPool
