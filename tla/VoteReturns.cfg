SPECIFICATION MCFairSpec
CONSTANTS
  d1 = d1  d2 = d2  a1 = a1  a2 = a2
  NoAccount = NoAccount
  Devices <- TwoDevices
  Accounts <- TwoAccounts
  Holders <- MCHolders
  Targets = {1}
  Faults <- AnswerFaults
  MaxRefusals = 1
  MaxRestarts = 0
INVARIANTS VotesCounted DbBehindMemory
PROPERTY TaskReturns
