SPECIFICATION MCSpec
CONSTANTS
  d1 = d1  d2 = d2  a1 = a1  a2 = a2
  NoAccount = NoAccount
  Devices <- TwoDevices
  Accounts <- TwoAccounts
  Holders <- MCHolders
  Targets = {1}
  Faults <- LeakFaults
  MaxRefusals = 0
  MaxRestarts = 0
PROPERTY RejectMeansTooFewAccounts
