SPECIFICATION Spec
CONSTANTS
  Zone = 8
  Late = 1
  Days = 3
  MaxRestarts = 0
INVARIANT EveryDayIsReset
CHECK_DEADLOCK FALSE
