SPECIFICATION Spec
CONSTANTS
  Zone = 8
  Late = 3
  Days = 3
  MaxRestarts = 1
CHECK_DEADLOCK FALSE
INVARIANTS HourlyUntil23 TasksGoOnPast23 ResetComesFirst
