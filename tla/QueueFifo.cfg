SPECIFICATION FairSpec
CONSTANTS
  Tasks = {t1, t2}
  NoTask = NoTask
  Producers = {p1, p2}
  Consumers = {c1, c2}
  MaxTasks = 2
INVARIANTS NoLostWakeup StopWakesAll
PROPERTY ImplementsFairFifo
