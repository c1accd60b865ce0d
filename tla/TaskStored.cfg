SPECIFICATION FairSpec
CONSTANTS
  v1 = v1  v2 = v2  bad = bad  unknown = unknown  worker = worker
  Tasks <- MixedTasks
  Kind <- MixedKind
  NoTask = NoTask
  Consumers <- OneWorker
  Worker = worker
  MaxCrashes = 2
CHECK_DEADLOCK FALSE
INVARIANTS ResultBelongsToTask FinishedHasResult QueueMatchesTable
PROPERTIES FinishedIsNotRunAgain TasksFinish
