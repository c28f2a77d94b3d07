SPECIFICATION FairSpec
CONSTANTS
  w1 = w1
  w2 = w2
  a1 = a1
  Workers = {w1, w2}
  Clients = {c1}
  Affinities = {a1}
  NoAffinity = NoAffinity
  WorkerAffinity <- MCWorkerAffinity
  Free = Free
  NoTask = NoTask
  StampRange = 8
  MaxTasks = 3
  MaxDeps = 2
INVARIANTS TypeOK ReadyIffQueued CountsMatch RunsAfterDependencies Accounted
PROPERTIES TakesItsShare BacklogRuns ClosedWorkersLeave
\* Every task is added and run, or the executor is closed and left.
CHECK_DEADLOCK FALSE
