SPECIFICATION PoolSpec
CONSTANTS
  MaxTasks = 5
  Task <- MCTask
  Batches <- MCBatches
  Concurrency = 3
  TaskStartDelay = 500
  WorkerStartDelay = 1000
INVARIANTS
  PoolInv
  NoSharedTask
  ReturnedAllSettled
PROPERTIES
  ImplementsBoard
  CallReturns
