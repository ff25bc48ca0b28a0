SPECIFICATION Spec
CONSTANTS
  ResultOrder <- MCOrder2
  Result <- MCResult
  Task <- MCResult
  Batches <- MCBatches
  KeyOf <- DistinctKeys
  Format <- RecordFiles
  Evaluators <- MCEvaluators1
  SaveEvery = 2
  MaxAttempts = 3
  MaxRuns = 1
  MaxJudgeFaults = 0
  MaxFileFaults = 0
  MaxCrashes = 0
  Concurrency = 2
  TaskStartDelay = 500
  WorkerStartDelay = 1000
\* the operator may leave everything as it is
CHECK_DEADLOCK FALSE
PROPERTIES
  EveryResultEvaluated
