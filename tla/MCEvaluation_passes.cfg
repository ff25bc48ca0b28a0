SPECIFICATION Spec
CONSTANTS
  ResultOrder <- MCOrder2
  Result <- MCResult
  Task <- MCResult
  Batches <- MCBatches
  KeyOf <- DistinctKeys
  Format <- LegacyFiles
  Evaluators <- MCEvaluators2
  SaveEvery = 2
  MaxAttempts = 2
  MaxRuns = 1
  MaxJudgeFaults = 2
  MaxFileFaults = 1
  MaxCrashes = 1
  Concurrency = 2
  TaskStartDelay = 500
  WorkerStartDelay = 1000
\* the operator may leave everything as it is
CHECK_DEADLOCK FALSE
INVARIANTS
  ResumeInv
  ProgressIsBacked
PROPERTIES
  ImplementsWork
  ClosedPassIsRecorded
  SummaryMatchesFiles
  EvaluatedUnlessCutShort
