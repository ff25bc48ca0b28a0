SPECIFICATION Spec
CONSTANTS
  PromptOrder <- MCPromptOrder1
  TargetOrder <- MCTargetOrder2
  Prompt <- MCPrompt
  Target <- MCTarget
  Task <- MCTask
  Matrix <- MCMatrix
  Batches <- MCBatches
  Shadows <- PrefixShadows
  Concurrency = 2
  TaskStartDelay = 500
  WorkerStartDelay = 1000
  MaxSessions = 2
  MaxCrashes = 0
  MaxFaults = 0
  MaxCleans = 0
\* the operator may leave everything as it is
CHECK_DEADLOCK FALSE
PROPERTIES
  SkippedHaveRecord
