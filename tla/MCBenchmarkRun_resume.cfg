SPECIFICATION Spec
CONSTANTS
  PromptOrder <- MCPromptOrder1
  TargetOrder <- MCTargetOrder2
  Prompt <- MCPrompt
  Target <- MCTarget
  Task <- MCTask
  Matrix <- MCMatrix
  Batches <- MCBatches
  Shadows <- NoShadows
  Concurrency = 2
  TaskStartDelay = 500
  WorkerStartDelay = 1000
  MaxSessions = 1
  MaxCrashes = 2
  MaxFaults = 1
  MaxCleans = 1
\* the operator may leave everything as it is
CHECK_DEADLOCK FALSE
INVARIANTS
  ResumeInv
  ViewHasRecord
  TotalsMatchDisk
PROPERTIES
  ImplementsStore
  EveryTaskFiled
