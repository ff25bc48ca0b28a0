SPECIFICATION Spec
CONSTANTS
  Allowlist = {"node"}
  MaxFiles = 2
  MaxFileBytes = 1
  MaxTotalBytes = 2
  Benchmark <- MCBenchmark
  ScaleMin = 0
  ScaleMax = 4
  Targets <- MCTargets
  Kind <- MCKind
  Suite <- MCSuite
  Repetitions = 1
  ExcludeFromRankings = FALSE
  SpecFound = TRUE
  Threshold <- MCThreshold
  Outputs <- MCOutputs
  Blank <- MCBlank
  Endings = {"exit0", "timeout"}
  Prints = {{}}
  Panels <- MCPanels
  Installable = {{}, {"node"}}
  MaxSessions = 2
  MaxFaults = 1
  MaxChanges = 1
  MaxJudgings = 1
\* the bounds on invocations make the behaviours finite
CHECK_DEADLOCK FALSE
INVARIANTS
  ExperimentInv
  RecordsAccounted
  OnlyOrphansLeft
  NoVerdictWithoutRun
  QualifiedOnEvidence
  DisqualifiedOnEvidence
PROPERTIES
  RecordsKept
  CommandEnds
