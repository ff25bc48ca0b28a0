SPECIFICATION Spec
CONSTANTS
  Configs <- TwoModelsOrTwice
  Seeds <- OneSeed
  MaxCommands = 0
  MaxEdits = 1
  MaxCrashes = 1
\* reviewers and operator may leave everything as it is
CHECK_DEADLOCK FALSE
INVARIANTS
  CampaignInv
  ScoresAttributed
PROPERTIES
  CompletedRunIsJoined
  ReportsGrow
  ReviewsReachReport
