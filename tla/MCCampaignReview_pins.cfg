SPECIFICATION Spec
CONSTANTS
  Configs <- PinnedAsset
  Seeds <- OneSeed
  MaxCommands = 1
  MaxEdits = 1
  MaxCrashes = 0
\* reviewers and operator may leave everything as it is
CHECK_DEADLOCK FALSE
PROPERTIES
  PinsHonoured
