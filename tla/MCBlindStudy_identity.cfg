SPECIFICATION Spec
CONSTANTS
  Records <- MCRecords
  Late = {4}
  RawId <- MCRawId
  MaxSalt = 1
  PairId <- MCPairId
  Flip <- MCFlip
  Configs <- ExcludingConfigs
  InfraValidation = FALSE
  Reviewers = {"ann"}
  Raws <- MCRaws
  Preferences = {"b", "equivalent"}
  MaxBatch = 1
  MaxCommands = 2
  MaxCrashes = 1
\* the bounds on commands make the behaviours finite
CHECK_DEADLOCK FALSE
INVARIANTS
  PacketHidesIdentity
