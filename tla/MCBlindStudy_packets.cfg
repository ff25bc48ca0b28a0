SPECIFICATION Spec
CONSTANTS
  Records <- MCRecords
  Late = {4}
  RawId <- MCRawId
  MaxSalt = 1
  PairId <- MCPairId
  Flip <- MCFlip
  Configs <- MCConfigs
  InfraValidation = FALSE
  Reviewers = {"ann"}
  Raws <- MCRaws
  Preferences = {"b", "equivalent"}
  MaxBatch = 2
  MaxCommands = 4
  MaxCrashes = 1
\* the bounds on commands make the behaviours finite
CHECK_DEADLOCK FALSE
INVARIANTS
  BlindInv
  PacketComplete
  AcceptedAreJoined
  AttributedToShown
PROPERTIES
  ReviewsKept
  PairwiseAttributed
  ReportAdds
