SPECIFICATION Spec
SYMMETRY PromptSymmetry
CONSTANTS
  text1 = text1
  text2 = text2
  Catalogues <- MCCatalogues
  Local <- MCLocal
  Backends <- MCBackends
  Models <- MCModels
  Prompts = {text1, text2}
  Environments <- MCEnvironments
  Faults <- MCFaults
  Rules <- MCRules
  Pinned <- MCPinned
  LastDay = 1
  MaxChanges = 1
  MaxSyncs = 2
  MaxRuns = 1
  MaxAccepted = 1
  MaxCrashes = 1
\* the operator may have nothing left to do
CHECK_DEADLOCK FALSE
INVARIANTS
  OnlineInv
  GenerationKept
  VerdictsGrounded
PROPERTIES
  AdviceHolds
