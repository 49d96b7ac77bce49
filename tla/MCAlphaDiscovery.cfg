CONSTANTS
  MaxCycles = 2
  MaxTrials = 1
  Variants = 1
  MaxParallel = 2
  LowWatermark = 2
  Candidates = {i1}
  AutoRetries = 1
  AutoCorrections = 1
  ReopenBound = 1
SPECIFICATION FairSpec
INVARIANTS EndsAreDebited OneCycleInDiscovery CampaignGrounded
PROPERTIES CountersRepaired Replenished
CHECK_DEADLOCK FALSE
