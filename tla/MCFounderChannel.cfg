CONSTANTS
  MaxGenerations = 2
  MaxCommands = 1
  MaxFaults = 1
  Loops = {1, 2}
SPECIFICATION FairSpec
INVARIANTS AcknowledgedMeansSent OncePerGeneration HandoffUsedOnce
PROPERTIES GateAnnounced CommandAnswered
