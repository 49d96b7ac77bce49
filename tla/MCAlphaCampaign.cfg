CONSTANTS
  Questions = 2
  LastRung = 2
  MaxTrials = 1
  MaxVariants = 2
  MaxFailures = 1
  Protocols <- MCProtocols
SPECIFICATION FairSpec
INVARIANTS TypeOK AnswersAccounted OpenedWithinBudget ExecutionGated LiveWorkIsWatched
PROPERTIES InvalidIsEarned KeepsLedger DurationCloses
CHECK_DEADLOCK FALSE
