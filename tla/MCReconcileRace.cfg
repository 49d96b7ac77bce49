CONSTANTS
  None = None
  Controller = Controller
  a1 = a1  a2 = a2  n1 = n1  n2 = n2  u1 = u1
  Agents <- MCAgents
  Tokens = {k1, k2, k3}
  Nodes <- MCNodes
  Undos <- MCUndos
  UndoOf <- MCUndoOf
  Deps <- MCDeps
  Eligible <- MCEligible
  Gated <- MCGated
  TaskMax = 1
  MaxParallel = 2
  MaxTotal = 2
  AttemptBound = 0
SPECIFICATION RaceSpec
SYMMETRY RaceSymmetry
VIEW RaceView
INVARIANTS SuccessMeansAll UndoOnlyAfterSuccess CompensatedIsUndone
PROPERTIES RaceNoSuccessAfterClose ClosesCompensated
