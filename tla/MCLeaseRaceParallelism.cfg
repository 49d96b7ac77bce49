CONSTANTS
  None = None
  a1 = a1  a2 = a2  n1 = n1  n2 = n2  u1 = u1
  Agents <- MCAgents
  Tokens = {k1, k2, k3, k4}
  Nodes <- MCNodes
  Undos <- MCUndos
  UndoOf <- MCUndoOf
  Deps <- MCParallel
  Eligible <- MCSplit
  Gated <- MCNone
  TaskMax = 1
  MaxParallel = 1
  MaxTotal = 3
  AttemptBound = 1
SPECIFICATION RaceSpec
SYMMETRY RaceSymmetry
INVARIANT ParallelismBound
