CONSTANTS
  None = None
  a1 = a1  a2 = a2  t1 = t1  t2 = t2
  Agents <- MCAgents
  Tokens = {k1, k2, k3, k4}
  Tasks <- MCTasks
  Deps <- MCDeps
  Rank <- MCRank
  Gated <- MCNone
  Recoverable <- MCRecoverable
  TaskMax = 2
  MaxRecoveries = 1
  AttemptBound = 2
SPECIFICATION Spec
SYMMETRY TokenSymmetry
INVARIANT NoLeaseBeforeApproval
