CONSTANTS
  None = None
  a1 = a1  a2 = a2  t1 = t1  t2 = t2  global = global  workflow = workflow
  Agents <- MCAgents
  Tasks <- MCTasks
  Tokens = {k1, k2, k3, k4}
  Scopes <- MCScopes
  Eligible <- MCEligible
  PausesAgent <- MCPausesAgent
  PausesTask <- MCPausesTask
  Rank <- MCRank
  MaxAttempts = 2
  AttemptBound = 2
SPECIFICATION Spec
SYMMETRY TokenSymmetry
INVARIANTS LeaseCoherent ApprovalGate AttemptBudget
PROPERTY TokenIsPaidFor
