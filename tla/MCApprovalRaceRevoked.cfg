CONSTANTS
  None = None
  a1 = a1  a2 = a2  t1 = t1  global = global
  Agents <- MCAgents
  Tasks <- MCTask
  Tokens = {k1, k2, k3}
  Scopes <- MCNone
  Eligible <- MCEligible
  PausesAgent <- MCNone
  PausesTask <- MCNone
  Rank <- MCRank
  MaxAttempts = 2
  AttemptBound = 2
  Deciders = {d1}
SPECIFICATION RaceSpec
PROPERTY RevokedOnlyBeforeConsumption
