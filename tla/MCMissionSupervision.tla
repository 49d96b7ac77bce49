------------------------ MODULE MCMissionSupervision ------------------------
(* Small instances of MissionSupervision for TLC.                          *)
EXTENDS MissionSupervision, TLC

CONSTANTS a1, a2, t1, t2

MCAgents == {a1, a2}
MCAgent == {a1}
MCTasks == {t1, t2}
MCDeps == (t1 :> {}) @@ (t2 :> {t1})
MCRank == (t1 :> 1) @@ (t2 :> 2)
MCNone == {}
MCGated == {t2}
\* The plan's allowlist names the category of a lease that expired.
MCRecoverable == {"retryable", "lease_expired"}

TokenSymmetry == Permutations(Tokens) \cup Permutations(Agents)

=============================================================================
