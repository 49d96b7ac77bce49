--------------------------- MODULE MCApprovalRace ---------------------------
(* Small instances of ApprovalRace for TLC.                                *)
EXTENDS ApprovalRace, TLC

CONSTANTS a1, a2, t1, global

MCAgents == {a1, a2}
MCTask == {t1}
MCRank == (t1 :> 1)
MCEligible == MCAgents \X MCTask

\* One switch that stops every agent.
MCScope == {global}
MCPausesAgent == MCScope \X MCAgents
MCNone == {}

=============================================================================
