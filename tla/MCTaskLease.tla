---------------------------- MODULE MCTaskLease ----------------------------
(* Small instances of TaskLease for TLC.                                   *)
EXTENDS TaskLease, TLC

CONSTANTS a1, a2, t1, t2, global, workflow

MCAgents == {a1, a2}
MCTasks == {t1, t2}
MCRank == (t1 :> 1) @@ (t2 :> 2)

\* a2 lacks the capability that t2 needs.
MCEligible == (MCAgents \X MCTasks) \ {<<a2, t2>>}

\* `global' stops every agent, `workflow' withholds t2 only.
MCScopes == {global, workflow}
MCPausesAgent == {global} \X MCAgents
MCPausesTask == {<<workflow, t2>>}

TokenSymmetry == Permutations(Tokens)

=============================================================================
