---------------------------- MODULE MCLeaseRace ----------------------------
(* Small instances of LeaseRace for TLC.                                   *)
EXTENDS LeaseRace, TLC

CONSTANTS a1, a2, n1, n2, u1

MCAgents == {a1, a2}
MCNodes == {n1, n2}
MCNone == {}
MCUndos == {u1}
MCUndoOf == (n1 :> u1)
MCChain == (n1 :> {}) @@ (n2 :> {n1})
MCParallel == [n \in Nodes |-> {}]

\* Both workers can take both nodes, one of them the undo task.
MCEligible == (MCAgents \X MCNodes) \cup ({a1} \X MCUndos)
\* Each node needs a capability of its own worker.
MCSplit == {<<a1, n1>>, <<a2, n2>>}

RaceSymmetry == Permutations(Tokens)

=============================================================================
