---------------------------- MODULE MCTaskGraph ----------------------------
(* Small instances of TaskGraph for TLC.                                   *)
EXTENDS TaskGraph, TLC

CONSTANTS a1, a2, n1, n2, u1

MCAgents == {a1, a2}
MCNodes == {n1, n2}
MCUndos == {u1}
MCNone == {}
MCEligible == Agents \X (Nodes \cup Undos)

\* n1 can be undone; the nodes do not depend on each other, so only the parallelism
\* condition keeps them from being held together.
MCUndoOf == (n1 :> u1)
MCDeps == (n1 :> {}) @@ (n2 :> {})

=============================================================================
