--------------------------- MODULE MCReconcileRace ---------------------------
(* Small instances of ReconcileRace for TLC.                               *)
EXTENDS ReconcileRace, TLC

CONSTANTS a1, a2, n1, n2, u1

MCAgents == {a1, a2}
MCNodes == {n1, n2}
MCUndos == {u1}
MCGated == {n2}

\* n1 can be undone, n2 needs an approval; the nodes do not depend on each other and may
\* run together.
MCUndoOf == (n1 :> u1)
MCDeps == (n1 :> {}) @@ (n2 :> {})
MCEligible == {<<a1, n1>>, <<a2, n2>>} \cup ({a1} \X Undos)

\* Nothing is decided on the node mirror: states that differ in it alone are one state.
\* (The last entry only makes TLC evaluate the mirror.)
RaceView == <<graph, overdue, task, hold, txn, node = node>>

RaceSymmetry == Permutations(Tokens)

=============================================================================
