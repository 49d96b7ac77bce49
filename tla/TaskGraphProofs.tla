--------------------------- MODULE TaskGraphProofs ---------------------------
(***************************************************************************)
(* Machine-checked proofs that a typed graph keeps its dependency order,   *)
(* that what has succeeded is frozen once it closes and that it claims no  *)
(* success it does not have, for any finite set of nodes, any              *)
(* dependencies, compensations, gates, workers and budgets; that order and *)
(* freeze survive any number of lease transactions open beside each other  *)
(* (LeaseRace); and how far those can exceed the declared parallelism.     *)
(*                                                                         *)
(* reconcile_graph is a function of a view of the tables, so the invariant *)
(* is stated of a status, rows and clock (GraphInv), shown to survive each *)
(* kind of change to the rows, and then reconciliation.                    *)
(***************************************************************************)
EXTENDS LeaseRace, TaskRowsProofs, FiniteSetTheorems

Sound(rows) == rows \in [Tasks -> Row] /\ \A t \in Tasks : SoundRow(rows[t])

\* Activation creates all nodes, and nothing else does.
NodesExist(g, rows) == \A n \in Nodes : rows[n].status = "absent" <=> g = "draft"

\* A node that is still held in a closing graph has been asked to stop, so the only call
\* that could make it succeed is refused.
Asked(g, rows) ==
  g \in {"cancelling", "compensating"} => \A n \in Nodes : Active(rows[n]) => rows[n].cancel

Ordered(rows) ==
  \A n \in Nodes :
    (Active(rows[n]) \/ rows[n].status = "succeeded") =>
      \A d \in Deps[n] : rows[d].status = "succeeded"

Exists(rows, u) == rows[u].status # "absent"

\* Undo work exists only for what succeeded in a graph that did not; a graph that
\* compensates has all the undo work it needs, one that has compensated has it done; and
\* when undo work exists though every node succeeded, the graph stays one that fails
\* closed: a later cancellation cannot turn it into a success.
Undone(g, rows, late) ==
  /\ \A n \in Compensable :
       Exists(rows, UndoOf[n]) =>
         rows[n].status = "succeeded" /\ g \notin {"draft", "active", "succeeded"}
  /\ g = "compensating" =>
       \A n \in Compensable : rows[n].status = "succeeded" => Exists(rows, UndoOf[n])
  /\ g = "compensated" =>
       \A n \in Compensable :
         rows[n].status = "succeeded" => rows[UndoOf[n]].status = "succeeded"
  /\ (All(rows, Nodes, {"succeeded"}) /\ \E n \in Compensable : Exists(rows, UndoOf[n]))
       => late \/ AttemptsUsed(rows) > MaxTotal

GraphInv(g, rows, late) ==
  /\ Sound(rows) /\ NodesExist(g, rows) /\ Asked(g, rows) /\ Ordered(rows)
  /\ Undone(g, rows, late)
  /\ g = "succeeded" => All(rows, Nodes, {"succeeded"})

\* The inductive invariant.
IInv == TypeOK /\ GraphInv(graph, task, overdue)

\* No node has succeeded in `rows' that had not in `old'.
NoNewSuccess(old, rows) ==
  \A n \in Nodes : rows[n].status = "succeeded" => old[n].status = "succeeded"

-----------------------------------------------------------------------------
(* Changes of rows.                                                        *)

\* Which tasks the conditions speak of.
LEMMA GraphFacts ==
  /\ Nodes \subseteq Tasks /\ Undos \subseteq Tasks /\ Compensable \subseteq Nodes
  /\ \A n \in Compensable : UndoOf[n] \in Undos /\ UndoOf[n] \notin Nodes
  /\ \A n \in Nodes : Deps[n] \subseteq Nodes
BY GraphAssumption DEF Tasks

\* What is still true of the rows, when each is kept, whatever the graph's status.
LEMMA KeptRows ==
  ASSUME NEW old, Sound(old), Ordered(old), NEW rows, rows \in [Tasks -> Row],
         \A t \in Tasks : RowKept(old[t], rows[t])
  PROVE  /\ Sound(rows) /\ Ordered(rows) /\ NoNewSuccess(old, rows)
         /\ All(rows, Nodes, {"succeeded"}) =>
              All(old, Nodes, {"succeeded"}) /\ AttemptsUsed(rows) = AttemptsUsed(old)
<1>1. Sound(rows) BY DEF Sound, RowKept
<1>2. Ordered(rows)
  <2> SUFFICES ASSUME NEW n \in Nodes, Active(rows[n]) \/ rows[n].status = "succeeded",
                      NEW d \in Deps[n]
               PROVE  rows[d].status = "succeeded"
    BY DEF Ordered
  <2>1. n \in Tasks /\ d \in Tasks BY GraphFacts
  <2>2. Active(old[n]) \/ old[n].status = "succeeded" BY <2>1 DEF RowKept
  <2>3. old[d].status = "succeeded" BY <2>2 DEF Ordered
  <2> QED BY <2>1, <2>3 DEF RowKept
<1>3. NoNewSuccess(old, rows) BY GraphFacts DEF NoNewSuccess, RowKept
<1>4. ASSUME All(rows, Nodes, {"succeeded"})
      PROVE  All(old, Nodes, {"succeeded"}) /\ AttemptsUsed(rows) = AttemptsUsed(old)
  <2>1. \A n \in Nodes : old[n].status = "succeeded" BY <1>3, <1>4 DEF NoNewSuccess, All
  <2>2. \A n \in Nodes : rows[n].attempts = old[n].attempts
    BY <2>1, GraphFacts DEF RowKept
  <2>3. [n \in Nodes |-> rows[n].attempts] = [n \in Nodes |-> old[n].attempts]
    BY <2>2
  <2> QED BY <2>1, <2>3 DEF All, AttemptsUsed
<1> QED BY <1>1, <1>2, <1>3, <1>4

\* Rows that are each kept satisfy the invariant if the old ones did.
LEMMA KeptInv ==
  ASSUME NEW g, NEW old, NEW late, GraphInv(g, old, late), NEW rows, rows \in [Tasks -> Row],
         \A t \in Tasks : RowKept(old[t], rows[t])
  PROVE  GraphInv(g, rows, late) /\ NoNewSuccess(old, rows)
<1>1. /\ Sound(rows) /\ Ordered(rows) /\ NoNewSuccess(old, rows)
      /\ All(rows, Nodes, {"succeeded"}) =>
           All(old, Nodes, {"succeeded"}) /\ AttemptsUsed(rows) = AttemptsUsed(old)
  BY KeptRows DEF GraphInv
<1>2. NodesExist(g, rows) BY GraphFacts DEF GraphInv, NodesExist, RowKept
<1>3. Asked(g, rows) BY GraphFacts DEF GraphInv, Asked, RowKept
<1>4. \A n \in Compensable : /\ Exists(rows, UndoOf[n]) <=> Exists(old, UndoOf[n])
                             /\ rows[n].status = "succeeded" <=> old[n].status = "succeeded"
                             /\ old[UndoOf[n]].status = "succeeded"
                                  => rows[UndoOf[n]].status = "succeeded"
  BY GraphFacts DEF RowKept, Exists
<1>5. Undone(g, rows, late) BY <1>1, <1>4 DEF GraphInv, Undone
<1>6. g = "succeeded" => All(rows, Nodes, {"succeeded"})
  BY GraphFacts DEF GraphInv, All, RowKept
<1> QED BY <1>1, <1>2, <1>3, <1>5, <1>6 DEF GraphInv

\* The same for a step that rewrites one row.
LEMMA OneKeptInv ==
  ASSUME NEW g, NEW old, NEW late, GraphInv(g, old, late), NEW t \in Tasks, NEW q,
         RowKept(old[t], q)
  PROVE  GraphInv(g, [old EXCEPT ![t] = q], late) /\ NoNewSuccess(old, [old EXCEPT ![t] = q])
<1> DEFINE rows == [old EXCEPT ![t] = q]
<1>1. old \in [Tasks -> Row] /\ \A u \in Tasks : SoundRow(old[u]) BY DEF GraphInv, Sound
<1>2. rows \in [Tasks -> Row] BY <1>1 DEF RowKept, SoundRow
<1>3. \A u \in Tasks : RowKept(old[u], rows[u])
  <2> TAKE u \in Tasks
  <2>1. rows[u] = old[u] \/ (u = t /\ rows[u] = q) BY <1>1
  <2> QED BY <1>1, <2>1, SameKept
<1> HIDE DEF rows
<1>4. GraphInv(g, rows, late) /\ NoNewSuccess(old, rows) BY <1>2, <1>3, KeptInv
<1> QED BY <1>4 DEF rows

\* The cancellation of all nodes: every node that is still held has been asked to stop.
LEMMA CancelNodesKept ==
  ASSUME NEW rows, Sound(rows), \A n \in Nodes : rows[n].status # "absent"
  PROVE  /\ CancelNodes(rows) \in [Tasks -> Row]
         /\ \A t \in Tasks : RowKept(rows[t], CancelNodes(rows)[t])
         /\ \A n \in Nodes : Active(CancelNodes(rows)[n]) => CancelNodes(rows)[n].cancel
         /\ \A n \in Nodes : rows[n].status = "failed" => CancelNodes(rows)[n].status = "failed"
<1> DEFINE c == CancelNodes(rows)
<1>1. \A t \in Tasks \ Nodes : c[t] = rows[t] BY DEF CancelNodes
<1>2. \A n \in Nodes : c[n] = CancelRow(rows[n]) BY GraphFacts DEF CancelNodes
<1>3. \A n \in Nodes : /\ RowKept(rows[n], c[n])
                       /\ Active(c[n]) => c[n].cancel
                       /\ rows[n].status = "failed" => c[n].status = "failed"
  BY <1>2, GraphFacts, CancelKept DEF Sound
<1>4. \A t \in Tasks : RowKept(rows[t], c[t]) BY <1>1, <1>3, SameKept DEF Sound
<1>5. c \in [Tasks -> Row]
  <2>1. \A t \in Tasks : c[t] \in Row BY <1>4 DEF RowKept, SoundRow
  <2> QED BY <2>1 DEF CancelNodes
<1> QED BY <1>3, <1>4, <1>5

\* A created task waits and is sound.
LEMMA NewRowSound ==
  ASSUME NEW t \in Tasks
  PROVE  SoundRow(NewRow(t)) /\ Waiting(NewRow(t))
<1> DEFINE g == t \in Gated
<1>1. TaskMax \in Nat BY GraphAssumption
<1>2. NewRow(t) = Created(g, TaskMax) BY DEF NewRow
<1>3. g \in BOOLEAN OBVIOUS
<1> HIDE DEF g
<1> QED BY <1>1, <1>2, <1>3, CreatedSound

\* _create_compensations leaves the nodes alone and gives every succeeded node its undo.
LEMMA MaterializedRows ==
  ASSUME NEW rows, Sound(rows)
  PROVE  /\ Sound(Materialized(rows))
         /\ \A n \in Nodes : Materialized(rows)[n] = rows[n]
         /\ \A n \in Compensable :
              Exists(Materialized(rows), UndoOf[n]) <=>
                Exists(rows, UndoOf[n]) \/ rows[n].status = "succeeded"
         /\ AttemptsUsed(Materialized(rows)) = AttemptsUsed(rows)
<1> DEFINE m == Materialized(rows)
<1>1. \A t \in Tasks : m[t] = IF t \in ToUndo(rows) THEN NewRow(t) ELSE rows[t]
  BY DEF Materialized
<1>2. \A t \in Tasks : SoundRow(m[t]) BY <1>1, NewRowSound DEF Sound
<1>3. Sound(m)
  <2>1. \A t \in Tasks : m[t] \in Row BY <1>2 DEF SoundRow
  <2> QED BY <1>2, <2>1 DEF Sound, Materialized
<1>4. \A n \in Nodes : m[n] = rows[n]
  <2> TAKE n \in Nodes
  <2>1. n \notin ToUndo(rows) BY GraphFacts DEF ToUndo
  <2> QED BY <1>1, <2>1, GraphFacts
<1>5. \A n \in Compensable :
        Exists(m, UndoOf[n]) <=> Exists(rows, UndoOf[n]) \/ rows[n].status = "succeeded"
  <2> TAKE n \in Compensable
  <2>1. UndoOf[n] \in Tasks BY GraphFacts
  <2>2. UndoOf[n] \in ToUndo(rows) <=> rows[n].status = "succeeded" /\ ~Exists(rows, UndoOf[n])
    BY GraphAssumption DEF ToUndo, Exists
  <2>3. NewRow(UndoOf[n]).status # "absent" BY <2>1, NewRowSound DEF Waiting
  <2> QED BY <1>1, <2>1, <2>2, <2>3 DEF Exists
<1>6. [n \in Nodes |-> m[n].attempts] = [n \in Nodes |-> rows[n].attempts] BY <1>4
<1>7. AttemptsUsed(m) = AttemptsUsed(rows)
  <2> HIDE DEF m
  <2> QED BY <1>6 DEF AttemptsUsed
<1> QED BY <1>3, <1>4, <1>5, <1>7

\* A graph that ends or compensates over rows with all the undo work they need.
LEMMA CloseInv ==
  ASSUME NEW late, NEW rows, Sound(rows), Ordered(rows),
         \A n \in Nodes : rows[n].status # "absent",
         \A n \in Nodes : Active(rows[n]) => rows[n].cancel,
         \A n \in Compensable : Exists(rows, UndoOf[n]) => rows[n].status = "succeeded",
         All(rows, Nodes, {"succeeded"}) /\ (\E n \in Compensable : Exists(rows, UndoOf[n]))
           => late \/ AttemptsUsed(rows) > MaxTotal,
         NEW h \in {"failed", "cancelled", "compensating"},
         h = "compensating" => \A n \in Compensable :
                                 rows[n].status = "succeeded" => Exists(rows, UndoOf[n])
  PROVE  GraphInv(h, rows, late)
BY DEF GraphInv, NodesExist, Asked, Undone

-----------------------------------------------------------------------------
(* reconcile_graph on a view.                                              *)

\* While compensating: compensated is claimed only when all undo work has succeeded.
LEMMA CompensationInv ==
  ASSUME NEW v, NEW late, GraphInv(v.graph, v.task, late), v.graph = "compensating",
         NEW w, w = ReconcileCompensation(v), v = View(v.graph, v.task, v.node)
  PROVE  /\ GraphInv(w.graph, w.task, late) /\ w.task = v.task
         /\ w.graph \in ActiveGraph \cup TerminalGraph /\ w.node = v.node
<1> DEFINE undos == {u \in Undos : v.task[u].status # "absent"}
<1>1. /\ w.task = v.task /\ w.node = v.node
      /\ \/ w.graph = "compensating"
         \/ w.graph = "compensation_failed"
         \/ w.graph = "compensated" /\ All(v.task, undos, {"succeeded"})
  BY DEF ReconcileCompensation, View
<1>2. GraphInv(w.graph, v.task, late)
  <2>1. CASE w.graph = "compensating" BY <2>1
  <2>2. CASE w.graph = "compensation_failed"
    BY <2>2 DEF GraphInv, NodesExist, Asked, Undone
  <2>3. CASE w.graph = "compensated" /\ All(v.task, undos, {"succeeded"})
    <3>1. \A n \in Compensable :
            v.task[n].status = "succeeded" => v.task[UndoOf[n]].status = "succeeded"
      BY <2>3, GraphFacts DEF GraphInv, Undone, Exists, All
    <3> QED BY <2>3, <3>1 DEF GraphInv, NodesExist, Asked, Undone
  <2> QED BY <1>1, <2>1, <2>2, <2>3
<1> QED BY <1>1, <1>2 DEF ActiveGraph, TerminalGraph

\* Fail closed: cancel what can be cancelled, and compensate what succeeded.
LEMMA FailClosedInv ==
  ASSUME NEW v, NEW late, GraphInv(v.graph, v.task, late), v.graph \in {"active", "cancelling"},
         MustFailClosed(v.task, late), v = View(v.graph, v.task, v.node),
         NEW w, w = FailClosed(v)
  PROVE  /\ GraphInv(w.graph, w.task, late) /\ NoNewSuccess(v.task, w.task)
         /\ w.graph \in ActiveGraph \cup TerminalGraph /\ w.node = v.node
<1> DEFINE old == v.task
           c == CancelNodes(v.task)
           m == Materialized(c)
<1>1. /\ w.task = m /\ w.node = v.node
      /\ \/ w.graph = "failed"
         \/ w.graph = "compensating"
  BY DEF FailClosed, View
<1>2. Sound(old) /\ Ordered(old) /\ \A n \in Nodes : old[n].status # "absent"
  BY DEF GraphInv, NodesExist
<1>3. /\ c \in [Tasks -> Row]
      /\ \A t \in Tasks : RowKept(old[t], c[t])
      /\ \A n \in Nodes : Active(c[n]) => c[n].cancel
      /\ \A n \in Nodes : old[n].status = "failed" => c[n].status = "failed"
  BY <1>2, CancelNodesKept
<1> HIDE DEF old, c
<1>4. /\ Sound(c) /\ Ordered(c) /\ NoNewSuccess(old, c)
      /\ All(c, Nodes, {"succeeded"}) =>
           All(old, Nodes, {"succeeded"}) /\ AttemptsUsed(c) = AttemptsUsed(old)
  BY <1>2, <1>3, KeptRows
<1>5. /\ Sound(m)
      /\ \A n \in Nodes : m[n] = c[n]
      /\ \A n \in Compensable : Exists(m, UndoOf[n]) <=> Exists(c, UndoOf[n]) \/ c[n].status = "succeeded"
      /\ AttemptsUsed(m) = AttemptsUsed(c)
  BY <1>4, MaterializedRows
<1> HIDE DEF m
<1>6. Ordered(m) BY <1>4, <1>5, GraphFacts DEF Ordered
<1>7. \A n \in Nodes : m[n].status # "absent" /\ (Active(m[n]) => m[n].cancel)
  BY <1>2, <1>3, <1>5, GraphFacts DEF RowKept
<1>8. \A n \in Compensable : Exists(c, UndoOf[n]) => c[n].status = "succeeded"
  <2> SUFFICES ASSUME NEW n \in Compensable, Exists(c, UndoOf[n]) PROVE c[n].status = "succeeded"
    OBVIOUS
  <2>1. n \in Tasks /\ UndoOf[n] \in Tasks BY GraphFacts
  <2>2. Exists(old, UndoOf[n]) BY <1>3, <2>1 DEF Exists, RowKept
  <2>3. old[n].status = "succeeded" BY <2>2 DEF GraphInv, Undone, old
  <2> QED BY <1>3, <2>1, <2>3 DEF RowKept
<1>9. \A n \in Compensable : Exists(m, UndoOf[n]) <=> m[n].status = "succeeded"
  BY <1>5, <1>8, GraphFacts
<1>10. All(m, Nodes, {"succeeded"}) => late \/ AttemptsUsed(m) > MaxTotal
  <2> SUFFICES ASSUME All(m, Nodes, {"succeeded"}) PROVE late \/ AttemptsUsed(m) > MaxTotal
    OBVIOUS
  <2>1. All(c, Nodes, {"succeeded"}) BY <1>5 DEF All
  <2>2. \A n \in Nodes : old[n].status # "failed" BY <1>3, <2>1 DEF All
  <2>3. late \/ AttemptsUsed(old) > MaxTotal BY <2>2 DEF MustFailClosed, old
  <2> QED BY <1>4, <1>5, <2>1, <2>3
<1>11. GraphInv(w.graph, m, late)
  BY <1>1, <1>5, <1>6, <1>7, <1>9, <1>10, CloseInv
<1>12. NoNewSuccess(old, m) BY <1>4, <1>5 DEF NoNewSuccess
<1> QED BY <1>1, <1>11, <1>12 DEF ActiveGraph, TerminalGraph, old

\* Otherwise: success, the end of a cancellation, failure, or more to come.
LEMMA ProgressInv ==
  ASSUME NEW v, NEW late, GraphInv(v.graph, v.task, late), v.graph \in {"active", "cancelling"},
         ~MustFailClosed(v.task, late), v = View(v.graph, v.task, v.node),
         NEW w, w = ReconcileProgress(v)
  PROVE  /\ GraphInv(w.graph, w.task, late) /\ NoNewSuccess(v.task, w.task)
         /\ w.graph \in ActiveGraph \cup TerminalGraph /\ w.node = v.node
<1> DEFINE rows == v.task
           m == Materialized(rows)
<1>0. Sound(rows) /\ Ordered(rows) /\ \A n \in Nodes : rows[n].status # "absent"
  BY DEF GraphInv, NodesExist
<1>1. CASE All(rows, Nodes, {"succeeded"})
  <2>1. w.graph = "succeeded" /\ w.task = rows /\ w.node = v.node
    BY <1>1 DEF ReconcileProgress, View
  <2>2. \A n \in Compensable : ~Exists(rows, UndoOf[n])
    BY <1>1 DEF GraphInv, Undone, MustFailClosed
  <2>3. GraphInv("succeeded", rows, late)
    BY <1>0, <1>1, <2>2 DEF GraphInv, NodesExist, Asked, Undone
  <2> QED BY <2>1, <2>3 DEF NoNewSuccess, TerminalGraph
<1>2. CASE ~All(rows, Nodes, {"succeeded"}) /\ All(rows, Nodes, TerminalTask) /\ v.graph = "cancelling"
  <2>1. w.task = m /\ w.node = v.node /\ (w.graph = "cancelled" \/ w.graph = "compensating")
    BY <1>2 DEF ReconcileProgress, View
  <2>2. /\ Sound(m)
        /\ \A n \in Nodes : m[n] = rows[n]
        /\ \A n \in Compensable :
             Exists(m, UndoOf[n]) <=> Exists(rows, UndoOf[n]) \/ rows[n].status = "succeeded"
    BY <1>0, MaterializedRows
  <2>3. \A n \in Compensable : Exists(m, UndoOf[n]) <=> rows[n].status = "succeeded"
    BY <2>2 DEF GraphInv, Undone
  <2> HIDE DEF rows, m
  <2>4. Ordered(m) BY <1>0, <2>2, GraphFacts DEF Ordered
  <2>5. \A n \in Nodes : m[n].status # "absent" /\ (Active(m[n]) => m[n].cancel)
    BY <1>0, <1>2, <2>2 DEF All, Active, ActiveLease, TerminalTask
  <2>6. ~All(m, Nodes, {"succeeded"}) BY <1>2, <2>2 DEF All
  <2>7. GraphInv(w.graph, m, late)
    BY <2>1, <2>2, <2>3, <2>4, <2>5, <2>6, GraphFacts, CloseInv
  <2> QED BY <2>1, <2>2, <2>7 DEF NoNewSuccess, ActiveGraph, TerminalGraph, rows
<1>3. CASE ~All(rows, Nodes, {"succeeded"}) /\ All(rows, Nodes, TerminalTask) /\ v.graph = "active"
  <2>1. w.graph = "failed" /\ w.task = rows /\ w.node = v.node
    BY <1>3 DEF ReconcileProgress, View
  <2>2. GraphInv("failed", rows, late)
    BY <1>3 DEF GraphInv, NodesExist, Asked, Undone
  <2> QED BY <2>1, <2>2 DEF NoNewSuccess, TerminalGraph
<1>4. CASE ~All(rows, Nodes, {"succeeded"}) /\ ~All(rows, Nodes, TerminalTask)
  <2>1. w = v BY <1>4 DEF ReconcileProgress
  <2> QED BY <2>1 DEF NoNewSuccess, ActiveGraph
<1> QED BY <1>1, <1>2, <1>3, <1>4

\* reconcile_graph keeps the invariant and makes no node succeed.
LEMMA ReconciledInv ==
  ASSUME NEW g \in ActiveGraph \cup TerminalGraph, NEW rows, NEW late, GraphInv(g, rows, late),
         NEW mirror \in [Nodes -> Statuses \cup {"blocked"}],
         NEW w, w = Reconciled(View(g, rows, mirror), late)
  PROVE  /\ GraphInv(w.graph, w.task, late) /\ NoNewSuccess(rows, w.task)
         /\ w.graph \in ActiveGraph \cup TerminalGraph
         /\ w.node \in [Nodes -> Statuses \cup {"blocked"}]
<1> DEFINE v == View(g, rows, mirror)
           synced == [v EXCEPT !.node = [n \in Nodes |-> v.task[n].status]]
           s == View(g, rows, [n \in Nodes |-> rows[n].status])
<1>1. synced = s BY DEF View
<1>2. s.graph = g /\ s.task = rows /\ s.node = [n \in Nodes |-> rows[n].status]
      /\ s = View(s.graph, s.task, s.node)
  BY DEF View
<1>3. s.node \in [Nodes -> Statuses \cup {"blocked"}]
  BY <1>2, GraphFacts DEF GraphInv, Sound, Row
<1>4. v.graph = g /\ v.task = rows /\ v.node = mirror BY DEF View
<1>5. w = IF g \notin ActiveGraph THEN v
          ELSE IF g = "compensating" THEN ReconcileCompensation(s)
          ELSE IF MustFailClosed(rows, late) THEN FailClosed(s)
          ELSE ReconcileProgress(s)
  BY <1>1, <1>4 DEF Reconciled
<1> HIDE DEF v, s
<1>6. CASE g \notin ActiveGraph
  BY <1>4, <1>5, <1>6 DEF NoNewSuccess
<1>7. CASE g = "compensating"
  <2>1. w = ReconcileCompensation(s) BY <1>5, <1>7 DEF ActiveGraph
  <2>2. /\ GraphInv(w.graph, w.task, late) /\ w.task = s.task
        /\ w.graph \in ActiveGraph \cup TerminalGraph /\ w.node = s.node
    BY <1>2, <1>7, <2>1, CompensationInv
  <2> QED BY <1>2, <1>3, <2>2 DEF NoNewSuccess
<1>8. CASE g \in {"active", "cancelling"} /\ MustFailClosed(rows, late)
  <2>1. w = FailClosed(s) BY <1>5, <1>8 DEF ActiveGraph
  <2>2. /\ GraphInv(w.graph, w.task, late) /\ NoNewSuccess(s.task, w.task)
        /\ w.graph \in ActiveGraph \cup TerminalGraph /\ w.node = s.node
    BY <1>2, <1>8, <2>1, FailClosedInv
  <2> QED BY <1>2, <1>3, <2>2
<1>9. CASE g \in {"active", "cancelling"} /\ ~MustFailClosed(rows, late)
  <2>1. w = ReconcileProgress(s) BY <1>5, <1>9 DEF ActiveGraph
  <2>2. /\ GraphInv(w.graph, w.task, late) /\ NoNewSuccess(s.task, w.task)
        /\ w.graph \in ActiveGraph \cup TerminalGraph /\ w.node = s.node
    BY <1>2, <1>9, <2>1, ProgressInv
  <2> QED BY <1>2, <1>3, <2>2
<1> QED BY <1>6, <1>7, <1>8, <1>9 DEF ActiveGraph

-----------------------------------------------------------------------------
(* The steps.                                                              *)

\* What every step but the completion of an open graph's node guarantees.
Frozen == graph \notin {"draft", "active"} => NoNewSuccess(task, task')

Mirrors == [Nodes -> Statuses \cup {"blocked"}]
Holds == [Agents -> Holding \cup {NoHold}]
GraphStatuses == {"draft"} \cup ActiveGraph \cup TerminalGraph

\* A step that only changes rows the invariant allows.
LEMMA RowsInv ==
  ASSUME IInv, NEW rows, task' = rows, GraphInv(graph, rows, overdue),
         graph' = graph, overdue' = overdue, node' = node, hold' \in Holds
  PROVE  IInv'
<1>1. rows \in [Tasks -> Row] BY DEF GraphInv, Sound
<1>2. GraphInv(graph', task', overdue') OBVIOUS
<1>3. GraphInv(graph, task, overdue)' BY <1>2
<1> QED BY <1>1, <1>3 DEF IInv, TypeOK, Holds

\* A request that commits what reconcile_graph made of its view.
LEMMA CommitInv ==
  ASSUME IInv, NEW g \in ActiveGraph \cup TerminalGraph, NEW rows, GraphInv(g, rows, overdue),
         Commit(Reconciled(View(g, rows, node), overdue)), UNCHANGED <<overdue, hold>>
  PROVE  IInv' /\ NoNewSuccess(rows, task')
<1> DEFINE w == Reconciled(View(g, rows, node), overdue)
<1>1. node \in [Nodes -> Statuses \cup {"blocked"}] BY DEF IInv, TypeOK
<1>2. graph' = w.graph /\ task' = w.task /\ node' = w.node /\ overdue' = overdue /\ hold' = hold
  BY DEF Commit
<1> HIDE DEF w
<1>3. w = Reconciled(View(g, rows, node), overdue) BY DEF w
<1>4. /\ GraphInv(w.graph, w.task, overdue) /\ NoNewSuccess(rows, w.task)
      /\ w.graph \in ActiveGraph \cup TerminalGraph
      /\ w.node \in [Nodes -> Statuses \cup {"blocked"}]
  BY <1>1, <1>3, ReconciledInv
<1>5. GraphInv(graph', task', overdue') /\ NoNewSuccess(rows, task') BY <1>2, <1>4
<1>6. w.task \in [Tasks -> Row] BY <1>4 DEF GraphInv, Sound
<1> QED BY <1>2, <1>4, <1>5, <1>6 DEF IInv, TypeOK

\* create_graph
LEMMA InitInv == Init => IInv
<1> SUFFICES ASSUME Init PROVE IInv
  OBVIOUS
<1>1. SoundRow(AbsentRow) /\ AbsentRow.status = "absent" /\ ~Active(AbsentRow)
  BY DEF SoundRow, AbsentRow, Row, Statuses, Approvals, Failures, Waiting, Active, ActiveLease
<1>2. \A t \in Tasks : task[t] = AbsentRow BY DEF Init
<1>3. Sound(task)
  <2>1. AbsentRow \in Row BY <1>1 DEF SoundRow
  <2> QED BY <1>1, <1>2, <2>1 DEF Sound, Init
<1>4. Ordered(task) BY <1>1, <1>2, GraphFacts DEF Ordered
<1>5. \A n \in Compensable : ~Exists(task, UndoOf[n]) BY <1>1, <1>2, GraphFacts DEF Exists
<1>6. GraphInv("draft", task, overdue)
  <2>1. \A n \in Nodes : task[n].status = "absent" BY <1>1, <1>2, GraphFacts
  <2> QED BY <1>3, <1>4, <1>5, <2>1 DEF GraphInv, NodesExist, Asked, Undone
<1>7. TypeOK BY <1>3 DEF Init, TypeOK, Sound
<1> QED BY <1>6, <1>7 DEF IInv, Init

\* activate_graph creates the nodes; no undo task exists yet.
LEMMA ActivateInv ==
  ASSUME IInv, ActivateGraph
  PROVE  IInv'
<1>1. /\ graph = "draft" /\ graph' = "active" /\ overdue' = overdue /\ hold' = hold
      /\ \A n \in Nodes : task'[n] = NewRow(n)
      /\ \A t \in Tasks \ Nodes : task'[t] = task[t]
      /\ node' = [n \in Nodes |-> NewRow(n).status]
  BY GraphFacts DEF ActivateGraph
<1>2. \A n \in Nodes : SoundRow(NewRow(n)) /\ Waiting(NewRow(n)) BY NewRowSound, GraphFacts
<1>3. \A t \in Tasks : SoundRow(task'[t]) BY <1>1, <1>2 DEF IInv, GraphInv, Sound
<1>4. task' \in [Tasks -> Row]
  <2>1. \A t \in Tasks : task'[t] \in Row BY <1>3 DEF SoundRow
  <2> QED BY <2>1 DEF ActivateGraph
<1>5. \A n \in Nodes : Waiting(task'[n]) BY <1>1, <1>2
<1>6. Ordered(task') BY <1>5 DEF Ordered, Waiting, Active, ActiveLease
<1>7. \A n \in Compensable : ~Exists(task', UndoOf[n])
  <2> TAKE n \in Compensable
  <2>1. UndoOf[n] \in Tasks \ Nodes BY GraphFacts
  <2>2. ~Exists(task, UndoOf[n]) BY <1>1 DEF IInv, GraphInv, Undone
  <2> QED BY <1>1, <2>1, <2>2 DEF Exists
<1>8. GraphInv("active", task', overdue')
  BY <1>3, <1>4, <1>5, <1>6, <1>7 DEF GraphInv, Sound, NodesExist, Asked, Undone, Waiting
<1>9. node' \in [Nodes -> Statuses \cup {"blocked"}] BY <1>1, <1>2 DEF SoundRow, Row
<1>10. GraphInv(graph, task, overdue)' BY <1>1, <1>8
<1> QED BY <1>1, <1>4, <1>9, <1>10 DEF IInv, TypeOK, ActiveGraph

\* cancel_graph, from any active status, and its reconciliation.
LEMMA CancelInv ==
  ASSUME IInv, CancelGraph
  PROVE  IInv' /\ NoNewSuccess(task, task')
<1> DEFINE c == CancelNodes(task)
<1>1. graph \in ActiveGraph BY DEF CancelGraph
<1>2. Sound(task) /\ \A n \in Nodes : task[n].status # "absent"
  BY <1>1 DEF IInv, GraphInv, NodesExist, ActiveGraph
<1>3. /\ c \in [Tasks -> Row]
      /\ \A t \in Tasks : RowKept(task[t], c[t])
      /\ \A n \in Nodes : Active(c[n]) => c[n].cancel
  BY <1>2, CancelNodesKept
<1>4. GraphInv(graph, c, overdue) /\ NoNewSuccess(task, c) BY <1>3, KeptInv DEF IInv
<1>5. GraphInv("cancelling", c, overdue)
  BY <1>1, <1>3, <1>4 DEF GraphInv, NodesExist, Asked, Undone, ActiveGraph
<1>6. Commit(Reconciled(View("cancelling", c, node), overdue)) /\ UNCHANGED <<overdue, hold>>
  BY DEF CancelGraph
<1> HIDE DEF c
<1>7. IInv' /\ NoNewSuccess(c, task') BY <1>5, <1>6, CommitInv DEF ActiveGraph
<1> QED BY <1>4, <1>7 DEF NoNewSuccess

\* The reconcile route and the supervisor.
LEMMA ReconcileGraphInv ==
  ASSUME IInv, ReconcileGraph
  PROVE  IInv' /\ NoNewSuccess(task, task')
BY CommitInv DEF ReconcileGraph, IInv

\* Founder decisions and the clock on one row.
LEMMA RowChangeInv ==
  ASSUME IInv, NEW t \in Tasks, RowChange(t)
  PROVE  IInv' /\ NoNewSuccess(task, task')
<1>0. SoundRow(task[t]) /\ task \in [Tasks -> Row] BY DEF IInv, GraphInv, Sound
<1>1. PICK q : RowKept(task[t], q) /\ task' = [task EXCEPT ![t] = q]
  <2>1. CASE Approve(t) \/ Reject(t) \/ Revoke(t)
    BY <1>0, <2>1, DecidedKept DEF Approve, Reject, Revoke
  <2>2. CASE RearmApproval(t) BY <1>0, <2>2, RearmKept DEF RearmApproval
  <2>3. CASE ResumeTask(t) BY <1>0, <2>3, ResumedKept DEF ResumeTask
  <2>4. CASE LeaseLapses(t)
    <3>1. task' = [task EXCEPT ![t] = [task[t] EXCEPT !.live = FALSE]]
      BY <1>0, <2>4 DEF LeaseLapses
    <3> QED BY <1>0, <3>1, TickKept
  <2>5. CASE ApprovalLapses(t)
    <3>1. task' = [task EXCEPT ![t] = [task[t] EXCEPT !.fresh = FALSE]]
      BY <1>0, <2>5 DEF ApprovalLapses
    <3> QED BY <1>0, <3>1, TickKept
  <2> QED BY <2>1, <2>2, <2>3, <2>4, <2>5 DEF RowChange
<1>2. GraphInv(graph, task', overdue) /\ NoNewSuccess(task, task')
  BY <1>1, OneKeptInv DEF IInv
<1>3. graph' = graph /\ overdue' = overdue /\ node' = node /\ hold' = hold BY DEF RowChange
<1> QED BY <1>2, <1>3, RowsInv DEF IInv, TypeOK, Holds

\* What a worker whose token is accepted holds.
LEMMA HeldRow ==
  ASSUME IInv, NEW a \in Agents, NEW allowed \in SUBSET ActiveLease, Verified(a, allowed)
  PROVE  /\ hold[a].task \in Tasks /\ task \in [Tasks -> Row]
         /\ SoundRow(task[hold[a].task]) /\ Active(task[hold[a].task])
<1>1. hold[a].task \in Tasks BY DEF IInv, TypeOK, Holding, Verified
<1>2. Active(task[hold[a].task]) BY DEF Verified, LeaseVerified, Active
<1> QED BY <1>1, <1>2 DEF IInv, GraphInv, Sound

\* The end of a worker call: the row is written, and a node's graph is reconciled.
LEMMA SettleInv ==
  ASSUME IInv, NEW t \in Tasks, NEW q, Settle(t, q), UNCHANGED <<overdue, hold>>,
         t \in Nodes => graph # "draft",
         GraphInv(graph, [task EXCEPT ![t] = q], overdue)
  PROVE  IInv' /\ NoNewSuccess([task EXCEPT ![t] = q], task')
<1> DEFINE rows == [task EXCEPT ![t] = q]
<1>1. CASE t \in Nodes
  <2>1. Commit(Reconciled(View(graph, rows, node), overdue)) BY <1>1 DEF Settle
  <2>2. graph \in ActiveGraph \cup TerminalGraph BY <1>1 DEF IInv, TypeOK
  <2> HIDE DEF rows
  <2>3. GraphInv(graph, rows, overdue) BY DEF rows
  <2>4. IInv' /\ NoNewSuccess(rows, task') BY <2>1, <2>2, <2>3, CommitInv
  <2> QED BY <2>4 DEF rows
<1>2. CASE t \notin Nodes
  <2>1. graph' = graph /\ task' = rows /\ node' = node BY <1>2 DEF Settle, Commit, View
  <2>2. IInv' BY <2>1, RowsInv DEF IInv, TypeOK, Holds
  <2> QED BY <2>1, <2>2 DEF NoNewSuccess
<1> QED BY <1>1, <1>2

\* start_task, heartbeat_task, fail_task and release_task.
LEMMA WorkerCallInv ==
  ASSUME IInv, NEW a \in Agents,
         StartTask(a) \/ HeartbeatTask(a) \/ ReleaseTask(a)
           \/ \E retryable \in BOOLEAN : FailTask(a, retryable)
  PROVE  IInv' /\ NoNewSuccess(task, task')
<1> DEFINE t == hold[a].task
           r == task[t]
<1>1. Verified(a, ActiveLease)
  BY DEF StartTask, HeartbeatTask, ReleaseTask, FailTask, Verified, LeaseVerified, ActiveLease
<1>2. t \in Tasks /\ task \in [Tasks -> Row] /\ SoundRow(r) /\ Active(r)
  BY <1>1, HeldRow
<1>3. CASE StartTask(a) \/ HeartbeatTask(a)
  <2>1. PICK q : RowKept(r, q) /\ task' = [task EXCEPT ![t] = q]
    BY <1>2, <1>3, TickKept DEF StartTask, HeartbeatTask
  <2>2. GraphInv(graph, task', overdue) /\ NoNewSuccess(task, task')
    BY <1>2, <2>1, OneKeptInv DEF IInv
  <2>3. graph' = graph /\ overdue' = overdue /\ node' = node /\ hold' = hold
    BY <1>3 DEF StartTask, HeartbeatTask
  <2> QED BY <2>2, <2>3, RowsInv DEF IInv, TypeOK, Holds
<1>4. t \in Nodes => graph # "draft"
  <2>1. r.status # "absent" BY <1>2 DEF Active, ActiveLease
  <2> QED BY <1>2, <2>1 DEF IInv, GraphInv, NodesExist
<1>5. CASE ReleaseTask(a) \/ \E retryable \in BOOLEAN : FailTask(a, retryable)
  <2>1. PICK q : RowKept(r, q) /\ Settle(t, q) /\ UNCHANGED <<overdue, hold>>
    BY <1>2, <1>5, EndedKept DEF ReleaseTask, FailTask
  <2>2. GraphInv(graph, [task EXCEPT ![t] = q], overdue)
        /\ NoNewSuccess(task, [task EXCEPT ![t] = q])
    BY <1>2, <2>1, OneKeptInv DEF IInv
  <2>3. IInv' /\ NoNewSuccess([task EXCEPT ![t] = q], task')
    BY <1>2, <1>4, <2>1, <2>2, SettleInv
  <2> QED BY <2>2, <2>3 DEF NoNewSuccess
<1> QED BY <1>3, <1>5

\* complete_task: the row succeeds only while its node's graph is still active.
LEMMA CompleteInv ==
  ASSUME IInv, NEW a \in Agents, CompleteTask(a)
  PROVE  IInv' /\ Frozen
<1> DEFINE t == hold[a].task
           r == task[t]
           q == Succeeded(r)
           rows == [task EXCEPT ![t] = q]
<1>1. /\ Verified(a, {"running"}) /\ ~r.cancel /\ (t \in Nodes => graph \in ActiveGraph)
      /\ Settle(t, q) /\ UNCHANGED <<overdue, hold>>
  BY DEF CompleteTask, MessageAccepted
<1>2. t \in Tasks /\ task \in [Tasks -> Row] /\ SoundRow(r) /\ Active(r)
  BY <1>1, HeldRow DEF ActiveLease
<1>3. SoundRow(q) /\ q.status = "succeeded" BY <1>2, SucceededSound
<1>4. t \in Nodes => graph = "active"
  BY <1>1, <1>2 DEF IInv, GraphInv, Asked, ActiveGraph
<1> HIDE DEF q
<1>5. rows[t] = q /\ \A u \in Tasks \ {t} : rows[u] = task[u] BY <1>2
<1>6. rows \in [Tasks -> Row] BY <1>2, <1>3 DEF SoundRow
<1> HIDE DEF rows
<1>7. Sound(rows) BY <1>3, <1>5, <1>6 DEF IInv, GraphInv, Sound
<1>8. \A u \in Tasks : /\ Active(rows[u]) => Active(task[u])
                       /\ task[u].status = "succeeded" => rows[u].status = "succeeded"
                       /\ rows[u].status = "absent" <=> task[u].status = "absent"
  BY <1>2, <1>3, <1>5 DEF Active, ActiveLease
<1>9. Ordered(rows)
  <2> SUFFICES ASSUME NEW n \in Nodes, Active(rows[n]) \/ rows[n].status = "succeeded",
                      NEW d \in Deps[n]
               PROVE  rows[d].status = "succeeded"
    BY DEF Ordered
  <2>1. n \in Tasks /\ d \in Tasks BY GraphFacts
  <2>2. Active(task[n]) \/ task[n].status = "succeeded" BY <1>2, <1>5, <1>8, <2>1
  <2>3. task[d].status = "succeeded" BY <2>2 DEF IInv, GraphInv, Ordered
  <2> QED BY <1>8, <2>1, <2>3
<1>10. NodesExist(graph, rows) BY <1>8, GraphFacts DEF IInv, GraphInv, NodesExist
<1>11. GraphInv(graph, rows, overdue) /\ (graph # "active" => NoNewSuccess(task, rows))
  <2>1. CASE t \in Nodes
    <3>1. graph = "active" BY <1>4, <2>1
    <3>2. \A n \in Compensable : ~Exists(task, UndoOf[n]) BY <3>1 DEF IInv, GraphInv, Undone
    <3>3. \A n \in Compensable : ~Exists(rows, UndoOf[n])
      BY <1>8, <3>2, GraphFacts DEF Exists
    <3>4. Asked(graph, rows) /\ Undone(graph, rows, overdue) BY <3>1, <3>3 DEF Asked, Undone
    <3> QED BY <1>7, <1>9, <1>10, <3>1, <3>4 DEF GraphInv
  <2>2. CASE t \notin Nodes
    <3>1. \A n \in Nodes : rows[n] = task[n] BY <1>5, <2>2, GraphFacts
    <3>2. [n \in Nodes |-> rows[n].attempts] = [n \in Nodes |-> task[n].attempts] BY <3>1
    <3>3. AttemptsUsed(rows) = AttemptsUsed(task) BY <3>2 DEF AttemptsUsed
    <3>4. All(rows, Nodes, {"succeeded"}) <=> All(task, Nodes, {"succeeded"})
      BY <3>1 DEF All
    <3>5. \A n \in Compensable :
            /\ rows[n] = task[n]
            /\ Exists(rows, UndoOf[n]) <=> Exists(task, UndoOf[n])
            /\ task[UndoOf[n]].status = "succeeded" => rows[UndoOf[n]].status = "succeeded"
      BY <1>8, <3>1, GraphFacts DEF Exists
    <3>6. Undone(graph, rows, overdue)
      BY <3>3, <3>4, <3>5 DEF IInv, GraphInv, Undone
    <3>7. Asked(graph, rows) BY <3>1 DEF IInv, GraphInv, Asked
    <3>8. NoNewSuccess(task, rows) BY <3>1 DEF NoNewSuccess
    <3> QED BY <1>7, <1>9, <1>10, <3>4, <3>6, <3>7, <3>8 DEF IInv, GraphInv
  <2> QED BY <2>1, <2>2
<1>12. IInv' /\ NoNewSuccess(rows, task')
  BY <1>1, <1>2, <1>4, <1>11, SettleInv DEF rows
<1> QED BY <1>11, <1>12 DEF Frozen, NoNewSuccess

\* The sweep of a poll over the graph's rows.
LEMMA SweptRows ==
  ASSUME IInv
  PROVE  /\ Swept \in [Tasks -> Row]
         /\ \A t \in Tasks : RowKept(task[t], Swept[t]) /\ RowTame(task[t], Swept[t])
<1>1. \A t \in Tasks : RowKept(task[t], Swept[t]) /\ RowTame(task[t], Swept[t])
  <2> TAKE t \in Tasks
  <2> DEFINE p == IF LeaseExpired(task[t]) THEN Reaped(task[t]) ELSE task[t]
  <2>1. SoundRow(task[t]) BY DEF IInv, GraphInv, Sound
  <2>2. RowKept(task[t], p) /\ RowTame(task[t], p)
    <3>1. CASE LeaseExpired(task[t])
      BY <2>1, <3>1, EndedKept, HeldTame DEF LeaseExpired
    <3>2. CASE ~LeaseExpired(task[t])
      BY <2>1, <3>2, SameKept DEF RowTame
    <3> QED BY <3>1, <3>2
  <2>3. Swept[t] = ExpireApproval(p) BY DEF Swept
  <2> HIDE DEF p
  <2>4. RowKept(p, ExpireApproval(p)) /\ RowTame(p, ExpireApproval(p))
    BY <2>2, ExpireKept, WaitingTame DEF RowKept
  <2>5. RowKept(task[t], Swept[t]) BY <2>2, <2>3, <2>4 DEF RowKept
  <2>6. RowTame(task[t], Swept[t]) BY <2>2, <2>3, <2>4 DEF RowTame
  <2> QED BY <2>5, <2>6
<1>2. Swept \in [Tasks -> Row]
  <2>1. \A t \in Tasks : Swept[t] \in Row BY <1>1 DEF RowKept, SoundRow
  <2> QED BY <2>1 DEF Swept
<1> QED BY <1>1, <1>2

\* A lease of one row, of a node only in an active graph and after all it depends on.
LEMMA LeaseInv ==
  ASSUME NEW g, NEW old, NEW late, GraphInv(g, old, late), NEW t \in Tasks,
         old[t].status \notin {"succeeded", "absent"},
         NEW q, SoundRow(q), q.status = "leased",
         t \in Nodes => g = "active" /\ \A d \in Deps[t] : old[d].status = "succeeded",
         NEW rows, rows = [old EXCEPT ![t] = q]
  PROVE  GraphInv(g, rows, late) /\ NoNewSuccess(old, rows)
<1>1. old \in [Tasks -> Row] BY DEF GraphInv, Sound
<1>2. rows \in [Tasks -> Row] BY <1>1 DEF SoundRow
<1>3. rows[t] = q /\ \A u \in Tasks \ {t} : rows[u] = old[u] BY <1>1
<1>4. Sound(rows) BY <1>2, <1>3 DEF GraphInv, Sound
<1>5. \A u \in Tasks : /\ rows[u].status = "succeeded" <=> old[u].status = "succeeded"
                       /\ rows[u].status = "absent" <=> old[u].status = "absent"
  BY <1>3
<1>6. Ordered(rows)
  <2> SUFFICES ASSUME NEW n \in Nodes, Active(rows[n]) \/ rows[n].status = "succeeded",
                      NEW d \in Deps[n]
               PROVE  rows[d].status = "succeeded"
    BY DEF Ordered
  <2>1. n \in Tasks /\ d \in Tasks BY GraphFacts
  <2>2. old[d].status = "succeeded"
    <3>1. CASE n = t BY <3>1
    <3>2. CASE n # t BY <1>3, <2>1, <3>2 DEF GraphInv, Ordered
    <3> QED BY <3>1, <3>2
  <2> QED BY <1>5, <2>1, <2>2
<1>7. NodesExist(g, rows) BY <1>5, GraphFacts DEF GraphInv, NodesExist
<1>8. Asked(g, rows) BY <1>3, GraphFacts DEF GraphInv, Asked
<1>9. Undone(g, rows, late)
  <2>1. \A n \in Compensable :
          /\ rows[n].status = "succeeded" <=> old[n].status = "succeeded"
          /\ Exists(rows, UndoOf[n]) <=> Exists(old, UndoOf[n])
          /\ old[UndoOf[n]].status = "succeeded" => rows[UndoOf[n]].status = "succeeded"
    BY <1>5, GraphFacts DEF Exists
  <2>2. All(rows, Nodes, {"succeeded"}) =>
          All(old, Nodes, {"succeeded"}) /\ AttemptsUsed(rows) = AttemptsUsed(old)
    <3> SUFFICES ASSUME All(rows, Nodes, {"succeeded"})
                 PROVE  All(old, Nodes, {"succeeded"}) /\ AttemptsUsed(rows) = AttemptsUsed(old)
      OBVIOUS
    <3>1. \A n \in Nodes : rows[n].status = "succeeded" /\ old[n].status = "succeeded"
      BY <1>5, GraphFacts DEF All
    <3>2. \A n \in Nodes : rows[n] = old[n] BY <1>3, <3>1, GraphFacts
    <3>3. [n \in Nodes |-> rows[n].attempts] = [n \in Nodes |-> old[n].attempts] BY <3>2
    <3> QED BY <3>1, <3>3 DEF All, AttemptsUsed
  <2> QED BY <2>1, <2>2 DEF GraphInv, Undone
<1>10. g = "succeeded" => All(rows, Nodes, {"succeeded"})
  BY <1>5, GraphFacts DEF GraphInv, All
<1>11. NoNewSuccess(old, rows) BY <1>5, GraphFacts DEF NoNewSuccess
<1> QED BY <1>4, <1>6, <1>7, <1>8, <1>9, <1>10, <1>11 DEF GraphInv

\* A poll: the sweep, then at most one lease of a task the graph admits.
LEMMA LeaseTaskInv ==
  ASSUME IInv, NEW a \in Agents, LeaseTask(a)
  PROVE  IInv' /\ NoNewSuccess(task, task')
<1>1. GraphInv(graph, Swept, overdue) /\ NoNewSuccess(task, Swept)
  BY SweptRows, KeptInv DEF IInv
<1>2. graph' = graph /\ overdue' = overdue /\ node' = node BY DEF LeaseTask
<1>3. CASE task' = Swept /\ hold' = hold
  BY <1>1, <1>2, <1>3, RowsInv DEF IInv, TypeOK, Holds
<1>4. ASSUME NEW t \in Candidates(Swept, a), NEW k \in FreshTokens,
             task' = [Swept EXCEPT ![t] = Leased(@, a, k)],
             hold' = [hold EXCEPT ![a] = [task |-> t, token |-> k]]
      PROVE  IInv' /\ NoNewSuccess(task, task')
  <2> DEFINE old == Swept
             r == Swept[t]
             q == Leased(r, a, k)
  <2>1. /\ t \in Tasks /\ Leasable(r) /\ GraphAdmits(old, t) /\ k \in Tokens
    BY DEF Candidates, FreshTokens
  <2>2. SoundRow(r) /\ old \in [Tasks -> Row] BY <1>1, <2>1 DEF GraphInv, Sound
  <2>3. SoundRow(q) /\ q.status = "leased" BY <2>1, <2>2, LeasedSound
  <2>4. task' = [old EXCEPT ![t] = q] BY <1>4, <2>1, <2>2
  <2> HIDE DEF q, old
  <2>5. GraphInv(graph, old, overdue) /\ NoNewSuccess(task, old) /\ r = old[t]
    BY <1>1 DEF old
  <2>6. GraphInv(graph, task', overdue) /\ NoNewSuccess(old, task')
    BY <2>1, <2>3, <2>4, <2>5, LeaseInv DEF Leasable, GraphAdmits
  <2>7. [task |-> t, token |-> k] \in Holding BY <2>1 DEF Holding
  <2>8. hold' \in Holds BY <1>4, <2>7 DEF IInv, TypeOK, Holds
  <2> QED BY <1>2, <2>5, <2>6, <2>8, RowsInv DEF NoNewSuccess
<1> QED BY <1>3, <1>4 DEF LeaseTask

\* Every step preserves the inductive invariant, and none makes a node of a closed
\* graph succeed.
LEMMA NextInv ==
  ASSUME IInv, [Next]_vars
  PROVE  IInv' /\ Frozen
<1>1. CASE UNCHANGED vars
  <2>1. /\ graph' = graph /\ task' = task /\ overdue' = overdue /\ node' = node /\ hold' = hold
    BY <1>1 DEF vars
  <2> QED BY <2>1, RowsInv DEF IInv, TypeOK, Holds, Frozen, NoNewSuccess
<1>2. CASE ActivateGraph BY <1>2, ActivateInv DEF ActivateGraph, Frozen
<1>3. CASE DeadlinePasses
  <2>1. /\ graph' = graph /\ task' = task /\ node' = node /\ hold' = hold /\ overdue' = TRUE
    BY <1>3 DEF DeadlinePasses
  <2>2. GraphInv(graph, task, TRUE) BY DEF IInv, GraphInv, Undone
  <2>3. GraphInv(graph, task, overdue)' BY <2>1, <2>2
  <2> QED BY <2>1, <2>3 DEF IInv, TypeOK, Frozen, NoNewSuccess
<1>4. ASSUME NEW a \in Agents, Forget(a) PROVE IInv' /\ Frozen
  <2>1. /\ graph' = graph /\ task' = task /\ node' = node /\ overdue' = overdue
    BY <1>4 DEF Forget
  <2>2. hold' \in Holds BY <1>4 DEF Forget, IInv, TypeOK, Holds
  <2> QED BY <2>1, <2>2, RowsInv DEF IInv, Frozen, NoNewSuccess
<1> QED BY <1>1, <1>2, <1>3, <1>4, CancelInv, ReconcileGraphInv, RowChangeInv, LeaseTaskInv,
      WorkerCallInv, CompleteInv DEF Next, Frozen

-----------------------------------------------------------------------------
(* Tokens, deadlines and requests to stop.                                 *)

\* What every change of a row but a lease does.
RowCalm(r, q) ==
  /\ q.token = r.token \/ q.token = None
  /\ (r.live => Active(r)) => (q.live => Active(q))
  /\ Active(q) => Active(r)
  /\ r.status = "succeeded" => q.status = "succeeded"

Calm(old, rows) == \A t \in Tasks : RowCalm(old[t], rows[t])

\* The same, and nobody is asked to stop.
RowQuiet(r, q) == RowCalm(r, q) /\ q.cancel = r.cancel
Quiet(old, rows) == \A t \in Tasks : RowQuiet(old[t], rows[t])

\* No node has been asked to stop before the graph closes.
Unasked(g, rows) == g \in {"draft", "active"} => \A n \in Nodes : ~rows[n].cancel

\* Every node has ended or has been asked to stop.
Stopped(rows) == \A n \in Nodes : rows[n].status \in TerminalTask \/ rows[n].cancel

\* A request that leases nothing: the rows stay calm, nobody is asked to stop in an open
\* graph, and a graph that stops being active has stopped its nodes in the same transaction.
Orderly ==
  /\ Calm(task, task')
  /\ Unasked(graph, task) => Unasked(graph', task')
  /\ (graph = "active" /\ graph' # "active") => Stopped(task')

LEMMA CalmTrans ==
  ASSUME NEW p, NEW q, NEW r, Calm(p, q), Calm(q, r)
  PROVE  Calm(p, r)
BY DEF Calm, RowCalm

LEMMA TameQuiet ==
  ASSUME NEW r, NEW q, RowKept(r, q), RowTame(r, q)
  PROVE  RowQuiet(r, q)
BY DEF RowKept, RowTame, RowCalm, RowQuiet

\* One row is rewritten.
LEMMA OneQuiet ==
  ASSUME NEW old \in [Tasks -> Row], NEW t \in Tasks, NEW q, RowQuiet(old[t], q),
         NEW rows, rows = [old EXCEPT ![t] = q]
  PROVE  Quiet(old, rows)
<1>1. \A u \in Tasks : rows[u] = old[u] \/ (u = t /\ rows[u] = q) OBVIOUS
<1>2. \A u \in Tasks : RowQuiet(old[u], old[u]) BY DEF RowQuiet, RowCalm
<1> QED BY <1>1, <1>2 DEF Quiet

LEMMA QuietCalm ==
  ASSUME NEW old, NEW rows, Quiet(old, rows)
  PROVE  Calm(old, rows) /\ \A g : Unasked(g, old) => Unasked(g, rows)
BY GraphFacts DEF Quiet, RowQuiet, Calm, Unasked

\* _create_compensations writes only rows that did not exist.
LEMMA MaterializedCases ==
  ASSUME NEW rows
  PROVE  /\ \A n \in Nodes : Materialized(rows)[n] = rows[n]
         /\ \A t \in Tasks \ Nodes :
              \/ Materialized(rows)[t] = rows[t]
              \/ rows[t].status = "absent" /\ Materialized(rows)[t] = NewRow(t)
<1>1. \A t \in Tasks : Materialized(rows)[t] = IF t \in ToUndo(rows) THEN NewRow(t) ELSE rows[t]
  BY DEF Materialized
<1>2. \A t \in ToUndo(rows) : t \notin Nodes /\ rows[t].status = "absent"
  BY GraphFacts DEF ToUndo
<1> QED BY <1>1, <1>2, GraphFacts

\* What reconcile_graph does to the rows, and when a graph stays or stops being active.
LEMMA ReconciledRows ==
  ASSUME NEW g, NEW rows \in [Tasks -> Row], NEW mirror, NEW late,
         NEW w, w = Reconciled(View(g, rows, mirror), late)
  PROVE  /\ \A n \in Nodes : w.task[n] = rows[n] \/ w.task[n] = CancelRow(rows[n])
         /\ \A t \in Tasks \ Nodes :
              w.task[t] = rows[t] \/ (rows[t].status = "absent" /\ w.task[t] = NewRow(t))
         /\ w.graph \in {"draft", "active"} => w.graph = g /\ w.task = rows
         /\ g = "active" => w.graph = "active" \/ Stopped(w.task)
<1> DEFINE v == View(g, rows, mirror)
           s == View(g, rows, [n \in Nodes |-> rows[n].status])
           c == CancelNodes(rows)
<1>1. [v EXCEPT !.node = [n \in Nodes |-> v.task[n].status]] = s BY DEF View
<1>2. s.graph = g /\ s.task = rows BY DEF View
<1>3. v.graph = g /\ v.task = rows BY DEF View
<1>4. w = IF g \notin ActiveGraph THEN v
          ELSE IF g = "compensating" THEN ReconcileCompensation(s)
          ELSE IF MustFailClosed(rows, late) THEN FailClosed(s)
          ELSE ReconcileProgress(s)
  BY <1>1, <1>3 DEF Reconciled
<1>5. CASE g \notin ActiveGraph
  <2>1. w = v BY <1>4, <1>5
  <2>2. w.graph = g /\ w.task = rows /\ g # "active" BY <1>3, <1>5, <2>1 DEF ActiveGraph
  <2> QED BY <2>2
<1>6. CASE g = "compensating"
  <2>1. w = ReconcileCompensation(s) BY <1>4, <1>6 DEF ActiveGraph
  <2>2. s = View(s.graph, s.task, s.node) BY DEF View
  <2> HIDE DEF s
  <2>3. w.task = rows /\ w.graph \notin {"draft", "active"}
    BY <1>2, <1>6, <2>1, <2>2 DEF ReconcileCompensation, View
  <2> QED BY <1>6, <2>3
<1>7. CASE g \in {"active", "cancelling"} /\ MustFailClosed(rows, late)
  <2>1. w = FailClosed(s) BY <1>4, <1>7 DEF ActiveGraph
  <2>2. w.task = Materialized(c) /\ w.graph \notin {"draft", "active"}
    BY <2>1 DEF FailClosed, View
  <2>3. /\ \A n \in Nodes : c[n] = CancelRow(rows[n])
        /\ \A t \in Tasks \ Nodes : c[t] = rows[t]
    BY GraphFacts DEF CancelNodes
  <2> HIDE DEF c
  <2>4. /\ \A n \in Nodes : w.task[n] = CancelRow(rows[n])
        /\ \A t \in Tasks \ Nodes :
             w.task[t] = rows[t] \/ (rows[t].status = "absent" /\ w.task[t] = NewRow(t))
    BY <2>2, <2>3, MaterializedCases
  <2>5. Stopped(w.task) BY <2>4, CancelTame, GraphFacts DEF Stopped
  <2> QED BY <2>2, <2>4, <2>5
<1>8. CASE g \in {"active", "cancelling"} /\ ~MustFailClosed(rows, late)
  <2>1. w = ReconcileProgress(s) BY <1>4, <1>8 DEF ActiveGraph
  <2>2. CASE All(rows, Nodes, TerminalTask)
    <3>1. /\ w.task = rows \/ w.task = Materialized(rows)
          /\ w.graph \notin {"draft", "active"}
      BY <1>8, <2>1, <2>2 DEF ReconcileProgress, View
    <3>2. /\ \A n \in Nodes : w.task[n] = rows[n]
          /\ \A t \in Tasks \ Nodes :
               w.task[t] = rows[t] \/ (rows[t].status = "absent" /\ w.task[t] = NewRow(t))
      BY <3>1, MaterializedCases
    <3>3. Stopped(w.task) BY <2>2, <3>2 DEF Stopped, All
    <3> QED BY <3>1, <3>2, <3>3
  <2>3. CASE ~All(rows, Nodes, TerminalTask)
    <3>1. ~All(rows, Nodes, {"succeeded"}) BY <2>3 DEF All, TerminalTask
    <3>2. w = s BY <1>2, <2>1, <2>3, <3>1 DEF ReconcileProgress
    <3>3. w.graph = g /\ w.task = rows BY <1>2, <3>2
    <3> QED BY <3>3
  <2> QED BY <2>2, <2>3
<1> QED BY <1>5, <1>6, <1>7, <1>8 DEF ActiveGraph

\* A request that commits what reconcile_graph made of its view.
LEMMA CommitOrderly ==
  ASSUME NEW g, NEW rows \in [Tasks -> Row],
         Commit(Reconciled(View(g, rows, node), overdue))
  PROVE  /\ Calm(rows, task')
         /\ graph' \in {"draft", "active"} => graph' = g /\ task' = rows
         /\ (g = "active" /\ graph' # "active") => Stopped(task')
<1> DEFINE w == Reconciled(View(g, rows, node), overdue)
<1>1. graph' = w.graph /\ task' = w.task BY DEF Commit
<1> HIDE DEF w
<1>2. w = Reconciled(View(g, rows, node), overdue) BY DEF w
<1>3. /\ \A n \in Nodes : w.task[n] = rows[n] \/ w.task[n] = CancelRow(rows[n])
      /\ \A t \in Tasks \ Nodes :
           w.task[t] = rows[t] \/ (rows[t].status = "absent" /\ w.task[t] = NewRow(t))
      /\ w.graph \in {"draft", "active"} => w.graph = g /\ w.task = rows
      /\ g = "active" => w.graph = "active" \/ Stopped(w.task)
  BY <1>2, ReconciledRows
<1>4. Calm(rows, w.task)
  <2> SUFFICES ASSUME NEW t \in Tasks PROVE RowCalm(rows[t], w.task[t])
    BY DEF Calm
  <2>1. CASE w.task[t] = rows[t] BY <2>1 DEF RowCalm
  <2>2. CASE w.task[t] = CancelRow(rows[t]) BY <2>2, CancelTame DEF RowCalm
  <2>3. CASE rows[t].status = "absent" /\ w.task[t] = NewRow(t)
    <3>1. NewRow(t).token = None /\ NewRow(t).live = FALSE BY CreatedFields DEF NewRow
    <3>2. ~Active(NewRow(t)) BY NewRowSound DEF Waiting, Active, ActiveLease
    <3> QED BY <2>3, <3>1, <3>2 DEF RowCalm
  <2> QED BY <1>3, <2>1, <2>2, <2>3
<1>5. Calm(rows, task') BY <1>1, <1>4
<1>6. g = "active" /\ graph' # "active" => Stopped(task') BY <1>1, <1>3
<1> QED BY <1>1, <1>3, <1>5, <1>6

\* Requests on one row that leave the graph alone.
LEMMA RowOrderly ==
  ASSUME NEW t \in Tasks, NEW q, task \in [Tasks -> Row], RowQuiet(task[t], q),
         task' = [task EXCEPT ![t] = q], graph' = graph
  PROVE  Orderly
<1>1. Quiet(task, task') BY OneQuiet
<1> QED BY <1>1, QuietCalm DEF Orderly

\* complete_task, fail_task and release_task: the row, then reconcile_graph.
LEMMA SettleOrderly ==
  ASSUME NEW t \in Tasks, NEW q \in Row, task \in [Tasks -> Row], RowQuiet(task[t], q),
         Settle(t, q)
  PROVE  Orderly
<1> DEFINE rows == [task EXCEPT ![t] = q]
<1>1. CASE t \notin Nodes
  <2>1. graph' = graph /\ task' = rows BY <1>1 DEF Settle, Commit, View
  <2> QED BY <2>1, RowOrderly
<1>2. CASE t \in Nodes
  <2>1. Commit(Reconciled(View(graph, rows, node), overdue)) BY <1>2 DEF Settle
  <2>2. rows \in [Tasks -> Row] OBVIOUS
  <2> HIDE DEF rows
  <2>3. Quiet(task, rows) BY OneQuiet DEF rows
  <2>4. /\ Calm(rows, task')
        /\ graph' \in {"draft", "active"} => graph' = graph /\ task' = rows
        /\ (graph = "active" /\ graph' # "active") => Stopped(task')
    BY <2>1, <2>2, CommitOrderly
  <2>5. Calm(task, rows) /\ (Unasked(graph, task) => Unasked(graph, rows)) BY <2>3, QuietCalm
  <2>6. Calm(task, task') BY <2>4, <2>5, CalmTrans
  <2>7. Unasked(graph, task) => Unasked(graph', task') BY <2>4, <2>5 DEF Unasked
  <2> QED BY <2>4, <2>6, <2>7 DEF Orderly
<1> QED BY <1>1, <1>2

\* cancel_graph: every node has ended or is asked to stop.
LEMMA CancelOrderly ==
  ASSUME IInv, CancelGraph
  PROVE  Orderly
<1> DEFINE c == CancelNodes(task)
<1>1. /\ graph \in ActiveGraph
      /\ Commit(Reconciled(View("cancelling", c, node), overdue))
  BY DEF CancelGraph
<1>2. task \in [Tasks -> Row] /\ Sound(task) /\ \A n \in Nodes : task[n].status # "absent"
  BY <1>1 DEF IInv, TypeOK, GraphInv, NodesExist, ActiveGraph
<1>3. c \in [Tasks -> Row] BY <1>2, CancelNodesKept
<1>4. /\ \A n \in Nodes : c[n] = CancelRow(task[n])
      /\ \A t \in Tasks \ Nodes : c[t] = task[t]
  BY GraphFacts DEF CancelNodes
<1> HIDE DEF c
<1>5. Calm(task, c) BY <1>2, <1>4, CancelTame DEF Calm, RowCalm
<1>6. /\ Calm(c, task')
      /\ graph' \notin {"draft", "active"}
  BY <1>1, <1>3, CommitOrderly
<1>7. Calm(task, task') BY <1>5, <1>6, CalmTrans
<1>8. Stopped(task')
  <2> DEFINE w == Reconciled(View("cancelling", c, node), overdue)
  <2>1. task' = w.task BY <1>1 DEF Commit
  <2> HIDE DEF w
  <2>2. w = Reconciled(View("cancelling", c, node), overdue) BY DEF w
  <2>3. \A n \in Nodes : w.task[n] = c[n] \/ w.task[n] = CancelRow(c[n])
    BY <1>3, <2>2, ReconciledRows
  <2>4. \A n \in Nodes : c[n] \in Row /\ task[n] \in Row BY <1>2, <1>3, GraphFacts
  <2> QED BY <1>4, <2>1, <2>3, <2>4, CancelTame DEF Stopped
<1> QED BY <1>6, <1>7, <1>8 DEF Orderly, Unasked

\* activate_graph
LEMMA ActivateOrderly ==
  ASSUME IInv, ActivateGraph
  PROVE  Orderly
<1>1. /\ graph = "draft" /\ graph' = "active"
      /\ \A n \in Nodes : task'[n] = NewRow(n) /\ task[n].status = "absent"
      /\ \A t \in Tasks \ Nodes : task'[t] = task[t]
  BY GraphFacts DEF ActivateGraph, IInv, GraphInv, NodesExist
<1>2. \A n \in Nodes : NewRow(n).token = None /\ NewRow(n).live = FALSE /\ NewRow(n).cancel = FALSE
  BY CreatedFields DEF NewRow
<1>3. \A n \in Nodes : ~Active(NewRow(n))
  BY NewRowSound, GraphFacts DEF Waiting, Active, ActiveLease
<1>4. Calm(task, task') BY <1>1, <1>2, <1>3 DEF Calm, RowCalm
<1>5. Unasked(graph', task') BY <1>1, <1>2 DEF Unasked
<1> QED BY <1>1, <1>4, <1>5 DEF Orderly

\* Founder decisions and the clock on one row.
LEMMA RowChangeOrderly ==
  ASSUME IInv, NEW t \in Tasks, RowChange(t)
  PROVE  Orderly
<1>0. SoundRow(task[t]) /\ task \in [Tasks -> Row] BY DEF IInv, GraphInv, Sound
<1>1. PICK q : RowKept(task[t], q) /\ RowTame(task[t], q) /\ task' = [task EXCEPT ![t] = q]
  <2>1. CASE Approve(t) \/ Reject(t) \/ Revoke(t)
    BY <1>0, <2>1, DecidedKept, WaitingTame DEF Approve, Reject, Revoke
  <2>2. CASE RearmApproval(t) BY <1>0, <2>2, RearmKept, WaitingTame DEF RearmApproval
  <2>3. CASE ResumeTask(t) BY <1>0, <2>3, ResumedKept, HeldTame DEF ResumeTask
  <2>4. CASE LeaseLapses(t)
    <3>1. task' = [task EXCEPT ![t] = [task[t] EXCEPT !.live = FALSE]]
      BY <1>0, <2>4 DEF LeaseLapses
    <3> QED BY <1>0, <3>1, TickKept, WaitingTame
  <2>5. CASE ApprovalLapses(t)
    <3>1. task' = [task EXCEPT ![t] = [task[t] EXCEPT !.fresh = FALSE]]
      BY <1>0, <2>5 DEF ApprovalLapses
    <3> QED BY <1>0, <3>1, TickKept, WaitingTame
  <2> QED BY <2>1, <2>2, <2>3, <2>4, <2>5 DEF RowChange
<1>2. RowQuiet(task[t], q) BY <1>1, TameQuiet
<1>3. graph' = graph BY DEF RowChange
<1> QED BY <1>0, <1>1, <1>2, <1>3, RowOrderly

\* The calls of a worker that holds a row.
LEMMA WorkerOrderly ==
  ASSUME IInv, NEW a \in Agents,
         StartTask(a) \/ HeartbeatTask(a) \/ ReleaseTask(a) \/ CompleteTask(a)
           \/ \E retryable \in BOOLEAN : FailTask(a, retryable)
  PROVE  Orderly
<1> DEFINE t == hold[a].task
           r == task[t]
<1>1. Verified(a, ActiveLease)
  BY DEF StartTask, HeartbeatTask, ReleaseTask, CompleteTask, FailTask, Verified, LeaseVerified,
    ActiveLease
<1>2. t \in Tasks /\ task \in [Tasks -> Row] /\ SoundRow(r) /\ Active(r)
  BY <1>1, HeldRow
<1>3. CASE StartTask(a) \/ HeartbeatTask(a)
  <2>1. PICK q : RowKept(r, q) /\ RowTame(r, q) /\ task' = [task EXCEPT ![t] = q]
    BY <1>2, <1>3, TickKept, HeldTame DEF StartTask, HeartbeatTask
  <2>2. RowQuiet(r, q) BY <2>1, TameQuiet
  <2>3. graph' = graph BY <1>3 DEF StartTask, HeartbeatTask
  <2> QED BY <1>2, <2>1, <2>2, <2>3, RowOrderly
<1>4. CASE ReleaseTask(a) \/ \E retryable \in BOOLEAN : FailTask(a, retryable)
  <2>1. PICK q : RowKept(r, q) /\ RowTame(r, q) /\ Settle(t, q)
    BY <1>2, <1>4, EndedKept, HeldTame DEF ReleaseTask, FailTask
  <2>2. RowQuiet(r, q) /\ q \in Row BY <2>1, TameQuiet DEF RowKept, SoundRow
  <2> QED BY <1>2, <2>1, <2>2, SettleOrderly
<1>5. CASE CompleteTask(a)
  <2> DEFINE q == Succeeded(r)
  <2>1. Settle(t, q) BY <1>5 DEF CompleteTask
  <2>2. SoundRow(q) /\ q.status = "succeeded" /\ RowTame(r, q)
    BY <1>2, SucceededSound, HeldTame
  <2> HIDE DEF q
  <2>3. RowQuiet(r, q) /\ q \in Row
    BY <2>2 DEF RowTame, RowQuiet, RowCalm, SoundRow, Active, ActiveLease
  <2> QED BY <1>2, <2>1, <2>3, SettleOrderly
<1> QED BY <1>3, <1>4, <1>5

\* The requests that lease nothing.
Plain ==
  \/ ActivateGraph \/ CancelGraph \/ ReconcileGraph \/ DeadlinePasses
  \/ \E t \in Tasks : RowChange(t)
  \/ \E a \in Agents :
       \/ StartTask(a) \/ HeartbeatTask(a) \/ CompleteTask(a) \/ ReleaseTask(a) \/ Forget(a)
       \/ \E retryable \in BOOLEAN : FailTask(a, retryable)

LEMMA PlainOrderly ==
  ASSUME IInv, Plain
  PROVE  Orderly
<1>1. CASE graph' = graph /\ task' = task
  BY <1>1 DEF Orderly, Calm, RowCalm
<1>2. DeadlinePasses \/ (\E a \in Agents : Forget(a)) => graph' = graph /\ task' = task
  BY DEF DeadlinePasses, Forget
<1>3. CASE ReconcileGraph
  <2>1. Commit(Reconciled(View(graph, task, node), overdue)) BY <1>3 DEF ReconcileGraph
  <2>2. task \in [Tasks -> Row] BY DEF IInv, TypeOK
  <2> QED BY <2>1, <2>2, CommitOrderly DEF Orderly, Unasked
<1> QED BY <1>1, <1>2, <1>3, ActivateOrderly, CancelOrderly, RowChangeOrderly, WorkerOrderly
      DEF Plain

-----------------------------------------------------------------------------
(* Lease transactions beside other requests (LeaseRace).                   *)

\* Only a row that is held has a lease that has not run out.
LiveHeld(rows) == \A t \in Tasks : rows[t].live => Active(rows[t])

\* An open lease transaction against the committed rows: what it will write over each row
\* is a sweep, but for the pick, which it leases once more; the pick is not held by a live
\* lease, and a picked node's graph is still active and its dependencies have succeeded.
TxnFits(x, rows, g) ==
  /\ x.pick \in DOMAIN x.rows /\ DOMAIN x.rows \subseteq x.locked /\ x.locked \subseteq Tasks
  /\ \A u \in DOMAIN x.rows \ {x.pick} :
       RowKept(rows[u], x.rows[u]) /\ RowTame(rows[u], x.rows[u])
  /\ SoundRow(x.rows[x.pick]) /\ x.rows[x.pick].status = "leased"
  /\ x.rows[x.pick].token \in Tokens
  /\ x.rows[x.pick].attempts = rows[x.pick].attempts + 1
  /\ x.rows[x.pick].cancel = rows[x.pick].cancel
  /\ rows[x.pick].status \in {"queued"} \cup ActiveLease /\ ~rows[x.pick].live
  /\ x.pick \in Nodes =>
       g = "active" /\ \A d \in Deps[x.pick] : rows[d].status = "succeeded"

\* The inductive invariant of the race.
LeaseRaceInv ==
  /\ IInv /\ LiveHeld(task) /\ Unasked(graph, task)
  /\ txn = [a \in Agents |-> txn[a]]
  /\ \A a \in Agents : txn[a] = Closed \/ TxnFits(txn[a], task, graph)
  /\ \A a, b \in Agents : a # b => txn[a].locked \cap txn[b].locked = {}

\* What a step may do to a row: only a commit writes a new token, over no live lease and
\* for one attempt.
RowLease(r, q) ==
  (q.token # None /\ q.token # r.token) => ~r.live /\ q.attempts = r.attempts + 1

LeasesPaid == \A t \in Tasks : RowLease(task[t], task'[t])

LEMMA CalmKeeps ==
  ASSUME NEW old, NEW rows, Calm(old, rows)
  PROVE  /\ LiveHeld(old) => LiveHeld(rows)
         /\ \A t \in Tasks : RowLease(old[t], rows[t])
         /\ \A t \in Tasks : old[t].status = "succeeded" => rows[t].status = "succeeded"
BY DEF Calm, RowCalm, LiveHeld, RowLease

\* A transaction outlives what leaves its rows alone.
LEMMA TxnStable ==
  ASSUME NEW x, NEW old, NEW rows, NEW g, NEW h, TxnFits(x, old, g),
         \A t \in x.locked : rows[t] = old[t],
         \A t \in Tasks : old[t].status = "succeeded" => rows[t].status = "succeeded",
         (x.pick \in Nodes /\ g = "active") => h = "active"
  PROVE  TxnFits(x, rows, h)
<1>1. x.pick \in x.locked /\ \A u \in DOMAIN x.rows : u \in x.locked BY DEF TxnFits
<1>2. rows[x.pick] = old[x.pick] BY <1>1
<1>3. \A u \in DOMAIN x.rows \ {x.pick} :
        RowKept(rows[u], x.rows[u]) /\ RowTame(rows[u], x.rows[u])
  BY <1>1 DEF TxnFits
<1>4. x.pick \in Nodes =>
        h = "active" /\ \A d \in Deps[x.pick] : rows[d].status = "succeeded"
  BY GraphFacts DEF TxnFits
<1> QED BY <1>2, <1>3, <1>4 DEF TxnFits

\* The sweep of a poll passes over locked rows.
LEMMA SweptUnlockedRows ==
  ASSUME IInv
  PROVE  /\ SweptUnlocked \in [Tasks -> Row]
         /\ \A t \in Tasks : /\ RowKept(task[t], SweptUnlocked[t])
                             /\ RowTame(task[t], SweptUnlocked[t])
                             /\ t \in Locked => SweptUnlocked[t] = task[t]
                             /\ t \notin Locked => SweptUnlocked[t] = Swept[t]
<1>1. \A t \in Tasks : SweptUnlocked[t] = IF t \in Locked THEN task[t] ELSE Swept[t]
  BY DEF SweptUnlocked
<1>2. \A t \in Tasks : RowKept(task[t], task[t]) /\ RowTame(task[t], task[t])
  BY SameKept DEF IInv, GraphInv, Sound, RowTame
<1>3. \A t \in Tasks : RowKept(task[t], SweptUnlocked[t]) /\ RowTame(task[t], SweptUnlocked[t])
  BY <1>1, <1>2, SweptRows
<1>4. \A t \in Tasks : SweptUnlocked[t] \in Row BY <1>3 DEF RowKept, SoundRow
<1>5. SweptUnlocked \in [Tasks -> Row] BY <1>4 DEF SweptUnlocked
<1> QED BY <1>1, <1>3, <1>5

\* The transactions stay as they were, and so do the rows they have locked.
LEMMA OthersStable ==
  ASSUME LeaseRaceInv, IInv', txn' = txn, Calm(task, task'), Unasked(graph', task'),
         \A t \in Locked : task'[t] = task[t],
         \A a \in Agents : (txn[a] # Closed /\ txn[a].pick \in Nodes /\ graph = "active")
                             => graph' = "active"
  PROVE  LeaseRaceInv' /\ LeasesPaid
<1>1. LiveHeld(task') /\ LeasesPaid
      /\ \A t \in Tasks : task[t].status = "succeeded" => task'[t].status = "succeeded"
  BY CalmKeeps DEF LeaseRaceInv, LeasesPaid
<1>2. ASSUME NEW a \in Agents, txn[a] # Closed
      PROVE  TxnFits(txn[a], task', graph')
  <2>1. TxnFits(txn[a], task, graph) BY <1>2 DEF LeaseRaceInv
  <2>2. \A t \in txn[a].locked : task'[t] = task[t] BY DEF Locked
  <2> QED BY <1>1, <1>2, <2>1, <2>2, TxnStable
<1>3. \A a \in Agents : txn'[a] = Closed \/ TxnFits(txn'[a], task', graph') BY <1>2
<1>4. \A a, b \in Agents : a # b => txn'[a].locked \cap txn'[b].locked = {}
  BY DEF LeaseRaceInv
<1>5. txn' = [a \in Agents |-> txn'[a]] BY DEF LeaseRaceInv
<1>6. Unasked(graph, task)' BY DEF Unasked
<1>7. LiveHeld(task)' BY <1>1 DEF LiveHeld, Tasks
<1>8. (\A a \in Agents : txn[a] = Closed \/ TxnFits(txn[a], task, graph))' BY <1>3
<1> QED BY <1>1, <1>4, <1>5, <1>6, <1>7, <1>8 DEF LeaseRaceInv

\* A request of somebody else commits.
LEMMA OtherRequestHolds ==
  ASSUME LeaseRaceInv, OtherRequest
  PROVE  LeaseRaceInv' /\ LeasesPaid /\ Frozen
<1>1. IInv /\ Plain /\ Next BY DEF LeaseRaceInv, OtherRequest, Plain, Next
<1>2. IInv' /\ Frozen BY <1>1, NextInv
<1>3. Orderly BY <1>1, PlainOrderly
<1>4. /\ txn' = txn /\ \A t \in Locked : task'[t] = task[t] BY DEF OtherRequest
<1>5. ASSUME NEW a \in Agents, txn[a] # Closed, txn[a].pick \in Nodes, graph = "active"
      PROVE  graph' = "active"
  <2> DEFINE n == txn[a].pick
  <2>1. TxnFits(txn[a], task, graph) BY <1>5 DEF LeaseRaceInv
  <2>2. n \in Locked BY <2>1 DEF TxnFits, Locked
  <2>3. task'[n] = task[n] BY <1>4, <2>2
  <2>4. task[n].status \notin TerminalTask BY <2>1 DEF TxnFits, ActiveLease, TerminalTask
  <2>5. ~task[n].cancel BY <1>5 DEF LeaseRaceInv, Unasked
  <2> QED BY <1>3, <1>5, <2>3, <2>4, <2>5 DEF Orderly, Stopped
<1>6. LeaseRaceInv' /\ LeasesPaid
  BY <1>2, <1>3, <1>4, <1>5, OthersStable DEF Orderly, LeaseRaceInv
<1> QED BY <1>2, <1>6

\* A poll that finds nothing.
LEMMA EmptyPollHolds ==
  ASSUME LeaseRaceInv, NEW a \in Agents, EmptyPoll(a)
  PROVE  LeaseRaceInv' /\ LeasesPaid /\ Frozen
<1>1. /\ task' = SweptUnlocked /\ txn' = txn
      /\ graph' = graph /\ overdue' = overdue /\ node' = node /\ hold' = hold
  BY DEF EmptyPoll
<1>2. /\ task' \in [Tasks -> Row]
      /\ \A t \in Tasks : RowKept(task[t], task'[t]) /\ RowTame(task[t], task'[t])
      /\ \A t \in Tasks : t \in Locked => task'[t] = task[t]
  BY <1>1, SweptUnlockedRows DEF LeaseRaceInv
<1>3. GraphInv(graph, task', overdue) /\ NoNewSuccess(task, task')
  BY <1>2, KeptInv DEF LeaseRaceInv, IInv
<1>4. IInv' BY <1>1, <1>3, RowsInv DEF LeaseRaceInv, IInv, TypeOK, Holds
<1>5. Quiet(task, task') BY <1>2, TameQuiet DEF Quiet
<1>6. Calm(task, task') /\ Unasked(graph', task') BY <1>1, <1>5, QuietCalm DEF LeaseRaceInv
<1>7. \A t \in Locked : task'[t] = task[t]
  <2>1. Locked \subseteq Tasks
    <3> SUFFICES ASSUME NEW b \in Agents PROVE txn[b].locked \subseteq Tasks BY DEF Locked
    <3>1. CASE txn[b] = Closed BY <3>1 DEF Closed
    <3>2. CASE TxnFits(txn[b], task, graph) BY <3>2 DEF TxnFits
    <3> QED BY <3>1, <3>2 DEF LeaseRaceInv
  <2> QED BY <1>2, <2>1
<1>8. LeaseRaceInv' /\ LeasesPaid BY <1>1, <1>4, <1>6, <1>7, OthersStable
<1> QED BY <1>3, <1>8 DEF Frozen

\* A transaction is rolled back.
LEMMA RollbackHolds ==
  ASSUME LeaseRaceInv, NEW a \in Agents, RollbackLease(a)
  PROVE  LeaseRaceInv' /\ LeasesPaid /\ Frozen
<1>1. /\ graph' = graph /\ overdue' = overdue /\ task' = task /\ node' = node /\ hold' = hold
      /\ txn' = [txn EXCEPT ![a] = Closed]
  BY DEF RollbackLease, vars
<1>2. LeasesPaid /\ Frozen BY <1>1 DEF LeasesPaid, RowLease, Frozen, NoNewSuccess
<1>3. IInv' BY <1>1, RowsInv DEF LeaseRaceInv, IInv, TypeOK, Holds
<1>4. /\ txn' = [b \in Agents |-> txn'[b]] /\ txn'[a] = Closed
      /\ \A b \in Agents \ {a} : txn'[b] = txn[b]
  BY <1>1 DEF LeaseRaceInv
<1>5. \A b \in Agents : txn'[b] = Closed \/ TxnFits(txn'[b], task', graph')
  BY <1>1, <1>4 DEF LeaseRaceInv
<1>6. \A b, c \in Agents : b # c => txn'[b].locked \cap txn'[c].locked = {}
  BY <1>4 DEF LeaseRaceInv, Closed
<1>7. LiveHeld(task') /\ Unasked(graph', task') BY <1>1 DEF LeaseRaceInv
<1>8. (\A b \in Agents : txn[b] = Closed \/ TxnFits(txn[b], task, graph))' BY <1>5
<1>9. LiveHeld(task)' /\ Unasked(graph, task)' BY <1>7
<1> QED BY <1>2, <1>3, <1>4, <1>6, <1>8, <1>9 DEF LeaseRaceInv

\* A transaction commits: its sweep first, then its lease.
LEMMA CommitLeaseHolds ==
  ASSUME LeaseRaceInv, NEW a \in Agents, CommitLease(a)
  PROVE  LeaseRaceInv' /\ LeasesPaid /\ Frozen
<1> DEFINE x == txn[a]
           p == x.pick
           q == x.rows[p]
           base == [t \in Tasks |-> IF t \in DOMAIN x.rows \ {p} THEN x.rows[t] ELSE task[t]]
<1>1. /\ x # Closed /\ txn' = [txn EXCEPT ![a] = Closed]
      /\ graph' = graph /\ overdue' = overdue /\ node' = node
      /\ task' = [t \in Tasks |-> IF t \in DOMAIN x.rows THEN x.rows[t] ELSE task[t]]
      /\ hold' = [hold EXCEPT ![a] = [task |-> p, token |-> q.token]]
  BY DEF CommitLease
<1>2. TxnFits(x, task, graph) BY <1>1 DEF LeaseRaceInv
<1>3. p \in DOMAIN x.rows /\ p \in Tasks /\ DOMAIN x.rows \subseteq Tasks
  BY <1>2 DEF TxnFits
<1>4. /\ SoundRow(q) /\ q.status = "leased" /\ q.token \in Tokens
      /\ q.attempts = task[p].attempts + 1 /\ q.cancel = task[p].cancel
      /\ task[p].status \notin {"succeeded", "absent"} /\ ~task[p].live
      /\ p \in Nodes => graph = "active" /\ \A d \in Deps[p] : task[d].status = "succeeded"
  BY <1>2 DEF TxnFits, ActiveLease
<1>5. IInv /\ LiveHeld(task) /\ Unasked(graph, task) /\ task \in [Tasks -> Row]
  BY DEF LeaseRaceInv, IInv, TypeOK
<1>6. \A t \in Tasks : RowKept(task[t], base[t]) /\ RowTame(task[t], base[t])
  <2> TAKE t \in Tasks
  <2>1. CASE t \in DOMAIN x.rows \ {p} BY <1>2, <2>1 DEF TxnFits
  <2>2. CASE t \notin DOMAIN x.rows \ {p}
    <3>1. base[t] = task[t] BY <2>2
    <3>2. SoundRow(task[t]) BY <1>5 DEF IInv, GraphInv, Sound
    <3> QED BY <3>1, <3>2, SameKept DEF RowTame
  <2> QED BY <2>1, <2>2
<1>7. base \in [Tasks -> Row]
  <2>1. \A t \in Tasks : base[t] \in Row BY <1>6 DEF RowKept, SoundRow
  <2> QED BY <2>1
<1>8. base[p] = task[p] BY <1>3
<1>9. /\ task' = [base EXCEPT ![p] = q]
      /\ task'[p] = q /\ \A t \in Tasks \ {p} : task'[t] = base[t]
  BY <1>1, <1>3
<1>10. \A t \in Tasks \ DOMAIN x.rows : task'[t] = task[t] BY <1>1
<1> HIDE DEF x, p, q, base
<1>11. GraphInv(graph, base, overdue) /\ NoNewSuccess(task, base)
  BY <1>5, <1>6, <1>7, KeptInv DEF IInv
<1>12. p \in Nodes => graph = "active" /\ \A d \in Deps[p] : base[d].status = "succeeded"
  BY <1>4, <1>6, GraphFacts DEF RowKept
<1>13. GraphInv(graph, task', overdue) /\ NoNewSuccess(base, task')
  BY <1>3, <1>4, <1>8, <1>9, <1>11, <1>12, LeaseInv
<1>14. IInv'
  <2>1. [task |-> p, token |-> q.token] \in Holding BY <1>3, <1>4 DEF Holding
  <2>2. hold' \in Holds BY <1>1, <1>5, <2>1 DEF IInv, TypeOK, Holds
  <2> QED BY <1>1, <1>5, <1>13, <2>2, RowsInv
<1>15. Frozen BY <1>11, <1>13 DEF Frozen, NoNewSuccess
<1>16. Quiet(task, base) BY <1>6, TameQuiet DEF Quiet
<1>17. /\ Calm(task, base) /\ Unasked(graph, base) BY <1>5, <1>16, QuietCalm
<1>18. /\ LiveHeld(base) /\ \A t \in Tasks : RowLease(task[t], base[t])
       /\ \A t \in Tasks : task[t].status = "succeeded" => base[t].status = "succeeded"
  BY <1>5, <1>17, CalmKeeps
<1>19. LiveHeld(task') BY <1>4, <1>9, <1>18 DEF LiveHeld, Active, ActiveLease
<1>20. Unasked(graph', task')
  <2>1. \A n \in Nodes : task'[n].cancel = base[n].cancel
    BY <1>4, <1>8, <1>9, GraphFacts
  <2> QED BY <1>1, <1>17, <2>1 DEF Unasked
<1>21. LeasesPaid BY <1>4, <1>9, <1>18 DEF LeasesPaid, RowLease
<1>22. \A t \in Tasks : task[t].status = "succeeded" => task'[t].status = "succeeded"
  BY <1>4, <1>9, <1>18
<1>23. /\ txn' = [b \in Agents |-> txn'[b]] /\ txn'[a] = Closed
       /\ \A b \in Agents \ {a} : txn'[b] = txn[b]
  BY <1>1 DEF LeaseRaceInv
<1>24. \A b \in Agents : txn'[b] = Closed \/ TxnFits(txn'[b], task', graph')
  <2> SUFFICES ASSUME NEW b \in Agents \ {a}, txn[b] # Closed
               PROVE  TxnFits(txn[b], task', graph')
    BY <1>23
  <2>1. TxnFits(txn[b], task, graph) BY DEF LeaseRaceInv
  <2>2. txn[b].locked \cap txn[a].locked = {} BY DEF LeaseRaceInv
  <2>3. \A t \in txn[b].locked : t \in Tasks \ DOMAIN x.rows
    BY <1>2, <2>1, <2>2 DEF TxnFits, x
  <2>4. \A t \in txn[b].locked : task'[t] = task[t] BY <1>10, <2>3
  <2> QED BY <1>1, <1>22, <2>1, <2>4, TxnStable
<1>25. \A b, c \in Agents : b # c => txn'[b].locked \cap txn'[c].locked = {}
  BY <1>23 DEF LeaseRaceInv, Closed
<1>26. (\A b \in Agents : txn[b] = Closed \/ TxnFits(txn[b], task, graph))' BY <1>24
<1>27. LiveHeld(task)' /\ Unasked(graph, task)' BY <1>19, <1>20
<1> QED BY <1>14, <1>15, <1>21, <1>23, <1>25, <1>26, <1>27 DEF LeaseRaceInv

\* A transaction opens: the pick is leased once more than what is committed.
LEMMA SelectHolds ==
  ASSUME LeaseRaceInv, NEW a \in Agents, SelectTask(a)
  PROVE  LeaseRaceInv' /\ LeasesPaid /\ Frozen
<1>1. /\ graph' = graph /\ overdue' = overdue /\ task' = task /\ node' = node /\ hold' = hold
  BY DEF SelectTask, vars
<1>2. LeasesPaid /\ Frozen BY <1>1 DEF LeasesPaid, RowLease, Frozen, NoNewSuccess
<1>3. IInv' BY <1>1, RowsInv DEF LeaseRaceInv, IInv, TypeOK, Holds
<1> DEFINE S == SweptUnlocked
           leased(t, k) == [S EXCEPT ![t] = Leased(S[t], a, k)]
           changed(t, k) == {u \in Tasks : leased(t, k)[u] # task[u]}
           open(t, k) == [pick |-> t, locked |-> UnlockedCandidates(a) \cup changed(t, k),
                          rows |-> Restrict(leased(t, k), changed(t, k))]
<1>4. PICK t \in UnlockedCandidates(a), k \in FreshTokens \ Drawn :
        txn' = [txn EXCEPT ![a] = open(t, k)]
  <2>1. /\ S \in [Tasks -> Row] /\ UnlockedCandidates(a) \subseteq Tasks
    BY SweptUnlockedRows DEF LeaseRaceInv, UnlockedCandidates, Candidates
  <2>2. \A t \in Tasks : \A k : [S EXCEPT ![t] = Leased(@, a, k)] = leased(t, k)
    BY <2>1
  <2> QED BY <2>1, <2>2 DEF SelectTask
<1> DEFINE q == Leased(S[t], a, k)
           new == leased(t, k)
           C == changed(t, k)
           x == open(t, k)
<1>5. /\ t \in Tasks /\ t \notin Locked /\ Leasable(S[t]) /\ GraphAdmits(S, t) /\ k \in Tokens
  BY DEF UnlockedCandidates, Candidates, FreshTokens
<1>6. /\ S \in [Tasks -> Row]
      /\ \A u \in Tasks : /\ RowKept(task[u], S[u]) /\ RowTame(task[u], S[u])
                          /\ u \in Locked => S[u] = task[u]
                          /\ u \notin Locked => S[u] = Swept[u]
  BY SweptUnlockedRows DEF LeaseRaceInv
<1>7. /\ ~task[t].live /\ task[t].status \in {"queued"} \cup ActiveLease
      /\ S[t].attempts = task[t].attempts
  <2>1. S[t] = ExpireApproval(IF LeaseExpired(task[t]) THEN Reaped(task[t]) ELSE task[t])
    BY <1>5, <1>6 DEF Swept
  <2>2. task[t] \in Row /\ (task[t].live => Active(task[t]))
    BY <1>5 DEF LeaseRaceInv, IInv, TypeOK, LiveHeld
  <2> HIDE DEF S
  <2> QED BY <1>5, <2>1, <2>2, SweptLeasable
<1>8. SoundRow(S[t]) /\ S[t] \in Row /\ S[t].cancel = task[t].cancel
  BY <1>5, <1>6 DEF RowKept, SoundRow, RowTame
<1>9. /\ SoundRow(q) /\ q.status = "leased" /\ q.token = k
      /\ q.attempts = S[t].attempts + 1 /\ q.cancel = S[t].cancel
  BY <1>5, <1>8, LeasedSound, LeasedFields
<1>10. t \in Nodes => graph = "active" /\ \A d \in Deps[t] : task[d].status = "succeeded"
  BY <1>5, <1>6, GraphFacts DEF GraphAdmits, RowKept
<1>11. task[t].attempts \in Nat BY <1>5 DEF LeaseRaceInv, IInv, TypeOK, Row
<1>12. new[t] = q /\ \A u \in Tasks \ {t} : new[u] = S[u] BY <1>5, <1>6
<1>13. x.pick = t /\ x.locked = UnlockedCandidates(a) \cup C /\ x.rows = [u \in C |-> new[u]]
  BY DEF Restrict
<1>14. C = {u \in Tasks : new[u] # task[u]} OBVIOUS
<1>15. txn' = [txn EXCEPT ![a] = x] BY <1>4
<1> HIDE DEF S, q, new, C, x
<1>16. t \in C BY <1>5, <1>7, <1>9, <1>11, <1>12, <1>14
<1>17. DOMAIN x.rows = C /\ x.rows[t] = q /\ \A u \in C : x.rows[u] = new[u]
  BY <1>12, <1>13, <1>16
<1>18. x.locked \subseteq Tasks /\ x.locked \cap Locked = {} /\ C \subseteq x.locked
  <2>1. UnlockedCandidates(a) \subseteq Tasks /\ UnlockedCandidates(a) \cap Locked = {}
    BY DEF UnlockedCandidates, Candidates
  <2>2. C \cap Locked = {} BY <1>5, <1>6, <1>12, <1>14
  <2> QED BY <1>13, <1>14, <2>1, <2>2
<1>19. \A u \in DOMAIN x.rows \ {t} : RowKept(task[u], x.rows[u]) /\ RowTame(task[u], x.rows[u])
  BY <1>6, <1>12, <1>14, <1>17
<1>20. TxnFits(x, task, graph)
  BY <1>5, <1>7, <1>8, <1>9, <1>10, <1>13, <1>16, <1>17, <1>18, <1>19 DEF TxnFits
<1>21. /\ txn' = [b \in Agents |-> txn'[b]] /\ txn'[a] = x
       /\ \A b \in Agents \ {a} : txn'[b] = txn[b]
  BY <1>15 DEF LeaseRaceInv
<1>22. \A b \in Agents : txn'[b] = Closed \/ TxnFits(txn'[b], task', graph')
  BY <1>1, <1>20, <1>21 DEF LeaseRaceInv
<1>23. \A b, c \in Agents : b # c => txn'[b].locked \cap txn'[c].locked = {}
  <2>1. \A b \in Agents : txn[b].locked \subseteq Locked BY DEF Locked
  <2> QED BY <1>18, <1>21, <2>1 DEF LeaseRaceInv
<1>24. (\A b \in Agents : txn[b] = Closed \/ TxnFits(txn[b], task, graph))' BY <1>22
<1>25. LiveHeld(task)' /\ Unasked(graph, task)' BY <1>1 DEF LeaseRaceInv, LiveHeld, Unasked
<1> QED BY <1>2, <1>3, <1>21, <1>23, <1>24, <1>25 DEF LeaseRaceInv

\* Every step of the race.
LEMMA RaceNextHolds ==
  ASSUME LeaseRaceInv, [RaceNext]_raceVars
  PROVE  LeaseRaceInv' /\ LeasesPaid /\ Frozen
<1>1. CASE UNCHANGED raceVars
  <2>1. /\ graph' = graph /\ overdue' = overdue /\ task' = task /\ node' = node /\ hold' = hold
        /\ txn' = txn
    BY <1>1 DEF raceVars, vars
  <2>2. LeasesPaid /\ Frozen BY <2>1 DEF LeasesPaid, RowLease, Frozen, NoNewSuccess
  <2>3. IInv' BY <2>1, RowsInv DEF LeaseRaceInv, IInv, TypeOK, Holds
  <2>4. Calm(task, task') /\ Unasked(graph', task') BY <2>1 DEF LeaseRaceInv, Calm, RowCalm
  <2> QED BY <2>1, <2>2, <2>3, <2>4, OthersStable
<1> QED BY <1>1, OtherRequestHolds, EmptyPollHolds, RollbackHolds, CommitLeaseHolds, SelectHolds
      DEF RaceNext

-----------------------------------------------------------------------------
(* How far polls that count beside each other exceed the parallelism.      *)

Limit == MaxParallel - 1 + Cardinality(Agents)

\* The nodes that are held once the open transactions of the agents in S have committed.
HeldAfter(rows, open, S) ==
  {n \in Nodes :
     \/ \E a \in S : n \in DOMAIN open[a].rows /\ Active(open[a].rows[n])
     \/ Active(rows[n]) /\ \A a \in S : n \notin DOMAIN open[a].rows}

\* Whichever of the open transactions commit, the limit is kept.
WithinLimit(rows, open) ==
  \A S \in SUBSET Agents : Cardinality(HeldAfter(rows, open, S)) <= Limit

\* A set of nodes inside one that keeps the limit keeps it.
LEMMA LimitSubset ==
  ASSUME NEW H \in SUBSET Nodes, Cardinality(H) <= Limit, NEW G \in SUBSET H
  PROVE  Cardinality(G) <= Limit
<1>1. IsFiniteSet(H) BY GraphAssumption, FS_Subset
<1>2. Cardinality(G) <= Cardinality(H) /\ IsFiniteSet(G) BY <1>1, FS_Subset
<1>3. Cardinality(G) \in Nat /\ Cardinality(H) \in Nat /\ Cardinality(Agents) \in Nat
  BY <1>1, <1>2, AgentsAssumption, FS_CardinalityType
<1> QED BY <1>2, <1>3, GraphAssumption DEF Limit

LEMMA HeldNodes ==
  ASSUME NEW rows, NEW open, NEW S
  PROVE  HeldAfter(rows, open, S) \in SUBSET Nodes
BY DEF HeldAfter

\* Requests that lease nothing hold no node that was not held.
LEMMA CalmLimit ==
  ASSUME WithinLimit(task, txn), NEW rows, \A n \in Nodes : Active(rows[n]) => Active(task[n])
  PROVE  WithinLimit(rows, txn)
<1> SUFFICES ASSUME NEW S \in SUBSET Agents
             PROVE  Cardinality(HeldAfter(rows, txn, S)) <= Limit
  BY DEF WithinLimit
<1>1. HeldAfter(rows, txn, S) \subseteq HeldAfter(task, txn, S) BY DEF HeldAfter
<1> QED BY <1>1, LimitSubset, HeldNodes DEF WithinLimit

\* A rollback leaves the rows to the other transactions.
LEMMA RollbackLimit ==
  ASSUME LeaseRaceInv, WithinLimit(task, txn), NEW a \in Agents, RollbackLease(a)
  PROVE  WithinLimit(task', txn')
<1> SUFFICES ASSUME NEW S \in SUBSET Agents
             PROVE  Cardinality(HeldAfter(task', txn', S)) <= Limit
  BY DEF WithinLimit
<1>1. task' = task /\ txn' = [txn EXCEPT ![a] = Closed] BY DEF RollbackLease, vars
<1>2. txn'[a].rows = <<>> /\ \A b \in S \ {a} : txn'[b] = txn[b]
  BY <1>1 DEF LeaseRaceInv, Closed
<1>3. DOMAIN txn'[a].rows = {} BY <1>2
<1>4. HeldAfter(task', txn', S) \subseteq HeldAfter(task, txn, S \ {a})
  BY <1>1, <1>2, <1>3 DEF HeldAfter
<1> QED BY <1>4, LimitSubset, HeldNodes DEF WithinLimit

\* A commit was foreseen: it is the case in which this transaction commits first.
LEMMA CommitLimit ==
  ASSUME LeaseRaceInv, WithinLimit(task, txn), NEW a \in Agents, CommitLease(a)
  PROVE  WithinLimit(task', txn')
<1> SUFFICES ASSUME NEW S \in SUBSET Agents
             PROVE  Cardinality(HeldAfter(task', txn', S)) <= Limit
  BY DEF WithinLimit
<1> DEFINE new == txn[a].rows
           T == S \cup {a}
<1>1. /\ txn[a] # Closed /\ txn' = [txn EXCEPT ![a] = Closed]
      /\ task' = [t \in Tasks |-> IF t \in DOMAIN new THEN new[t] ELSE task[t]]
  BY DEF CommitLease
<1>2. txn'[a].rows = <<>> /\ \A b \in S \ {a} : txn'[b] = txn[b]
  BY <1>1 DEF LeaseRaceInv, Closed
<1>3. DOMAIN txn'[a].rows = {} BY <1>2
<1>4. \A b \in Agents \ {a} : DOMAIN txn[b].rows \cap DOMAIN new = {}
  <2> TAKE b \in Agents \ {a}
  <2>1. DOMAIN new \subseteq txn[a].locked BY <1>1 DEF LeaseRaceInv, TxnFits
  <2>2. CASE txn[b] = Closed BY <2>2 DEF Closed
  <2>3. CASE TxnFits(txn[b], task, graph) BY <2>1, <2>3 DEF TxnFits, LeaseRaceInv
  <2> QED BY <2>2, <2>3 DEF LeaseRaceInv
<1>5. HeldAfter(task', txn', S) \subseteq HeldAfter(task, txn, T)
  <2> SUFFICES ASSUME NEW n \in HeldAfter(task', txn', S) PROVE n \in HeldAfter(task, txn, T)
    OBVIOUS
  <2>1. n \in Nodes /\ n \in Tasks BY GraphFacts DEF HeldAfter
  <2>2. CASE \E b \in S : n \in DOMAIN txn'[b].rows /\ Active(txn'[b].rows[n])
    BY <1>2, <1>3, <2>1, <2>2 DEF HeldAfter
  <2>3. CASE Active(task'[n]) /\ \A b \in S : n \notin DOMAIN txn'[b].rows
    <3>1. CASE n \in DOMAIN new
      <4>1. task'[n] = new[n] BY <1>1, <2>1, <3>1
      <4> QED BY <2>1, <2>3, <3>1, <4>1 DEF HeldAfter
    <3>2. CASE n \notin DOMAIN new
      <4>1. task'[n] = task[n] BY <1>1, <2>1, <3>2
      <4>2. \A b \in T : n \notin DOMAIN txn[b].rows BY <1>2, <2>3, <3>2
      <4> QED BY <2>1, <2>3, <4>1, <4>2 DEF HeldAfter
    <3> QED BY <3>1, <3>2
  <2> QED BY <2>2, <2>3 DEF HeldAfter
<1>6. T \in SUBSET Agents OBVIOUS
<1> QED BY <1>5, <1>6, LimitSubset, HeldNodes DEF WithinLimit

\* What SELECT ... FOR UPDATE SKIP LOCKED leaves in the transaction.
LEMMA Selected ==
  ASSUME LeaseRaceInv, NEW a \in Agents, SelectTask(a)
  PROVE  \E t \in Tasks :
           /\ GraphAdmits(SweptUnlocked, t) /\ txn'[a].pick = t
           /\ txn[a] = Closed /\ \A b \in Agents \ {a} : txn'[b] = txn[b]
           /\ \A u \in DOMAIN txn'[a].rows :
                u \notin Locked /\ (u # t => txn'[a].rows[u] = SweptUnlocked[u])
           /\ \A u \in Tasks \ {t} :
                u \notin DOMAIN txn'[a].rows => SweptUnlocked[u] = task[u]
<1> DEFINE R == SweptUnlocked
           leased(t, k) == [R EXCEPT ![t] = Leased(@, a, k)]
           changed(t, k) == {u \in Tasks : leased(t, k)[u] # task[u]}
           open(t, k) == [pick |-> t, locked |-> UnlockedCandidates(a) \cup changed(t, k),
                          rows |-> Restrict(leased(t, k), changed(t, k))]
<1>1. PICK t \in UnlockedCandidates(a), k \in FreshTokens \ Drawn :
        txn' = [txn EXCEPT ![a] = open(t, k)]
  BY DEF SelectTask
<1> DEFINE new == leased(t, k)
           C == changed(t, k)
<1>2. t \in Tasks /\ t \notin Locked /\ GraphAdmits(R, t)
  BY DEF UnlockedCandidates, Candidates
<1>3. /\ R \in [Tasks -> Row]
      /\ \A u \in Tasks : u \in Locked => R[u] = task[u]
  BY SweptUnlockedRows DEF LeaseRaceInv
<1>4. \A u \in Tasks \ {t} : new[u] = R[u] BY <1>2, <1>3
<1>5. C = {u \in Tasks : new[u] # task[u]} OBVIOUS
<1>6. txn'[a].pick = t /\ txn'[a].rows = [u \in C |-> new[u]]
  BY <1>1 DEF Restrict, LeaseRaceInv
<1>7. txn[a] = Closed /\ \A b \in Agents \ {a} : txn'[b] = txn[b]
  BY <1>1 DEF SelectTask, LeaseRaceInv
<1> HIDE DEF R, new, C
<1>8. DOMAIN txn'[a].rows = C /\ \A u \in C : txn'[a].rows[u] = new[u] BY <1>6
<1>9. \A u \in C : u \notin Locked /\ (u # t => txn'[a].rows[u] = R[u])
  BY <1>2, <1>3, <1>4, <1>5, <1>8
<1>10. \A u \in Tasks \ {t} : u \notin C => R[u] = task[u] BY <1>4, <1>5
<1> QED BY <1>2, <1>6, <1>7, <1>8, <1>9, <1>10 DEF R

\* A selection: the nodes counted, fewer than max_parallelism, and one for each open
\* transaction are all that can be held.
LEMMA SelectLimit ==
  ASSUME LeaseRaceInv, WithinLimit(task, txn), LeaseRaceInv', NEW a \in Agents, SelectTask(a)
  PROVE  WithinLimit(task', txn')
<1> SUFFICES ASSUME NEW S \in SUBSET Agents
             PROVE  Cardinality(HeldAfter(task', txn', S)) <= Limit
  BY DEF WithinLimit
<1>1. task' = task BY DEF SelectTask, vars
<1>2. PICK t \in Tasks :
        /\ GraphAdmits(SweptUnlocked, t) /\ txn'[a].pick = t
        /\ txn[a] = Closed /\ \A b \in Agents \ {a} : txn'[b] = txn[b]
        /\ \A u \in DOMAIN txn'[a].rows :
             u \notin Locked /\ (u # t => txn'[a].rows[u] = SweptUnlocked[u])
        /\ \A u \in Tasks \ {t} : u \notin DOMAIN txn'[a].rows => SweptUnlocked[u] = task[u]
  BY Selected
<1> DEFINE K == ActiveNodes(SweptUnlocked)
           P == {txn'[b].pick : b \in S}
<1>3. /\ \A n \in Nodes : Active(SweptUnlocked[n]) => Active(task[n])
      /\ \A n \in Nodes : n \in Locked => SweptUnlocked[n] = task[n]
  BY SweptUnlockedRows, GraphFacts DEF LeaseRaceInv, RowKept
<1>4. \A b \in Agents \ {a} : \A n \in DOMAIN txn[b].rows :
        n \in Locked /\ (n = txn[b].pick \/ (Active(txn[b].rows[n]) => Active(task[n])))
  <2> TAKE b \in Agents \ {a}
  <2>1. CASE txn[b] = Closed BY <2>1 DEF Closed
  <2>2. CASE TxnFits(txn[b], task, graph) BY <2>2 DEF TxnFits, RowKept, Locked
  <2> QED BY <2>1, <2>2 DEF LeaseRaceInv
<1>5. DOMAIN txn[a].rows = {} BY <1>2 DEF Closed
<1>6. CASE a \notin S
  <2>1. HeldAfter(task', txn', S) \subseteq HeldAfter(task, txn, S)
    BY <1>1, <1>2, <1>6 DEF HeldAfter
  <2> QED BY <2>1, LimitSubset, HeldNodes DEF WithinLimit
<1>7. CASE t \notin Nodes
  <2>1. HeldAfter(task', txn', S) \subseteq HeldAfter(task, txn, S)
    <3> SUFFICES ASSUME NEW n \in HeldAfter(task', txn', S)
                 PROVE  n \in HeldAfter(task, txn, S)
      OBVIOUS
    <3>1. n \in Nodes /\ n # t BY <1>7 DEF HeldAfter
    <3>2. CASE n \in DOMAIN txn'[a].rows /\ Active(txn'[a].rows[n])
      <4>1. Active(task[n]) /\ n \notin Locked BY <1>2, <1>3, <3>1, <3>2
      <4>2. \A b \in S : n \notin DOMAIN txn[b].rows BY <1>4, <1>5, <4>1
      <4> QED BY <3>1, <4>1, <4>2 DEF HeldAfter
    <3>3. CASE \E b \in S \ {a} : n \in DOMAIN txn'[b].rows /\ Active(txn'[b].rows[n])
      BY <1>2, <3>1, <3>3 DEF HeldAfter
    <3>4. CASE Active(task[n]) /\ \A b \in S : n \notin DOMAIN txn'[b].rows
      BY <1>2, <1>5, <3>1, <3>4 DEF HeldAfter
    <3> QED BY <1>1, <3>2, <3>3, <3>4 DEF HeldAfter
  <2> QED BY <2>1, LimitSubset, HeldNodes DEF WithinLimit
<1>8. CASE t \in Nodes /\ a \in S
  <2>1. HeldAfter(task', txn', S) \subseteq K \cup P
    <3> SUFFICES ASSUME NEW n \in HeldAfter(task', txn', S) PROVE n \in K \cup P
      OBVIOUS
    <3>1. n \in Nodes /\ n \in Tasks BY GraphFacts DEF HeldAfter
    <3>2. CASE n = t BY <1>2, <1>8, <3>2
    <3>3. CASE n # t /\ n \in DOMAIN txn'[a].rows /\ Active(txn'[a].rows[n])
      BY <1>2, <3>1, <3>3 DEF ActiveNodes
    <3>4. ASSUME NEW b \in S \ {a}, n \in DOMAIN txn'[b].rows, Active(txn'[b].rows[n])
          PROVE  n \in K \cup P
      <4>1. txn'[b] = txn[b] BY <1>2
      <4>2. CASE n = txn[b].pick BY <4>1, <4>2
      <4>3. CASE n # txn[b].pick BY <1>3, <1>4, <3>1, <3>4, <4>1, <4>3 DEF ActiveNodes
      <4> QED BY <4>2, <4>3
    <3>5. CASE n # t /\ Active(task[n]) /\ \A b \in S : n \notin DOMAIN txn'[b].rows
      BY <1>2, <1>8, <3>1, <3>5 DEF ActiveNodes
    <3> QED BY <1>1, <3>2, <3>3, <3>4, <3>5 DEF HeldAfter
  <2>2. Cardinality(K) < MaxParallel BY <1>2, <1>8 DEF GraphAdmits
  <2>3. K \subseteq Nodes BY DEF ActiveNodes
  <2>4. IsFiniteSet(S) /\ Cardinality(S) <= Cardinality(Agents) BY AgentsAssumption, FS_Subset
  <2>5. IsFiniteSet(P) /\ Cardinality(P) <= Cardinality(S)
    <3> DEFINE f == [b \in S |-> txn'[b].pick]
    <3>1. f \in Surjection(S, P) BY DEF Surjection
    <3> HIDE DEF P, f
    <3> QED BY <2>4, <3>1, FS_Surjection
  <2> HIDE DEF K, P
  <2>6. IsFiniteSet(K) BY <2>3, GraphAssumption, FS_Subset
  <2>7. /\ IsFiniteSet(K \cup P) /\ IsFiniteSet(K \cap P)
        /\ Cardinality(K \cup P) = Cardinality(K) + Cardinality(P) - Cardinality(K \cap P)
    BY <2>5, <2>6, FS_Union, FS_Intersection
  <2>8. Cardinality(HeldAfter(task', txn', S)) <= Cardinality(K \cup P)
        /\ IsFiniteSet(HeldAfter(task', txn', S))
    BY <2>1, <2>7, FS_Subset
  <2>9. /\ Cardinality(K) \in Nat /\ Cardinality(P) \in Nat /\ Cardinality(S) \in Nat
        /\ Cardinality(K \cap P) \in Nat /\ Cardinality(K \cup P) \in Nat
        /\ Cardinality(Agents) \in Nat /\ Cardinality(HeldAfter(task', txn', S)) \in Nat
    BY <2>4, <2>5, <2>6, <2>7, <2>8, AgentsAssumption, FS_CardinalityType
  <2> QED BY <2>2, <2>4, <2>5, <2>7, <2>8, <2>9, GraphAssumption DEF Limit
<1> QED BY <1>6, <1>7, <1>8

LEMMA RaceNextLimit ==
  ASSUME LeaseRaceInv, LeaseRaceInv', WithinLimit(task, txn), [RaceNext]_raceVars
  PROVE  WithinLimit(task', txn')
<1>1. CASE UNCHANGED raceVars BY <1>1 DEF raceVars, vars
<1>2. CASE OtherRequest
  <2>1. IInv /\ Plain BY <1>2 DEF LeaseRaceInv, OtherRequest, Plain
  <2>2. \A n \in Nodes : Active(task'[n]) => Active(task[n])
    BY <2>1, PlainOrderly, GraphFacts DEF Orderly, Calm, RowCalm
  <2> QED BY <1>2, <2>2, CalmLimit DEF OtherRequest
<1>3. ASSUME NEW a \in Agents, EmptyPoll(a) PROVE WithinLimit(task', txn')
  <2>1. \A n \in Nodes : Active(task'[n]) => Active(task[n])
    BY <1>3, SweptUnlockedRows, GraphFacts DEF EmptyPoll, LeaseRaceInv, RowKept
  <2> QED BY <1>3, <2>1, CalmLimit DEF EmptyPoll
<1> QED BY <1>1, <1>2, <1>3, RollbackLimit, CommitLimit, SelectLimit DEF RaceNext

-----------------------------------------------------------------------------
(* The theorems.                                                           *)

\* The inductive invariant holds throughout every behaviour.
THEOREM InductiveInvariant == Spec => []IInv
BY InitInv, NextInv, PTL DEF Spec

\* No node is held or has succeeded before all it depends on.
THEOREM InDependencyOrder == Spec => []DependencyOrder
<1>1. IInv => DependencyOrder BY DEF IInv, GraphInv, Ordered, DependencyOrder
<1> QED BY <1>1, InductiveInvariant, PTL

\* Once a graph has closed, what has succeeded in it, and so what is compensated, is frozen.
THEOREM SuccessFrozen == Spec => NoSuccessAfterClose
<1>1. IInv /\ [Next]_vars
        => [graph \notin {"draft", "active"} =>
              \A n \in Nodes : task'[n].status = "succeeded" => task[n].status = "succeeded"]_vars
  BY NextInv DEF Frozen, NoNewSuccess
<1> QED BY <1>1, InductiveInvariant, PTL DEF Spec, NoSuccessAfterClose

\* A graph reported succeeded has only succeeded nodes, and keeps them.
THEOREM SuccessOfAll == Spec => []SuccessMeansAll
<1>1. IInv => SuccessMeansAll BY DEF IInv, GraphInv, SuccessMeansAll
<1> QED BY <1>1, InductiveInvariant, PTL

-----------------------------------------------------------------------------
(* Theorems about the lease transactions.                                  *)

\* The inductive invariant of the race: open transactions keep matching the committed rows,
\* whatever commits beside them.
THEOREM RaceInductive == RaceSpec => []LeaseRaceInv
<1>1. RaceInit => LeaseRaceInv
  <2> SUFFICES ASSUME RaceInit PROVE LeaseRaceInv
    OBVIOUS
  <2>1. IInv BY InitInv DEF RaceInit
  <2>2. \A t \in Tasks : task[t] = AbsentRow BY DEF RaceInit, Init
  <2>3. AbsentRow.live = FALSE /\ AbsentRow.cancel = FALSE BY DEF AbsentRow
  <2>4. LiveHeld(task) /\ Unasked(graph, task)
    BY <2>2, <2>3, GraphFacts DEF LiveHeld, Unasked
  <2>5. txn = [a \in Agents |-> Closed] BY DEF RaceInit
  <2>6. \A a \in Agents : txn[a] = Closed /\ txn[a].locked = {} BY <2>5 DEF Closed
  <2>7. txn = [a \in Agents |-> txn[a]] BY <2>5
  <2> QED BY <2>1, <2>4, <2>6, <2>7 DEF LeaseRaceInv
<1>2. LeaseRaceInv /\ [RaceNext]_raceVars => LeaseRaceInv' BY RaceNextHolds
<1> QED BY <1>1, <1>2, PTL DEF RaceSpec

\* lease_next_task with SKIP LOCKED: no commit puts a token over a live lease, and every new
\* token costs one attempt, with any number of polls and other requests in between.
THEOREM PollsKeepApart == RaceSpec => NoLeaseOverLease
<1>1. LeaseRaceInv /\ [RaceNext]_raceVars
        => [\A t \in Tasks :
              (task'[t].token # None /\ task'[t].token # task[t].token) =>
                /\ ~task[t].live
                /\ task'[t].attempts = task[t].attempts + 1]_raceVars
  BY RaceNextHolds DEF LeasesPaid, RowLease
<1> QED BY <1>1, RaceInductive, PTL DEF RaceSpec, NoLeaseOverLease

\* blocked_dependency is read when a candidate is selected and still holds when its lease is
\* committed.
THEOREM RaceInDependencyOrder == RaceSpec => []DependencyOrder
<1>1. LeaseRaceInv => DependencyOrder
  BY DEF LeaseRaceInv, IInv, GraphInv, Ordered, DependencyOrder
<1> QED BY <1>1, RaceInductive, PTL

\* A graph that closes while leases are in flight still freezes what has succeeded.
THEOREM RaceSuccessFrozen == RaceSpec => NoSuccessAfterClose
<1>1. LeaseRaceInv /\ [RaceNext]_raceVars
        => [graph \notin {"draft", "active"} =>
              \A n \in Nodes : task'[n].status = "succeeded" => task[n].status = "succeeded"]_vars
  BY RaceNextHolds DEF Frozen, NoNewSuccess
<1> QED BY <1>1, RaceInductive, PTL DEF RaceSpec, NoSuccessAfterClose

\* graph_parallelism_available counts in a snapshot: with polls in flight beside each other
\* the declared parallelism is exceeded by at most one node for each other worker.
THEOREM ParallelismKeptClose == RaceSpec => []ParallelismOvershoot
<1>1. RaceInit => WithinLimit(task, txn)
  <2> SUFFICES ASSUME RaceInit, NEW S \in SUBSET Agents
               PROVE  Cardinality(HeldAfter(task, txn, S)) <= Limit
    BY DEF WithinLimit
  <2>1. \A n \in Nodes : ~Active(task[n])
    BY GraphFacts DEF RaceInit, Init, AbsentRow, Active, ActiveLease
  <2>2. \A a \in S : DOMAIN txn[a].rows = {}
    <3>1. \A a \in S : txn[a] = Closed BY DEF RaceInit
    <3>2. Closed.rows = <<>> BY DEF Closed
    <3> QED BY <3>1, <3>2
  <2>3. HeldAfter(task, txn, S) = {} BY <2>1, <2>2 DEF HeldAfter
  <2>4. Cardinality(Agents) \in Nat BY AgentsAssumption, FS_CardinalityType
  <2> QED BY <2>3, <2>4, FS_EmptySet, GraphAssumption DEF Limit
<1>2. LeaseRaceInv /\ LeaseRaceInv' /\ WithinLimit(task, txn) /\ [RaceNext]_raceVars
        => WithinLimit(task, txn)'
  <2> SUFFICES ASSUME LeaseRaceInv, LeaseRaceInv', WithinLimit(task, txn), [RaceNext]_raceVars
               PROVE  WithinLimit(task, txn)'
    OBVIOUS
  <2>1. WithinLimit(task', txn') BY RaceNextLimit
  <2> QED BY <2>1 DEF WithinLimit, HeldAfter, Limit
<1>3. WithinLimit(task, txn) => ParallelismOvershoot
  <2> SUFFICES ASSUME WithinLimit(task, txn) PROVE ParallelismOvershoot
    OBVIOUS
  <2>1. HeldAfter(task, txn, {}) = ActiveNodes(task) BY DEF HeldAfter, ActiveNodes
  <2>2. Cardinality(HeldAfter(task, txn, {})) <= Limit BY DEF WithinLimit
  <2> QED BY <2>1, <2>2 DEF ParallelismOvershoot, Limit
<1> QED BY <1>1, <1>2, <1>3, RaceInductive, PTL DEF RaceSpec

=============================================================================
