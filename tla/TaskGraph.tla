------------------------------ MODULE TaskGraph ------------------------------
(***************************************************************************)
(* One typed task graph: its node tasks, the compensation tasks it may     *)
(* materialize, the workers that lease them, the operator who cancels it   *)
(* and the supervisor that reconciles it.                                  *)
(*                                                                         *)
(* The rows behave as in TaskLease (same row operators); what is added is  *)
(* what a graph does to them: dependency and parallelism conditions on the *)
(* lease query, the typed message and the reconciliation at the end of a   *)
(* worker call, cancellation, the deadline and compensation.  A step is    *)
(* one committed request, as if requests were served one after the other.  *)
(* Where they overlap, LeaseRace has the lease (counted in a snapshot,     *)
(* committed later), ReconcileRace cancel_graph and reconcile_graph (node  *)
(* rows read without a lock, written later) and ApprovalRace the unlocked  *)
(* decisions at statement granularity; what is checked here either holds   *)
(* there too or is about the single request.                               *)
(***************************************************************************)
EXTENDS TaskRows, FiniteSets, Functions

CONSTANTS Nodes,          \* the node tasks of the graph
          Undos,          \* the compensation tasks it may create
          UndoOf,         \* [a subset of Nodes -> Undos]: the declared compensations
          Deps,           \* [Nodes -> SUBSET Nodes]: depends_on
          Eligible,       \* <<a, t>>: capability, risk, machine and authority let a take t
          Gated,          \* the tasks that require approval
          TaskMax,        \* max_attempts of every task
          MaxParallel,    \* max_parallelism
          MaxTotal,       \* max_total_attempts
          AttemptBound    \* bound: attempts after which no model operator resumes a task

Tasks == Nodes \cup Undos
Compensable == DOMAIN UndoOf

ASSUME GraphAssumption ==
  /\ IsFiniteSet(Nodes) /\ Nodes \cap Undos = {} /\ None \notin Tasks
  /\ Compensable \subseteq Nodes
  /\ UndoOf \in [Compensable -> Undos]
  /\ \A m, n \in Compensable : UndoOf[m] = UndoOf[n] => m = n
  /\ Deps \in [Nodes -> SUBSET Nodes]
  /\ Gated \subseteq Tasks /\ Eligible \subseteq Agents \X Tasks
  /\ TaskMax \in Nat \ {0} /\ MaxParallel \in Nat \ {0} /\ MaxTotal \in Nat
  /\ AttemptBound \in Nat

ActiveGraph == {"active", "cancelling", "compensating"}
TerminalGraph == {"succeeded", "failed", "cancelled", "compensated", "compensation_failed"}

VARIABLES graph,     \* task_graphs.status
          overdue,   \* deadline_at <= now
          task,      \* the task rows
          node,      \* task_graph_nodes.status, the mirror of the node tasks
          hold       \* what each worker process remembers: a task and its token

vars == <<graph, overdue, task, node, hold>>

Holding == [task : Tasks, token : Tokens]
NoHold == [task |-> None, token |-> None]

TypeOK ==
  /\ graph \in {"draft"} \cup ActiveGraph \cup TerminalGraph
  /\ overdue \in BOOLEAN
  /\ task \in [Tasks -> Row]
  /\ node \in [Nodes -> Statuses \cup {"blocked"}]
  /\ hold \in [Agents -> Holding \cup {NoHold}]

\* create_graph: the draft with its blocked nodes.
Init ==
  /\ graph = "draft"
  /\ overdue = FALSE
  /\ task = [t \in Tasks |-> AbsentRow]
  /\ node = [n \in Nodes |-> "blocked"]
  /\ hold = [a \in Agents |-> NoHold]

-----------------------------------------------------------------------------
(* reconcile_graph, as a function of the transaction's view of the tables. *)


NewRow(t) == Created(t \in Gated, TaskMax)

\* _create_compensations: one undo task for each succeeded node that declares one
\* and has none yet.
ToUndo(rows) ==
  {UndoOf[n] : n \in {m \in Compensable : /\ rows[m].status = "succeeded"
                                          /\ rows[UndoOf[m]].status = "absent"}}

Materialized(rows) ==
  [t \in Tasks |-> IF t \in ToUndo(rows) THEN NewRow(t) ELSE rows[t]]

CancelNodes(rows) == [t \in Tasks |-> IF t \in Nodes THEN CancelRow(rows[t]) ELSE rows[t]]

AttemptsUsed(rows) == SumFunction([n \in Nodes |-> rows[n].attempts])

All(rows, S, statuses) == \A t \in S : rows[t].status \in statuses

\* A view of the graph's tables: status, rows, node mirror.
View(g, rows, mirror) == [graph |-> g, task |-> rows, node |-> mirror]

\* Variant for mutation: undo tasks that ended badly count as done.
ReconcileAnyOutcome(v) ==
  LET undos == {u \in Undos : v.task[u].status # "absent"}
  IN  IF undos # {} /\ All(v.task, undos, TerminalTask)
        THEN [v EXCEPT !.graph = "compensated"]
        ELSE v

\* While compensating, the graph only waits for the undo tasks that exist.
ReconcileCompensation(v) ==
  LET undos == {u \in Undos : v.task[u].status # "absent"}
  IN  IF undos # {} /\ All(v.task, undos, TerminalTask)
        THEN [v EXCEPT !.graph = IF All(v.task, undos, {"succeeded"})
                                   THEN "compensated" ELSE "compensation_failed"]
        ELSE v

\* Deadline, attempt budget or a failed node: fail closed.
FailClosed(v) ==
  LET rows == CancelNodes(v.task)
  IN  [v EXCEPT !.task = Materialized(rows),
                !.graph = IF ToUndo(rows) = {} THEN "failed" ELSE "compensating"]

\* Variant for mutation: the deadline is not looked at.
FailClosedTimeless(rows, late) ==
  AttemptsUsed(rows) > MaxTotal \/ \E n \in Nodes : rows[n].status = "failed"

MustFailClosed(rows, late) ==
  \/ late
  \/ AttemptsUsed(rows) > MaxTotal
  \/ \E n \in Nodes : rows[n].status = "failed"

\* Variant for mutation: nodes that ended in any way count as success.
ProgressAnyOutcome(v) ==
  IF All(v.task, Nodes, TerminalTask) THEN [v EXCEPT !.graph = "succeeded"] ELSE v

ReconcileProgress(v) ==
  IF All(v.task, Nodes, {"succeeded"}) THEN [v EXCEPT !.graph = "succeeded"]
  ELSE IF v.graph = "cancelling" /\ All(v.task, Nodes, TerminalTask) THEN
    [v EXCEPT !.task = Materialized(@),
              !.graph = IF ToUndo(v.task) = {} THEN "cancelled" ELSE "compensating"]
  ELSE IF All(v.task, Nodes, TerminalTask) THEN [v EXCEPT !.graph = "failed"]
  ELSE v

Reconciled(v, late) ==
  LET synced == [v EXCEPT !.node = [n \in Nodes |-> v.task[n].status]]
  IN  IF v.graph \notin ActiveGraph THEN v
      ELSE IF v.graph = "compensating" THEN ReconcileCompensation(synced)
      ELSE IF MustFailClosed(v.task, late) THEN FailClosed(synced)
      ELSE ReconcileProgress(synced)

\* The transaction's outcome becomes the new state.
Commit(v) == graph' = v.graph /\ task' = v.task /\ node' = v.node

-----------------------------------------------------------------------------
(* Requests on the graph.                                                  *)

ActivateGraph ==
  /\ graph = "draft"
  /\ graph' = "active"
  /\ task' = [t \in Tasks |-> IF t \in Nodes THEN NewRow(t) ELSE task[t]]
  /\ node' = [n \in Nodes |-> NewRow(n).status]
  /\ UNCHANGED <<overdue, hold>>

\* cancel: cancel_graph and then reconcile_graph in one transaction
CancelGraph ==
  /\ graph \in ActiveGraph
  /\ Commit(Reconciled(View("cancelling", CancelNodes(task), node), overdue))
  /\ UNCHANGED <<overdue, hold>>

\* The reconcile route, and the supervisor's pass over the active graphs.
ReconcileGraph ==
  /\ graph \in ActiveGraph
  /\ Commit(Reconciled(View(graph, task, node), overdue))
  /\ UNCHANGED <<overdue, hold>>

-----------------------------------------------------------------------------
(* Worker calls.                                                           *)

FreshTokens ==
  {k \in Tokens : (\A t \in Tasks : task[t].token # k) /\ (\A a \in Agents : hold[a].token # k)}

Swept == [t \in Tasks |-> ExpireApproval(IF LeaseExpired(task[t]) THEN Reaped(task[t]) ELSE task[t])]

\* graph_parallelism_available and blocked_dependency of lease_next_task.
ActiveNodes(rows) == {n \in Nodes : Active(rows[n])}
\* Variant for mutation: a dependency that ended in any way is enough.
AdmitsAfterEnd(rows, t) ==
  t \in Nodes =>
    /\ graph = "active"
    /\ Cardinality(ActiveNodes(rows)) < MaxParallel
    /\ \A d \in Deps[t] : rows[d].status \in TerminalTask

GraphAdmits(rows, t) ==
  t \in Nodes =>
    /\ graph = "active"
    /\ Cardinality(ActiveNodes(rows)) < MaxParallel
    /\ \A d \in Deps[t] : rows[d].status = "succeeded"

Candidates(rows, a) ==
  {t \in Tasks : Leasable(rows[t]) /\ <<a, t>> \in Eligible /\ GraphAdmits(rows, t)}

\* lease_task; rows that other requests have locked are skipped, so any candidate may
\* be the first one left.
LeaseTask(a) ==
  /\ hold[a] = NoHold
  /\ \/ /\ Candidates(Swept, a) = {}
        /\ task' = Swept
        /\ hold' = hold
     \/ \E t \in Candidates(Swept, a), k \in FreshTokens :
          /\ task' = [Swept EXCEPT ![t] = Leased(@, a, k)]
          /\ hold' = [hold EXCEPT ![a] = [task |-> t, token |-> k]]
  /\ UNCHANGED <<graph, overdue, node>>

Verified(a, allowed) ==
  /\ hold[a] # NoHold
  /\ LeaseVerified(task[hold[a].task], a, hold[a].token, allowed)

StartTask(a) ==
  /\ Verified(a, {"leased"})
  /\ task' = [task EXCEPT ![hold[a].task] = Started(@)]
  /\ UNCHANGED <<graph, overdue, node, hold>>

HeartbeatTask(a) ==
  /\ Verified(a, ActiveLease)
  /\ task' = [task EXCEPT ![hold[a].task] = Heartbeaten(@)]
  /\ UNCHANGED <<graph, overdue, node, hold>>

\* _record_graph_task_message: refused, with the whole call, outside an active graph.
MessageAccepted(t) == t \in Nodes => graph \in ActiveGraph

\* The end of complete_task, fail_task and release_task: _reconcile_task_graph.
Settle(t, row) ==
  LET v == View(graph, [task EXCEPT ![t] = row], node)
  IN  Commit(IF t \in Nodes THEN Reconciled(v, overdue) ELSE v)

\* Variant for mutation: a requested cancellation does not refuse the completion.
CompleteCancelled(a) ==
  /\ Verified(a, {"running"})
  /\ MessageAccepted(hold[a].task)
  /\ Settle(hold[a].task, Succeeded(task[hold[a].task]))
  /\ UNCHANGED <<overdue, hold>>

CompleteTask(a) ==
  /\ Verified(a, {"running"})
  /\ ~task[hold[a].task].cancel
  /\ MessageAccepted(hold[a].task)
  /\ Settle(hold[a].task, Succeeded(task[hold[a].task]))
  /\ UNCHANGED <<overdue, hold>>

FailTask(a, retryable) ==
  /\ Verified(a, ActiveLease)
  /\ MessageAccepted(hold[a].task)
  /\ Settle(hold[a].task, Failed(task[hold[a].task], retryable, FALSE))
  /\ UNCHANGED <<overdue, hold>>

\* No message: a release is accepted whatever the graph's status.
ReleaseTask(a) ==
  /\ Verified(a, ActiveLease)
  /\ Settle(hold[a].task, Released(task[hold[a].task]))
  /\ UNCHANGED <<overdue, hold>>

Forget(a) ==
  /\ hold[a] # NoHold
  /\ hold' = [hold EXCEPT ![a] = NoHold]
  /\ UNCHANGED <<graph, overdue, task, node>>

-----------------------------------------------------------------------------
(* Founder decisions and the clock; none of them reconciles the graph.     *)

Approve(t) == task[t].approval = "pending" /\ task' = [task EXCEPT ![t] = Approved(@)]
Reject(t) == task[t].approval = "pending" /\ task' = [task EXCEPT ![t] = Rejected(@)]
Revoke(t) == task[t].approval = "approved" /\ task' = [task EXCEPT ![t] = Revoked(@)]
RearmApproval(t) ==
  Waiting(task[t]) /\ task[t].required /\ task' = [task EXCEPT ![t] = Rearm(@)]
ResumeTask(t) ==
  /\ task[t].status = "failed" /\ task[t].attempts < AttemptBound
  /\ task' = [task EXCEPT ![t] = Resumed(@)]

LeaseLapses(t) == task[t].live /\ task' = [task EXCEPT ![t].live = FALSE]
ApprovalLapses(t) ==
  task[t].approval = "approved" /\ task[t].fresh /\ task' = [task EXCEPT ![t].fresh = FALSE]

RowChange(t) ==
  /\ \/ Approve(t) \/ Reject(t) \/ Revoke(t) \/ RearmApproval(t) \/ ResumeTask(t)
     \/ LeaseLapses(t) \/ ApprovalLapses(t)
  /\ UNCHANGED <<graph, overdue, node, hold>>

DeadlinePasses ==
  /\ graph # "draft" /\ ~overdue
  /\ overdue' = TRUE
  /\ UNCHANGED <<graph, task, node, hold>>

-----------------------------------------------------------------------------

Next ==
  \/ ActivateGraph
  \/ CancelGraph
  \/ ReconcileGraph
  \/ DeadlinePasses
  \/ \E t \in Tasks : RowChange(t)
  \/ \E a \in Agents :
       \/ LeaseTask(a)
       \/ StartTask(a)
       \/ HeartbeatTask(a)
       \/ CompleteTask(a)
       \/ \E retryable \in BOOLEAN : FailTask(a, retryable)
       \/ ReleaseTask(a)
       \/ Forget(a)

Spec == Init /\ [][Next]_vars

-----------------------------------------------------------------------------
(* Safety.                                                                 *)

\* agt-003 runbook: "The lease selector enforces dependencies, graph parallelism, ...".
\* At most max_parallelism nodes are held at once.  Overlapping polls break it: see
\* LeaseRace, where it is stated of the code and where what is kept instead is proved.
ParallelismBound == Cardinality(ActiveNodes(task)) <= MaxParallel

\* Nothing runs or has succeeded before all it depends on has succeeded.
DependencyOrder ==
  \A n \in Nodes :
    (Active(task[n]) \/ task[n].status = "succeeded") =>
      \A d \in Deps[n] : task[d].status = "succeeded"

\* A node whose cancellation was requested never succeeds afterwards: once the graph
\* has left "active", the set of succeeded nodes, which decides what is compensated,
\* is frozen.
NoSuccessAfterClose ==
  [][graph \notin {"draft", "active"} =>
       \A n \in Nodes : task'[n].status = "succeeded" => task[n].status = "succeeded"]_vars

\* A graph reported succeeded has no node that failed, was cancelled or still runs, and
\* no resumption, approval or late call makes that untrue afterwards.
SuccessMeansAll == graph = "succeeded" => All(task, Nodes, {"succeeded"})

-----------------------------------------------------------------------------
(* What the AGT-003 runbook promises; see the violation run.               *)

\* agt-003 runbook: "queued nodes cancel immediately".
NoWaitingNodeAfterClose ==
  graph \in {"cancelling", "cancelled"} => \A n \in Nodes : ~Waiting(task[n])

-----------------------------------------------------------------------------
(* Liveness.                                                               *)

\* No graph outlives its deadline in a running state: whatever workers, founders and
\* approvals do, the supervisor moves it to a terminal state or to compensation.  Checked
\* in LeaseRace, where it may have to wait for the locks of a poll.
GraphBounded == (graph \in {"active", "cancelling"}) ~> (graph \notin {"active", "cancelling"})

=============================================================================
