---------------------------- MODULE ReconcileRace ----------------------------
(***************************************************************************)
(* reconcile_graph at statement granularity.  It runs at the end of the    *)
(* cancel and reconcile routes and of the supervisor's pass, which lock    *)
(* the graph row, and at the end of complete, fail and release, which lock *)
(* only their own task.  Either way the node tasks are read one by one     *)
(* with db.get and no lock, and what is decided on them is written later,  *)
(* as an UPDATE of the columns that differ from what was read.             *)
(*                                                                         *)
(* Two things keep some of these transactions apart.  complete and fail    *)
(* insert a message and an event under the next sequence number of their   *)
(* graph (UNIQUE on graph and sequence), and the foreign key of the insert *)
(* conflicts with the lock of the routes: of all these only one is at work *)
(* on a graph at a time, and one that meets another waits and is then      *)
(* refused or goes on.  release_task inserts nothing, so nothing keeps it  *)
(* apart from them.                                                        *)
(*                                                                         *)
(* cancel_graph writes each row right after it read it; here its writes    *)
(* come together at the end, which allows more interleavings, not fewer.   *)
(* Leases, starts, reaps and founder decisions are single steps here; see  *)
(* LeaseRace and ApprovalRace.                                             *)
(***************************************************************************)
EXTENDS TaskGraph

CONSTANT Controller   \* the cancel and reconcile routes and the supervisor

VARIABLE txn   \* the open transaction of the controller and of each worker

raceVars == <<vars, txn>>

Parties == Agents \cup {Controller}

\* kind; the graph status that was read; the task a worker has locked; and the node
\* tasks read so far, the worker's own as it is going to leave it.
Closed == [kind |-> "closed", graph |-> "draft", own |-> None, seen |-> <<>>]

RaceInit == Init /\ txn = [x \in Parties |-> Closed]

-----------------------------------------------------------------------------

Open(x) == txn[x] # Closed
Locked == {txn[x].own : x \in {y \in Parties : Open(y)}} \ {None}

\* Variant for mutation: the routes and the supervisor do not lock the graph row.
HeldByMessage(x) == \E y \in Parties \ {x} : txn[y].kind = "message"

\* Variant for mutation: sequence numbers are not unique, so messages exclude nobody.
HeldByRoute(x) == \E y \in Parties \ {x} : txn[y].kind \in {"cancel", "reconcile"}

\* The transactions that hold the graph row or its next sequence number.
GraphHeld(x) == \E y \in Parties \ {x} : txn[y].kind \in {"cancel", "reconcile", "message"}

Begin(x, kind, t, seen) ==
  /\ ~Open(x)
  /\ txn' = [txn EXCEPT ![x] =
               [kind |-> kind, graph |-> graph, own |-> t, seen |-> seen]]
  /\ UNCHANGED vars

\* with_for_update on the graph row, and the check of its status.
BeginControl(kind) ==
  /\ graph \in ActiveGraph /\ ~GraphHeld(Controller)
  /\ Begin(Controller, kind, None, <<>>)

\* lock_task, the checks of the call, and its changes to the worker's own row.
BeginCall(a, kind, row) ==
  /\ hold[a].task \in Nodes \ Locked
  /\ Begin(a, kind, hold[a].task, [t \in {hold[a].task} |-> row])

\* Variant for mutation: a requested cancellation does not refuse the completion.
BeginCompleteCancelled(a) ==
  /\ Verified(a, {"running"})
  /\ MessageAccepted(hold[a].task) /\ ~GraphHeld(a)
  /\ BeginCall(a, "message", Succeeded(task[hold[a].task]))

BeginComplete(a) ==
  /\ Verified(a, {"running"}) /\ ~task[hold[a].task].cancel
  /\ MessageAccepted(hold[a].task) /\ ~GraphHeld(a)
  /\ BeginCall(a, "message", Succeeded(task[hold[a].task]))

BeginFail(a, retryable) ==
  /\ Verified(a, ActiveLease)
  /\ MessageAccepted(hold[a].task) /\ ~GraphHeld(a)
  /\ BeginCall(a, "message", Failed(task[hold[a].task], retryable, FALSE))

BeginRelease(a) ==
  /\ Verified(a, ActiveLease)
  /\ BeginCall(a, "release", Released(task[hold[a].task]))

\* db.get(Task, node.task_id): what is committed now.
ReadNode(x, n) ==
  /\ Open(x) /\ n \notin DOMAIN txn[x].seen
  /\ txn' = [txn EXCEPT ![x].seen = [t \in DOMAIN @ \cup {n} |-> IF t = n THEN task[t] ELSE @[t]]]
  /\ UNCHANGED vars

\* The tables as the transaction sees them when it has read every node.
Seen(x) ==
  View(txn[x].graph, [t \in Tasks |-> IF t \in Nodes THEN txn[x].seen[t] ELSE task[t]], node)

Decided(x) ==
  LET v == Seen(x)
  IN  IF txn[x].kind = "cancel"
        THEN Reconciled(View("cancelling", CancelNodes(v.task), v.node), overdue)
        ELSE Reconciled(v, overdue)

\* The flush: the columns that differ from what was read, over what is there now.
WriteColumns(now, read, new) ==
  [f \in DOMAIN now |-> IF new[f] # read[f] THEN new[f] ELSE now[f]]

\* Flush and COMMIT.  Rows and the graph row that others have locked are waited for.
Finish(x) ==
  LET v == Seen(x)
      d == Decided(x)
      own == {txn[x].own} \ {None}
      changed == {t \in Tasks \ own : d.task[t] # v.task[t]}
  IN  /\ Open(x) /\ Nodes \subseteq DOMAIN txn[x].seen
      /\ changed \cap Locked = {}
      /\ d.graph # v.graph => ~GraphHeld(x)
      /\ task' = [t \in Tasks |->
                    IF t \in own THEN d.task[t]
                    ELSE IF t \in changed THEN WriteColumns(task[t], v.task[t], d.task[t])
                    ELSE task[t]]
      /\ graph' = IF d.graph # v.graph THEN d.graph ELSE graph
      /\ node' = d.node
      /\ txn' = [txn EXCEPT ![x] = Closed]
      /\ UNCHANGED <<overdue, hold>>

\* A lost connection, a deadlock or a sequence number that was taken.
Rollback(x) ==
  /\ Open(x)
  /\ txn' = [txn EXCEPT ![x] = Closed]
  /\ UNCHANGED vars

\* lease_task passes over locked rows.
PollUnlocked(a) ==
  LET rows == [t \in Tasks |-> IF t \in Locked THEN task[t] ELSE Swept[t]]
      ready == Candidates(rows, a) \ Locked
  IN  /\ hold[a] = NoHold
      /\ \/ ready = {} /\ task' = rows /\ hold' = hold
         \/ \E t \in ready, k \in FreshTokens :
              /\ task' = [rows EXCEPT ![t] = Leased(@, a, k)]
              /\ hold' = [hold EXCEPT ![a] = [task |-> t, token |-> k]]
      /\ UNCHANGED <<graph, overdue, node, txn>>

\* The calls on compensation tasks, which reconcile nothing.
UndoCall(a) ==
  /\ hold[a].task \in Undos
  /\ CompleteTask(a) \/ ReleaseTask(a) \/ \E retryable \in BOOLEAN : FailTask(a, retryable)

\* Any other request commits in between if it writes no locked row.
OtherRequest ==
  /\ \/ ActivateGraph \/ DeadlinePasses
     \/ \E t \in Tasks : RowChange(t)
     \/ \E a \in Agents : StartTask(a) \/ UndoCall(a) \/ Forget(a)
  /\ \A t \in Locked : task'[t] = task[t]
  /\ UNCHANGED txn

RaceNext ==
  \/ \E kind \in {"cancel", "reconcile"} : BeginControl(kind)
  \/ \E a \in Agents :
       \/ BeginComplete(a) \/ BeginRelease(a) \/ PollUnlocked(a)
       \/ \E retryable \in BOOLEAN : BeginFail(a, retryable)
  \/ \E x \in Parties : Finish(x) \/ Rollback(x) \/ \E n \in Nodes : ReadNode(x, n)
  \/ OtherRequest

RaceSpec == RaceInit /\ [][RaceNext]_raceVars

-----------------------------------------------------------------------------

\* Once the graph has left "active" no further node succeeds, also when the worker's
\* completion was open while the graph was closed: the closer waits for the row, or the
\* completion is refused.  The exception is a node an operator resumed (which raised its
\* max_attempts): the closer may have read it while it was failed.
RaceNoSuccessAfterClose ==
  [][graph \notin {"draft", "active"} =>
       \A n \in Nodes :
         (task'[n].status = "succeeded" /\ task[n].max = TaskMax) => task[n].status = "succeeded"]_raceVars

\* A compensation task exists only for a node that has succeeded, in a graph that is
\* closing: _create_compensations decides on rows read without a lock, and no write of
\* another closer, decided on an older reading, takes the success back.
UndoOnlyAfterSuccess ==
  \A n \in Compensable :
    task[UndoOf[n]].status # "absent" =>
      task[n].status = "succeeded" /\ graph \notin {"draft", "active", "succeeded"}

\* A graph that reports "compensated" has done all its undo work, however undo tasks fail,
\* are reaped or are retried, and whoever reads them while another closer creates them.
CompensatedIsUndone ==
  graph = "compensated" =>
    /\ \E u \in Undos : task[u].status = "succeeded"
    /\ \A u \in Undos : task[u].status \in {"absent", "succeeded"}

\* A release comes to its end.  It inserts no message, so nothing kept the completions
\* of other nodes away since it read them.
ReleaseEnds == \E a \in Agents : txn[a].kind = "release" /\ txn'[a] = Closed

\* agt-003 runbook: "A task failure fails the graph closed, cancels unfinished descendants
\* and materializes declared compensation".  Whoever closes a graph after a failure, a
\* cancellation or its deadline decides on rows it read without a lock, and still misses
\* no success that has to be undone.  The exceptions are a release, and a graph that only
\* got stuck: that one fails without compensation.
ClosesCompensated ==
  [][(graph \in {"active", "cancelling"} /\ graph' \notin {"active", "cancelling", "succeeded"}) =>
       \/ \A n \in Compensable :
            task'[n].status = "succeeded" => task'[UndoOf[n]].status # "absent"
       \/ ReleaseEnds
       \/ graph = "active" /\ ~overdue /\ \A n \in Nodes : task'[n].status # "failed"]_raceVars

=============================================================================
