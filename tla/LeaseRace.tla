------------------------------ MODULE LeaseRace ------------------------------
(***************************************************************************)
(* The lease transaction of TaskGraph at statement granularity.  Its       *)
(* SELECT ... FOR UPDATE SKIP LOCKED reads what is committed, locks every  *)
(* candidate the agent could take and picks one; the writes become visible *)
(* at COMMIT, and a lost connection rolls them back.  Between the two, the *)
(* other requests go on: they cannot write a locked row, and they read the *)
(* committed state.                                                        *)
(***************************************************************************)
EXTENDS TaskGraph

ASSUME AgentsAssumption == IsFiniteSet(Agents)

VARIABLE txn   \* the open lease transaction of each agent

raceVars == <<vars, txn>>

Closed == [pick |-> None, locked |-> {}, rows |-> <<>>]

RaceInit == Init /\ txn = [a \in Agents |-> Closed]

-----------------------------------------------------------------------------

Locked == UNION {txn[a].locked : a \in Agents}
Drawn == {txn[a].rows[txn[a].pick].token : a \in {b \in Agents : txn[b] # Closed}}

\* The sweep and the candidate query both pass over locked rows.
SweptUnlocked == [t \in Tasks |-> IF t \in Locked THEN task[t] ELSE Swept[t]]
\* Variant for mutation: rows that others have locked are candidates too.
AllCandidates(a) == Candidates(SweptUnlocked, a)

UnlockedCandidates(a) == Candidates(SweptUnlocked, a) \ Locked

SelectTask(a) ==
  /\ hold[a] = NoHold /\ txn[a] = Closed
  /\ \E t \in UnlockedCandidates(a), k \in FreshTokens \ Drawn :
       LET leased == [SweptUnlocked EXCEPT ![t] = Leased(@, a, k)]
           changed == {u \in Tasks : leased[u] # task[u]}
       IN  txn' = [txn EXCEPT ![a] = [pick |-> t,
                                      locked |-> UnlockedCandidates(a) \cup changed,
                                      rows |-> Restrict(leased, changed)]]
  /\ UNCHANGED vars

\* A poll that finds nothing commits its sweep.
EmptyPoll(a) ==
  /\ hold[a] = NoHold /\ txn[a] = Closed
  /\ UnlockedCandidates(a) = {}
  /\ task' = SweptUnlocked
  /\ UNCHANGED <<graph, overdue, node, hold, txn>>

CommitLease(a) ==
  /\ txn[a] # Closed
  /\ LET new == txn[a].rows
     IN  /\ task' = [t \in Tasks |-> IF t \in DOMAIN new THEN new[t] ELSE task[t]]
         /\ hold' = [hold EXCEPT ![a] = [task |-> txn[a].pick, token |-> new[txn[a].pick].token]]
  /\ txn' = [txn EXCEPT ![a] = Closed]
  /\ UNCHANGED <<graph, overdue, node>>

RollbackLease(a) ==
  /\ txn[a] # Closed
  /\ txn' = [txn EXCEPT ![a] = Closed]
  /\ UNCHANGED vars

\* Any other request commits in between if it writes no locked row; one that would is
\* made to wait.
OtherRequest ==
  /\ \/ ActivateGraph \/ CancelGraph \/ ReconcileGraph \/ DeadlinePasses
     \/ \E t \in Tasks : RowChange(t)
     \/ \E a \in Agents :
          \/ StartTask(a) \/ CompleteTask(a) \/ ReleaseTask(a) \/ Forget(a)
          \/ \E retryable \in BOOLEAN : FailTask(a, retryable)
  /\ \A t \in Locked : task'[t] = task[t]
  /\ UNCHANGED txn

RaceNext ==
  \/ \E a \in Agents : SelectTask(a) \/ EmptyPoll(a) \/ CommitLease(a) \/ RollbackLease(a)
  \/ OtherRequest

RaceSpec == RaceInit /\ [][RaceNext]_raceVars

\* A pass of the supervisor over the graph; it waits for the rows it writes.
SupervisorPass ==
  ReconcileGraph /\ (\A t \in Locked : task'[t] = task[t]) /\ UNCHANGED txn

\* Deadlines come, transactions end, and the supervisor's loop goes on: its pass gets a
\* row lock when the poll that holds it ends, however many polls come and go.
FairRaceSpec ==
  /\ RaceSpec
  /\ WF_raceVars(DeadlinePasses /\ UNCHANGED txn)
  /\ \A a \in Agents : WF_raceVars(CommitLease(a) \/ RollbackLease(a))
  /\ SF_raceVars(SupervisorPass)

-----------------------------------------------------------------------------

\* SKIP LOCKED keeps two polls apart: a commit never puts a new token over a lease that
\* is still live, and every token in the table was paid for with one attempt.
NoLeaseOverLease ==
  [][\A t \in Tasks :
       (task'[t].token # None /\ task'[t].token # task[t].token) =>
         /\ ~task[t].live
         /\ task'[t].attempts = task[t].attempts + 1]_raceVars

\* The count of active nodes is read when a candidate is selected, and every poll that is
\* in flight may read it before any of them commits: ParallelismBound is not kept (see the
\* violation run).  What is kept is this: however polls, commits, rollbacks, reaped leases
\* and lost workers follow on each other, the overshoot is at most one node for each other
\* worker, because a poll counts whatever was committed before it.
ParallelismOvershoot ==
  Cardinality(ActiveNodes(task)) <= MaxParallel - 1 + Cardinality(Agents)

\* DependencyOrder is checked here too: dependencies that were read when the candidate
\* was selected still hold when its lease is committed.  And GraphBounded: locks of polls
\* delay the supervisor but keep no graph beyond its deadline.

=============================================================================
