------------------------------ MODULE TaskLease ------------------------------
(***************************************************************************)
(* The lease protocol of the control plane for tasks that belong to no     *)
(* graph and no mission: creation, founder approval, leasing by polling    *)
(* workers, execution under a lease token, expiry, retry and resumption,   *)
(* and the pause switches.                                                 *)
(*                                                                         *)
(* A step is one committed request: the handlers hold the task row (SELECT *)
(* ... FOR UPDATE) from before their checks to their commit.  Approve and  *)
(* Reject are the approval center's decisions, which lock the approval     *)
(* first.  The routes that decide on what they read without a lock, and    *)
(* with them every revocation, are in ApprovalRace only; what is said here *)
(* of approvals holds for requests that do not meet one of those.          *)
(*                                                                         *)
(* A worker remembers a task and its token for as long as it likes, so     *)
(* every late, duplicated or retried call is a call with a remembered      *)
(* token.  A refused call changes nothing and is not a step.               *)
(***************************************************************************)
EXTENDS TaskRows, FiniteSets

CONSTANTS Tasks,        \* task numbers
          Scopes,       \* control scopes that can be paused
          Eligible,     \* <<a, t>>: capability, risk, machine and authority let a take t
          PausesAgent,  \* <<s, a>>: global, machine or agent scope s matches agent a
          PausesTask,   \* <<s, t>>: workflow scope s matches task t
          Rank,         \* position of a task in ORDER BY priority DESC, created_at ASC
          MaxAttempts,  \* bound: largest max_attempts a task is created with
          AttemptBound  \* bound: attempts after which no model operator resumes a task

ASSUME LeaseAssumption ==
  /\ None \notin Tasks
  /\ Eligible \subseteq Agents \X Tasks
  /\ PausesAgent \subseteq Scopes \X Agents
  /\ PausesTask \subseteq Scopes \X Tasks
  /\ Rank \in [Tasks -> Nat]
  /\ \A t, u \in Tasks : Rank[t] = Rank[u] => t = u
  /\ MaxAttempts \in Nat \ {0}
  /\ AttemptBound \in Nat

VARIABLES task,    \* the task table, each row with its approval
          hold,    \* what each worker process remembers: a task and its token
          paused   \* the control scopes with is_paused

vars == <<task, hold, paused>>

Holding == [task : Tasks, token : Tokens]
NoHold == [task |-> None, token |-> None]

TypeOK ==
  /\ task \in [Tasks -> Row]
  /\ hold \in [Agents -> Holding \cup {NoHold}]
  /\ paused \subseteq Scopes

Init ==
  /\ task = [t \in Tasks |-> AbsentRow]
  /\ hold = [a \in Agents |-> NoHold]
  /\ paused = {}

-----------------------------------------------------------------------------
(* Operator side: creation, approval decisions, resumption, pause.         *)

CreateTask(t, required, max) ==
  /\ task[t].status = "absent"
  /\ task' = [task EXCEPT ![t] = Created(required, max)]
  /\ UNCHANGED <<hold, paused>>

\* approval_center_decision(approve): the approval row is locked before it is checked.
Approve(t) ==
  /\ task[t].approval = "pending"
  /\ task' = [task EXCEPT ![t] = Approved(@)]
  /\ UNCHANGED <<hold, paused>>

\* approval_center_decision(reject)
Reject(t) ==
  /\ task[t].approval = "pending"
  /\ task' = [task EXCEPT ![t] = Rejected(@)]
  /\ UNCHANGED <<hold, paused>>

\* rearm_expired_task_approval
RearmApproval(t) ==
  /\ Waiting(task[t])
  /\ task[t].required
  /\ task' = [task EXCEPT ![t] = Rearm(@)]
  /\ UNCHANGED <<hold, paused>>

\* resume_failed_task
ResumeTask(t) ==
  /\ task[t].status = "failed"
  /\ task[t].attempts < AttemptBound
  /\ task' = [task EXCEPT ![t] = Resumed(@)]
  /\ UNCHANGED <<hold, paused>>

SetControlScope(s, pause) ==
  /\ paused' = IF pause THEN paused \cup {s} ELSE paused \ {s}
  /\ UNCHANGED <<task, hold>>

-----------------------------------------------------------------------------
(* Leasing.                                                                *)

AgentPaused(a) == \E s \in paused : <<s, a>> \in PausesAgent
WorkflowPaused(t) == \E s \in paused : <<s, t>> \in PausesTask

\* A token nobody uses: the code draws it at random from a space too large to repeat.
FreshTokens ==
  {k \in Tokens : (\A t \in Tasks : task[t].token # k) /\ (\A a \in Agents : hold[a].token # k)}

\* reap_expired_leases passes over the rows other transactions have locked.
ReapExpired(rows, locked) ==
  [t \in Tasks |->
     IF LeaseExpired(rows[t]) /\ t \notin locked THEN Reaped(rows[t]) ELSE rows[t]]

ExpireApprovals(rows, locked) ==
  [t \in Tasks |-> IF t \in locked THEN rows[t] ELSE ExpireApproval(rows[t])]

\* What lease_task has done to the table before it selects a candidate.
Swept(locked) == ExpireApprovals(ReapExpired(task, locked), locked)

Candidates(rows, a, locked) ==
  {t \in Tasks \ locked : Leasable(rows[t]) /\ <<a, t>> \in Eligible /\ ~WorkflowPaused(t)}

\* The head of the ordered query: ranks differ, so there is one.
First(S) == {t \in S : \A u \in S : Rank[t] <= Rank[u]}

\* lease_task: sweep, then lease the first candidate, or commit the sweep alone.
LeaseTask(a, locked) ==
  /\ hold[a] = NoHold
  /\ ~AgentPaused(a)
  /\ LET rows == Swept(locked)
         ready == Candidates(rows, a, locked)
     IN  \/ /\ ready = {}
            /\ task' = rows
            /\ hold' = hold
         \/ \E t \in First(ready), k \in FreshTokens :
              /\ task' = [rows EXCEPT ![t] = Leased(@, a, k)]
              /\ hold' = [hold EXCEPT ![a] = [task |-> t, token |-> k]]
  /\ UNCHANGED paused

\* reap_task_leases, the operator's route
ReapTaskLeases(locked) ==
  /\ task' = ReapExpired(task, locked)
  /\ UNCHANGED <<hold, paused>>

-----------------------------------------------------------------------------
(* Worker calls under a remembered token.                                  *)

Verified(a, allowed) ==
  /\ hold[a] # NoHold
  /\ LeaseVerified(task[hold[a].task], a, hold[a].token, allowed)

StartTask(a) ==
  /\ Verified(a, {"leased"})
  /\ task' = [task EXCEPT ![hold[a].task] = Started(@)]
  /\ UNCHANGED <<hold, paused>>

\* An accepted heartbeat moves a deadline that is still ahead: `live' stays up, and
\* what it buys the worker is that LeaseLapses has not happened.
HeartbeatTask(a) ==
  /\ Verified(a, ActiveLease)
  /\ task' = [task EXCEPT ![hold[a].task] = Heartbeaten(@)]
  /\ UNCHANGED <<hold, paused>>

\* complete_task; a pending cancellation refuses it
CompleteTask(a) ==
  /\ Verified(a, {"running"})
  /\ ~task[hold[a].task].cancel
  /\ task' = [task EXCEPT ![hold[a].task] = Succeeded(@)]
  /\ UNCHANGED <<hold, paused>>

FailTask(a, retryable) ==
  /\ Verified(a, ActiveLease)
  /\ task' = [task EXCEPT ![hold[a].task] = Failed(@, retryable, FALSE)]
  /\ UNCHANGED <<hold, paused>>

ReleaseTask(a) ==
  /\ Verified(a, ActiveLease)
  /\ task' = [task EXCEPT ![hold[a].task] = Released(@)]
  /\ UNCHANGED <<hold, paused>>

\* The worker process is done with the attempt, lost its lease, crashed or restarted.
Forget(a) ==
  /\ hold[a] # NoHold
  /\ hold' = [hold EXCEPT ![a] = NoHold]
  /\ UNCHANGED <<task, paused>>

-----------------------------------------------------------------------------
(* The clock.                                                              *)

Remembered(t) == \E a \in Agents : hold[a] = [task |-> t, token |-> task[t].token]
Orphaned(t) == Active(task[t]) /\ ~Remembered(t)

LeaseLapses(t) ==
  /\ task[t].live
  /\ task' = [task EXCEPT ![t].live = FALSE]
  /\ UNCHANGED <<hold, paused>>

\* Nobody can send a heartbeat for an orphaned lease: its deadline does come.
OrphanLapses(t) == Orphaned(t) /\ LeaseLapses(t)

ApprovalLapses(t) ==
  /\ task[t].approval = "approved" /\ task[t].fresh
  /\ task' = [task EXCEPT ![t].fresh = FALSE]
  /\ UNCHANGED <<hold, paused>>

-----------------------------------------------------------------------------

Next ==
  \/ \E t \in Tasks :
       \/ \E required \in BOOLEAN, max \in 1..MaxAttempts : CreateTask(t, required, max)
       \/ Approve(t)
       \/ Reject(t)
       \/ RearmApproval(t)
       \/ ResumeTask(t)
       \/ LeaseLapses(t)
       \/ ApprovalLapses(t)
  \/ \E s \in Scopes, pause \in BOOLEAN : SetControlScope(s, pause)
  \/ \E locked \in SUBSET Tasks :
       \/ ReapTaskLeases(locked)
       \/ \E a \in Agents : LeaseTask(a, locked)
  \/ \E a \in Agents :
       \/ StartTask(a)
       \/ HeartbeatTask(a)
       \/ CompleteTask(a)
       \/ \E retryable \in BOOLEAN : FailTask(a, retryable)
       \/ ReleaseTask(a)
       \/ Forget(a)

Spec == Init /\ [][Next]_vars

\* Workers poll for ever and finish what they hold, and clocks run.  A poll that
\* meets no locked row happens again and again: locks last one transaction.
Fairness ==
  /\ \A a \in Agents : WF_vars(LeaseTask(a, {})) /\ WF_vars(Forget(a))
  /\ \A t \in Tasks : WF_vars(OrphanLapses(t))

FairSpec == Spec /\ Fairness

-----------------------------------------------------------------------------
(* Safety.                                                                 *)

\* clear_lease and lease_next_task keep the lease columns and the status in step:
\* exactly the leased and running rows name an agent and a token, and only they
\* have a deadline still to come.
LeaseCoherent ==
  \A t \in Tasks :
    /\ Active(task[t]) <=> task[t].token # None
    /\ Active(task[t]) <=> task[t].agent # None
    /\ task[t].live => Active(task[t])

\* The founder's gate (governance.py): a gated task is executed only on an approval
\* it has consumed, sits in the queue only on one it can still consume, and an
\* approval that was spent is never found again on a waiting task.
ApprovalGate ==
  \A t \in Tasks :
    task[t].required =>
      /\ Active(task[t]) => task[t].approval = "consumed"
      /\ task[t].status = "queued" => task[t].approval = "approved"
      /\ task[t].approval = "approved" => task[t].status = "queued"
      /\ task[t].approval = "pending" => task[t].status = "pending_approval"

\* Attempts stay within max_attempts, and a waiting task always has one left: the
\* lease query skips a queued task that has none, and nothing else would ever move it.
AttemptBudget ==
  \A t \in Tasks :
    /\ task[t].attempts <= task[t].max
    /\ Waiting(task[t]) => task[t].attempts < task[t].max
    /\ Active(task[t]) => task[t].attempts > 0

\* Whenever a task gets a new token, that costs exactly one attempt and, on a gated
\* task, an approval that was live before the step and is consumed after it, even
\* when the same request first reaped the previous lease.
TokenIsPaidFor ==
  [][\A t \in Tasks :
       (task'[t].token # None /\ task'[t].token # task[t].token) =>
         /\ task'[t].attempts = task[t].attempts + 1
         /\ task[t].required =>
              task[t].approval = "approved" /\ task[t].fresh /\ task'[t].approval = "consumed"]_vars

-----------------------------------------------------------------------------
(* Liveness.                                                               *)

\* A lease whose worker process is gone is recovered by the polls of the others,
\* unless the pause switches keep every worker from polling.
OrphanRecovered ==
  (\E a \in Agents : <>[](~AgentPaused(a)))
    => \A t \in Tasks : Orphaned(t) ~> ~Orphaned(t)

=============================================================================
