--------------------------- MODULE TaskLeaseProofs ---------------------------
(***************************************************************************)
(* Machine-checked proofs about TaskLease and ApprovalRace, for any sets   *)
(* of tasks, agents, tokens and scopes and any number of decisions in      *)
(* flight.                                                                 *)
(*                                                                         *)
(* TaskLease keeps its type invariant and the lease, approval and attempt  *)
(* invariants.  The inductive invariant is row-local (RowInv of            *)
(* TaskRowsProofs, which every row operator preserves) plus two facts      *)
(* about tokens: no two rows carry the same one, and no two workers        *)
(* remember the same one.                                                  *)
(*                                                                         *)
(* A late decision of ApprovalRace breaks most of RowInv: a row may be     *)
(* queued with its lease columns set, or leased on an approval that is     *)
(* pending again.  What is left is weaker in its rows (BoundRow) and keeps *)
(* the two facts about tokens; and an approval that is asked for belongs   *)
(* to a task that waits for it (PendingRow), which is why no locked        *)
(* decision reaches a finished task.                                       *)
(***************************************************************************)
EXTENDS ApprovalRace, TaskRowsProofs

TokenPerRow ==
  \A t, u \in Tasks : (task[t].token # None /\ task[t].token = task[u].token) => t = u

TokenPerWorker ==
  \A a, b \in Agents : (hold[a].token # None /\ hold[a].token = hold[b].token) => a = b

\* The inductive strengthening of the lease invariants.
IInv ==
  /\ TypeOK
  /\ \A t \in Tasks : RowInv(task[t])
  /\ TokenPerRow
  /\ TokenPerWorker

\* The step gives no task a token it did not have.
TokensKept == \A t \in Tasks : task'[t].token \in {task[t].token, None}

-----------------------------------------------------------------------------
(* Whole steps.                                                            *)

\* Replacing rows by good rows that carry the old token or none, with the workers'
\* memory untouched, keeps the inductive invariant.
LEMMA RowsStep ==
  ASSUME IInv, NEW rows, rows \in [Tasks -> Row],
         \A t \in Tasks : RowInv(rows[t]) /\ rows[t].token \in {task[t].token, None},
         task' = rows, hold' = hold, paused' \subseteq Scopes
  PROVE  IInv' /\ TokensKept
BY DEF IInv, TypeOK, TokenPerRow, TokenPerWorker, TokensKept

\* The same for a step that rewrites one row.
LEMMA RowStep ==
  ASSUME IInv, NEW t \in Tasks, NEW q, RowInv(q), q.token \in {task[t].token, None},
         task' = [task EXCEPT ![t] = q], hold' = hold, paused' \subseteq Scopes
  PROVE  IInv' /\ TokensKept
<1> DEFINE rows == [task EXCEPT ![t] = q]
<1>1. q \in Row BY DEF RowInv
<1>2. task \in [Tasks -> Row] BY DEF IInv, TypeOK
<1>3. rows \in [Tasks -> Row] BY <1>1, <1>2
<1>4. \A u \in Tasks : RowInv(rows[u]) /\ rows[u].token \in {task[u].token, None}
  BY <1>2 DEF IInv
<1> HIDE DEF rows
<1>5. task' = rows BY DEF rows
<1> QED BY <1>3, <1>4, <1>5, RowsStep

\* reap_expired_leases and expire_approvals leave good rows that carry the old token or none.
LEMMA SweepInv ==
  ASSUME IInv, NEW locked
  PROVE  /\ ReapExpired(task, locked) \in [Tasks -> Row]
         /\ \A t \in Tasks : /\ RowInv(ReapExpired(task, locked)[t])
                             /\ ReapExpired(task, locked)[t].token \in {task[t].token, None}
         /\ Swept(locked) \in [Tasks -> Row]
         /\ \A t \in Tasks : /\ RowInv(Swept(locked)[t])
                             /\ Swept(locked)[t].token \in {task[t].token, None}
<1> DEFINE reaped == ReapExpired(task, locked)
           swept == Swept(locked)
<1>1. \A t \in Tasks : RowInv(reaped[t]) /\ reaped[t].token \in {task[t].token, None}
  <2> SUFFICES ASSUME NEW t \in Tasks
               PROVE  RowInv(reaped[t]) /\ reaped[t].token \in {task[t].token, None}
    OBVIOUS
  <2>1. RowInv(task[t]) BY DEF IInv
  <2>2. CASE LeaseExpired(task[t]) /\ t \notin locked
    <3>1. reaped[t] = Reaped(task[t]) BY <2>2 DEF ReapExpired
    <3>2. Active(task[t]) BY <2>2 DEF LeaseExpired
    <3> QED BY <2>1, <3>1, <3>2, ReapedInv
  <2>3. CASE ~(LeaseExpired(task[t]) /\ t \notin locked)
    <3>1. reaped[t] = task[t] BY <2>3 DEF ReapExpired
    <3> QED BY <2>1, <3>1
  <2> QED BY <2>2, <2>3
<1>2. reaped \in [Tasks -> Row]
  <2>1. \A t \in Tasks : reaped[t] \in Row BY <1>1 DEF RowInv
  <2> QED BY <2>1 DEF ReapExpired
<1>3. \A t \in Tasks : RowInv(swept[t]) /\ swept[t].token \in {task[t].token, None}
  <2> SUFFICES ASSUME NEW t \in Tasks
               PROVE  RowInv(swept[t]) /\ swept[t].token \in {task[t].token, None}
    OBVIOUS
  <2>1. RowInv(reaped[t]) /\ reaped[t].token \in {task[t].token, None} BY <1>1
  <2>2. swept[t] = reaped[t] \/ swept[t] = ExpireApproval(reaped[t])
    BY DEF Swept, ExpireApprovals
  <2>3. RowInv(ExpireApproval(reaped[t])) /\ ExpireApproval(reaped[t]).token = reaped[t].token
    BY <2>1, ExpireApprovalInv
  <2> QED BY <2>1, <2>2, <2>3
<1>4. swept \in [Tasks -> Row]
  <2>1. \A t \in Tasks : swept[t] \in Row BY <1>3 DEF RowInv
  <2> QED BY <2>1 DEF Swept, ExpireApprovals
<1> QED BY <1>1, <1>2, <1>3, <1>4

\* Init establishes the inductive invariant.
LEMMA InitInv == Init => IInv
<1> SUFFICES ASSUME Init PROVE IInv
  OBVIOUS
<1>1. AbsentRow \in Row /\ RowInv(AbsentRow) /\ AbsentRow.token = None
  BY AbsentInv DEF RowInv
<1>2. task \in [Tasks -> Row] /\ \A t \in Tasks : task[t] = AbsentRow
  BY <1>1 DEF Init
<1>3. hold \in [Agents -> Holding \cup {NoHold}] /\ \A a \in Agents : hold[a].token = None
  BY DEF Init, NoHold
<1>4. paused \subseteq Scopes BY DEF Init
<1> QED BY <1>1, <1>2, <1>3, <1>4 DEF IInv, TypeOK, TokenPerRow, TokenPerWorker

\* A poll of a worker: the sweep, then at most one lease under a fresh token.
LEMMA LeaseTaskInv ==
  ASSUME IInv, NEW a \in Agents, NEW locked, LeaseTask(a, locked)
  PROVE  IInv'
<1> DEFINE rows == Swept(locked)
           ready == Candidates(rows, a, locked)
<1>1. /\ rows \in [Tasks -> Row]
      /\ \A u \in Tasks : RowInv(rows[u]) /\ rows[u].token \in {task[u].token, None}
  BY SweepInv
<1>2. paused' \subseteq Scopes BY DEF LeaseTask, IInv, TypeOK
<1>3. CASE task' = rows /\ hold' = hold
  <2> HIDE DEF rows
  <2> QED BY <1>1, <1>2, <1>3, RowsStep
<1>4. ASSUME NEW t \in First(ready), NEW k \in FreshTokens,
             task' = [rows EXCEPT ![t] = Leased(@, a, k)],
             hold' = [hold EXCEPT ![a] = [task |-> t, token |-> k]]
      PROVE  IInv'
  <2> DEFINE q == Leased(rows[t], a, k)
  <2>1. t \in Tasks /\ Leasable(rows[t]) BY DEF First, Candidates
  <2>2. k \in Tokens /\ (\A u \in Tasks : task[u].token # k) /\ (\A b \in Agents : hold[b].token # k)
    BY DEF FreshTokens
  <2>3. RowInv(q) /\ q.token = k BY <1>1, <2>1, <2>2, LeasedInv
  <2>4. q \in Row BY <2>3 DEF RowInv
  <2>5. task' = [rows EXCEPT ![t] = q] BY <1>1, <1>4, <2>1
  <2> HIDE DEF q, rows, ready
  <2>6. task' \in [Tasks -> Row] BY <1>1, <2>4, <2>5
  <2>7. task'[t] = q /\ \A u \in Tasks \ {t} : task'[u] = rows[u] BY <1>1, <2>1, <2>5
  <2>8. \A u \in Tasks : RowInv(task'[u]) BY <1>1, <2>3, <2>7
  <2>9. TokenPerRow'
    <3> SUFFICES ASSUME NEW u \in Tasks, NEW v \in Tasks,
                        task'[u].token # None, task'[u].token = task'[v].token
                 PROVE  u = v
      BY DEF TokenPerRow
    <3>1. \A w \in Tasks \ {t} : task'[w].token \in {task[w].token, None} BY <1>1, <2>7
    <3>2. CASE u # t /\ v # t BY <3>1, <3>2 DEF IInv, TokenPerRow
    <3>3. CASE u = t /\ v # t BY <2>2, <2>3, <2>7, <3>1, <3>3, NoneAssumption
    <3>4. CASE u # t /\ v = t BY <2>2, <2>3, <2>7, <3>1, <3>4, NoneAssumption
    <3> QED BY <3>2, <3>3, <3>4
  <2>10. hold \in [Agents -> Holding \cup {NoHold}] BY DEF IInv, TypeOK
  <2>11. [task |-> t, token |-> k] \in Holding BY <2>1, <2>2 DEF Holding
  <2>12. hold' \in [Agents -> Holding \cup {NoHold}] BY <1>4, <2>10, <2>11
  <2>13. hold'[a].token = k /\ \A b \in Agents \ {a} : hold'[b] = hold[b] BY <1>4, <2>10
  <2>14. TokenPerWorker' BY <2>2, <2>13 DEF IInv, TokenPerWorker
  <2> QED BY <1>2, <2>6, <2>8, <2>9, <2>12, <2>14 DEF IInv, TypeOK
<1> QED BY <1>3, <1>4 DEF LeaseTask

\* Worker calls under a verified lease rewrite the one row the token belongs to.
LEMMA WorkerCallInv ==
  ASSUME IInv, NEW a \in Agents,
         StartTask(a) \/ HeartbeatTask(a) \/ CompleteTask(a) \/ ReleaseTask(a)
           \/ \E retryable \in BOOLEAN : FailTask(a, retryable)
  PROVE  IInv' /\ TokensKept
<1> DEFINE t == hold[a].task
           r == task[t]
<1>1. hold[a] # NoHold /\ LeaseVerified(r, a, hold[a].token, ActiveLease)
  BY DEF StartTask, HeartbeatTask, CompleteTask, ReleaseTask, FailTask, Verified,
    LeaseVerified, ActiveLease
<1>2. t \in Tasks BY <1>1 DEF IInv, TypeOK, Holding
<1>3. RowInv(r) BY <1>2 DEF IInv
<1>4. Active(r) BY <1>1 DEF LeaseVerified, Active
<1>5. hold' = hold /\ paused' \subseteq Scopes
  BY DEF StartTask, HeartbeatTask, CompleteTask, ReleaseTask, FailTask, IInv, TypeOK
<1>6. PICK q : RowInv(q) /\ q.token \in {r.token, None} /\ task' = [task EXCEPT ![t] = q]
  <2>0. task \in [Tasks -> Row] BY DEF IInv, TypeOK
  <2>1. CASE StartTask(a) \/ HeartbeatTask(a)
    BY <1>2, <1>3, <1>4, <2>0, <2>1, StartedInv DEF StartTask, HeartbeatTask
  <2>2. CASE CompleteTask(a)
    BY <1>2, <1>3, <1>4, <2>0, <2>2, SucceededInv DEF CompleteTask
  <2>3. CASE ReleaseTask(a)
    BY <1>2, <1>3, <1>4, <2>0, <2>3, ReleasedInv DEF ReleaseTask
  <2>4. CASE \E retryable \in BOOLEAN : FailTask(a, retryable)
    <3>1. PICK retryable \in BOOLEAN : FailTask(a, retryable) BY <2>4
    <3>2. RowInv(Failed(r, retryable, FALSE)) /\ Failed(r, retryable, FALSE).token = None
      BY <1>3, <1>4, FailedInv
    <3> QED BY <1>2, <2>0, <3>1, <3>2 DEF FailTask
  <2> QED BY <2>1, <2>2, <2>3, <2>4
<1> QED BY <1>2, <1>5, <1>6, RowStep

\* Operator decisions and the clock rewrite one row.
LEMMA RowActionInv ==
  ASSUME IInv, NEW t \in Tasks,
         \/ \E required \in BOOLEAN, max \in 1..MaxAttempts : CreateTask(t, required, max)
         \/ Approve(t) \/ Reject(t) \/ RearmApproval(t) \/ ResumeTask(t)
         \/ LeaseLapses(t) \/ ApprovalLapses(t)
  PROVE  IInv' /\ TokensKept
<1> DEFINE r == task[t]
<1>1. RowInv(r) BY DEF IInv
<1>2. hold' = hold /\ paused' \subseteq Scopes
  BY DEF CreateTask, Approve, Reject, RearmApproval, ResumeTask, LeaseLapses,
    ApprovalLapses, IInv, TypeOK
<1>3. PICK q : RowInv(q) /\ q.token \in {r.token, None} /\ task' = [task EXCEPT ![t] = q]
  <2>0. task \in [Tasks -> Row] BY DEF IInv, TypeOK
  <2>1. CASE \E required \in BOOLEAN, max \in 1..MaxAttempts : CreateTask(t, required, max)
    <3>1. PICK required \in BOOLEAN, max \in 1..MaxAttempts : CreateTask(t, required, max)
      BY <2>1
    <3>2. max \in Nat \ {0} BY LeaseAssumption
    <3> QED BY <3>1, <3>2, CreatedInv DEF CreateTask
  <2>2. CASE Approve(t) BY <1>1, <2>0, <2>2, ApprovedInv DEF Approve
  <2>3. CASE Reject(t) BY <1>1, <2>0, <2>3, DecidedInv DEF Reject
  <2>5. CASE RearmApproval(t) BY <1>1, <2>0, <2>5, RearmedInv DEF RearmApproval
  <2>6. CASE ResumeTask(t) BY <1>1, <2>0, <2>6, ResumedInv DEF ResumeTask
  <2>7. CASE LeaseLapses(t)
    <3>1. task' = [task EXCEPT ![t] = [r EXCEPT !.live = FALSE]]
      BY <2>0, <2>7 DEF LeaseLapses
    <3> QED BY <1>1, <3>1, LapseInv
  <2>8. CASE ApprovalLapses(t)
    <3>1. task' = [task EXCEPT ![t] = [r EXCEPT !.fresh = FALSE]]
      BY <2>0, <2>8 DEF ApprovalLapses
    <3> QED BY <1>1, <3>1, LapseInv
  <2> QED BY <2>1, <2>2, <2>3, <2>5, <2>6, <2>7, <2>8
<1> QED BY <1>2, <1>3, RowStep

\* Every step of the specification preserves the inductive invariant.
LEMMA NextInv == IInv /\ [Next]_vars => IInv'
<1> SUFFICES ASSUME IInv, [Next]_vars PROVE IInv'
  OBVIOUS
<1>1. CASE UNCHANGED vars
  <2>1. task' = task /\ hold' = hold /\ paused' = paused BY <1>1 DEF vars
  <2> QED BY <2>1 DEF IInv, TypeOK, TokenPerRow, TokenPerWorker
<1>2. ASSUME NEW s \in Scopes, NEW pause \in BOOLEAN, SetControlScope(s, pause) PROVE IInv'
  <2>1. paused' \subseteq Scopes BY <1>2 DEF SetControlScope, IInv, TypeOK
  <2>2. task' = task /\ hold' = hold BY <1>2 DEF SetControlScope
  <2> QED BY <2>1, <2>2 DEF IInv, TypeOK, TokenPerRow, TokenPerWorker
<1>3. ASSUME NEW locked \in SUBSET Tasks, ReapTaskLeases(locked) PROVE IInv'
  <2> DEFINE rows == ReapExpired(task, locked)
  <2>1. /\ rows \in [Tasks -> Row]
        /\ \A u \in Tasks : RowInv(rows[u]) /\ rows[u].token \in {task[u].token, None}
    BY SweepInv
  <2>2. task' = rows /\ hold' = hold /\ paused' \subseteq Scopes
    BY <1>3 DEF ReapTaskLeases, IInv, TypeOK
  <2> HIDE DEF rows
  <2> QED BY <2>1, <2>2, RowsStep
<1>4. ASSUME NEW a \in Agents, Forget(a) PROVE IInv'
  <2>1. task' = task /\ paused' = paused BY <1>4 DEF Forget
  <2>2. hold' \in [Agents -> Holding \cup {NoHold}] BY <1>4 DEF Forget, IInv, TypeOK
  <2>3. \A b \in Agents : hold'[b].token \in {hold[b].token, None}
    BY <1>4 DEF Forget, IInv, TypeOK, NoHold
  <2>4. TokenPerWorker' BY <2>3 DEF IInv, TokenPerWorker
  <2> QED BY <2>1, <2>2, <2>4 DEF IInv, TypeOK, TokenPerRow
<1> QED BY <1>1, <1>2, <1>3, <1>4, RowActionInv, LeaseTaskInv, WorkerCallInv DEF Next

-----------------------------------------------------------------------------
(* What a new token costs.                                                 *)

\* The sweep on one row: reap_expired_leases, then expire_approvals.
LEMMA SweptRow ==
  ASSUME IInv, NEW locked, NEW t \in Tasks
  PROVE  /\ Swept(locked)[t].attempts = task[t].attempts
         /\ Swept(locked)[t].required = task[t].required
         /\ (Swept(locked)[t].approval = "approved" /\ Swept(locked)[t].fresh)
              => (task[t].approval = "approved" /\ task[t].fresh)
<1> DEFINE r == task[t]
           p == ReapExpired(task, locked)[t]
           q == Swept(locked)[t]
<1>1. RowInv(r) /\ r \in Row BY DEF IInv, RowInv
<1>2. /\ p.attempts = r.attempts /\ p.required = r.required
      /\ p = r \/ p.approval # "approved"
  <2>1. CASE LeaseExpired(r) /\ t \notin locked
    <3> DEFINE f == [r EXCEPT !.status = "failed", !.failure = "lease_expired"]
               g == Rearm(r)
    <3>1. p = Reaped(r) BY <2>1 DEF ReapExpired
    <3>2. Active(r) BY <2>1 DEF LeaseExpired
    <3>3. /\ f \in Row /\ f.attempts = r.attempts /\ f.required = r.required
          /\ f.approval # "approved"
      BY <1>1, <3>2, ActiveFields DEF Row, Statuses, TerminalTask, Failures
    <3>4. /\ g \in Row /\ g.attempts = r.attempts /\ g.required = r.required
          /\ g.approval # "approved"
      BY <1>1, <3>2, ActiveFields, RearmFields
    <3> HIDE DEF f, g
    <3>5. p = ClearLease(f) \/ p = ClearLease(g) BY <3>1 DEF Reaped, f, g
    <3>6. p.attempts = r.attempts /\ p.required = r.required /\ p.approval # "approved"
      BY <3>3, <3>4, <3>5, ClearLeaseFields
    <3> QED BY <3>6
  <2>2. CASE ~(LeaseExpired(r) /\ t \notin locked)
    BY <2>2 DEF ReapExpired
  <2> QED BY <2>1, <2>2
<1>3. RowInv(p) /\ p \in Row BY SweepInv DEF RowInv
<1>4. q = p \/ q = ExpireApproval(p) BY DEF Swept, ExpireApprovals
<1> HIDE DEF p, q
<1>5. /\ q.attempts = p.attempts /\ q.required = p.required
      /\ (q.approval = "approved" /\ q.fresh) => q = p
  <2>1. CASE p.approval = "approved" /\ ~p.fresh
    <3>1. p.status = "queued" BY <1>3, <2>1 DEF RowInv
    <3> QED BY <1>3, <1>4, <2>1, <3>1 DEF ExpireApproval, Row
  <2>2. CASE ~(p.approval = "approved" /\ ~p.fresh)
    BY <1>4, <2>2 DEF ExpireApproval
  <2> QED BY <2>1, <2>2
<1> QED BY <1>2, <1>5 DEF p, q

\* What a step that gives the row r a new token leaves and finds.
PaidFor(r, q) ==
  (q.token # None /\ q.token # r.token) =>
    /\ q.attempts = r.attempts + 1
    /\ r.required => r.approval = "approved" /\ r.fresh /\ q.approval = "consumed"

\* Only a lease draws a token, and it takes an attempt and a live approval for it.
LEMMA PaidStep ==
  ASSUME IInv, [Next]_vars
  PROVE  \A u \in Tasks : PaidFor(task[u], task'[u])
<1>1. TokensKept => \A u \in Tasks : PaidFor(task[u], task'[u]) BY DEF TokensKept, PaidFor
<1>2. CASE task' = task BY <1>2 DEF PaidFor
<1>3. ASSUME NEW locked, ReapTaskLeases(locked) PROVE TokensKept
  BY <1>3, SweepInv DEF ReapTaskLeases, TokensKept
<1>4. ASSUME NEW locked, NEW a \in Agents, LeaseTask(a, locked)
      PROVE  \A u \in Tasks : PaidFor(task[u], task'[u])
  <2> DEFINE rows == Swept(locked)
             ready == Candidates(rows, a, locked)
  <2>1. /\ rows \in [Tasks -> Row]
        /\ \A u \in Tasks : RowInv(rows[u]) /\ rows[u].token \in {task[u].token, None}
    BY SweepInv
  <2>2. CASE task' = rows BY <2>1, <2>2 DEF PaidFor
  <2>3. ASSUME NEW t \in First(ready), NEW k \in FreshTokens,
               task' = [rows EXCEPT ![t] = Leased(@, a, k)]
        PROVE  \A u \in Tasks : PaidFor(task[u], task'[u])
    <3> DEFINE r == rows[t]
               q == Leased(r, a, k)
    <3>1. t \in Tasks /\ Leasable(r) BY DEF First, Candidates
    <3>2. /\ r.attempts = task[t].attempts /\ r.required = task[t].required
          /\ (r.approval = "approved" /\ r.fresh)
               => (task[t].approval = "approved" /\ task[t].fresh)
      BY <3>1, SweptRow
    <3>3. r \in Row BY <2>1, <3>1
    <3>4. task'[t] = q /\ \A u \in Tasks \ {t} : task'[u] = rows[u]
      BY <2>1, <2>3, <3>1
    <3> HIDE DEF r, rows, ready
    <3>5. q.attempts = r.attempts + 1 /\ (r.required => q.approval = "consumed")
      BY <3>3 DEF Leased, ConsumeApproval, Row
    <3>6. r.required => r.approval = "approved" /\ r.fresh
      BY <3>1 DEF Leasable, ApprovalValid
    <3>7. PaidFor(task[t], task'[t])
      BY <3>2, <3>4, <3>5, <3>6 DEF PaidFor
    <3>8. \A u \in Tasks \ {t} : PaidFor(task[u], task'[u])
      BY <2>1, <3>4 DEF PaidFor
    <3> QED BY <3>7, <3>8
  <2> QED BY <1>4, <2>2, <2>3 DEF LeaseTask
<1> QED BY <1>1, <1>2, <1>3, <1>4, RowActionInv, WorkerCallInv
      DEF Next, vars, SetControlScope, Forget

-----------------------------------------------------------------------------
(* The theorems.                                                           *)

\* The inductive invariant holds throughout every behaviour of TaskLease.
THEOREM InductiveInvariant == Spec => []IInv
BY InitInv, NextInv, PTL DEF Spec

\* Every table, worker memory and pause set the services produce is well formed.
THEOREM TypeCorrect == Spec => []TypeOK
<1>1. IInv => TypeOK BY DEF IInv
<1> QED BY <1>1, InductiveInvariant, PTL

\* Status and lease columns never fall out of step (clear_lease, lease_next_task).
THEOREM LeaseCoherence == Spec => []LeaseCoherent
<1>1. IInv => LeaseCoherent BY DEF IInv, RowInv, LeaseCoherent
<1> QED BY <1>1, InductiveInvariant, PTL

\* No gated task is queued or executed without its own founder approval.
THEOREM ApprovalGated == Spec => []ApprovalGate
<1>1. IInv => ApprovalGate BY DEF IInv, RowInv, ApprovalGate
<1> QED BY <1>1, InductiveInvariant, PTL

\* Attempts never exceed their budget and a waiting task can always be leased again.
THEOREM AttemptsBudgeted == Spec => []AttemptBudget
<1>1. IInv => AttemptBudget BY DEF IInv, RowInv, AttemptBudget
<1> QED BY <1>1, InductiveInvariant, PTL

\* Every new token costs an attempt and, on a gated task, the approval it consumes.
THEOREM EveryTokenPaidFor == Spec => TokenIsPaidFor
<1>1. IInv /\ [Next]_vars
        => [\A t \in Tasks :
              (task'[t].token # None /\ task'[t].token # task[t].token) =>
                /\ task'[t].attempts = task[t].attempts + 1
                /\ task[t].required =>
                     task[t].approval = "approved" /\ task[t].fresh
                       /\ task'[t].approval = "consumed"]_vars
  BY PaidStep DEF PaidFor
<1> QED BY <1>1, InductiveInvariant, PTL DEF Spec, TokenIsPaidFor

-----------------------------------------------------------------------------
(* What survives the race of ApprovalRace.                                 *)

\* All that a late decision leaves true of a row.
BoundRow(r) == r \in Row /\ r.attempts <= r.max

\* A change of a row that draws no token.
Contained(r, q) == BoundRow(q) /\ q.token \in {r.token, None}

\* A decision in flight is about a task.
Deciding == [task : Tasks, action : Actions, seen : Statuses]

RaceInv ==
  /\ TypeOK
  /\ \A t \in Tasks : BoundRow(task[t])
  /\ TokenPerRow
  /\ TokenPerWorker
  /\ decision \in [Deciders -> Deciding \cup {Idle}]

-----------------------------------------------------------------------------
(* Changes of one row.                                                     *)

\* rearm_task_approval followed by clear_lease
LEMMA RearmContained ==
  ASSUME NEW r, BoundRow(r)
  PROVE  Contained(r, Rearm(r)) /\ Contained(r, ClearLease(Rearm(r)))
<1>1. /\ Rearm(r) \in Row /\ Rearm(r).token = r.token
      /\ Rearm(r).attempts = r.attempts /\ Rearm(r).max = r.max
  BY RearmFields DEF BoundRow
<1>2. /\ ClearLease(Rearm(r)) \in Row /\ ClearLease(Rearm(r)).token = None
      /\ ClearLease(Rearm(r)).attempts = r.attempts /\ ClearLease(Rearm(r)).max = r.max
  BY <1>1, ClearLeaseFields
<1> QED BY <1>1, <1>2 DEF Contained, BoundRow

\* A new status and failure, with or without clear_lease
LEMMA StatusContained ==
  ASSUME NEW r, BoundRow(r), NEW s \in Statuses, NEW f \in Failures
  PROVE  LET q == [r EXCEPT !.status = s, !.failure = f]
         IN  Contained(r, q) /\ Contained(r, ClearLease(q))
<1> DEFINE q == [r EXCEPT !.status = s, !.failure = f]
<1>1. q \in Row /\ q.token = r.token /\ q.attempts = r.attempts /\ q.max = r.max
  BY DEF BoundRow, Row
<1> HIDE DEF q
<1>2. /\ ClearLease(q) \in Row /\ ClearLease(q).token = None
      /\ ClearLease(q).attempts = q.attempts /\ ClearLease(q).max = q.max
  BY <1>1, ClearLeaseFields
<1>3. Contained(r, q) /\ Contained(r, ClearLease(q))
  BY <1>1, <1>2 DEF Contained, BoundRow
<1> QED BY <1>3 DEF q

\* approve_task and decide_task as atomic requests, and the clock
LEMMA DecidedContained ==
  ASSUME NEW r, BoundRow(r)
  PROVE  /\ Contained(r, Approved(r)) /\ Contained(r, Rejected(r)) /\ Contained(r, Revoked(r))
         /\ Contained(r, [r EXCEPT !.live = FALSE])
         /\ Contained(r, [r EXCEPT !.fresh = FALSE])
BY DEF Contained, BoundRow, Row, Approved, Rejected, Revoked, Statuses, Approvals, TerminalTask

\* The flush of a late decision: the outcome, with the status the row has now when the
\* decision does not change the status that was read.
LEMMA LateContained ==
  ASSUME NEW r, BoundRow(r), NEW action \in Actions, NEW seen
  PROVE  Contained(r, [Outcome(action, r) EXCEPT
                         !.status = IF @ = seen THEN r.status ELSE @])
<1> DEFINE p == Outcome(action, r)
           q == [p EXCEPT !.status = IF @ = seen THEN r.status ELSE @]
<1>1. p \in Row /\ p.attempts = r.attempts /\ p.max = r.max /\ p.token = r.token
  BY DEF Outcome, Actions, BoundRow, Row, Approved, Rejected, Revoked, Statuses, Approvals,
    TerminalTask
<1> HIDE DEF p
<1>2. q \in Row /\ q.attempts = p.attempts /\ q.max = p.max /\ q.token = p.token
  BY <1>1 DEF BoundRow, Row
<1> HIDE DEF q
<1>3. Contained(r, q) BY <1>1, <1>2 DEF Contained, BoundRow
<1> QED BY <1>3 DEF p, q

\* resume_failed_task
LEMMA ResumedContained ==
  ASSUME NEW r, BoundRow(r)
  PROVE  Contained(r, Resumed(r))
<1> DEFINE m == [r EXCEPT !.max = IF r.max > r.attempts THEN r.max ELSE r.attempts + 1]
<1>1. m \in Row /\ m.attempts <= m.max /\ m.token = r.token
  BY DEF BoundRow, Row
<1> HIDE DEF m
<1>2. Contained(m, Rearm(m)) BY <1>1, RearmContained DEF BoundRow
<1>3. Contained(r, Rearm(m)) BY <1>1, <1>2 DEF Contained
<1> QED BY <1>3 DEF m, Resumed

\* reap_expired_leases and expire_approvals
LEMMA SweepContained ==
  ASSUME NEW r, BoundRow(r)
  PROVE  Contained(r, Reaped(r)) /\ Contained(r, ExpireApproval(r))
<1>1. Contained(r, Reaped(r))
  <2>1. "failed" \in Statuses /\ "lease_expired" \in Failures
    BY DEF Statuses, TerminalTask, Failures
  <2> QED BY <2>1, StatusContained, RearmContained DEF Reaped
<1>2. Contained(r, ExpireApproval(r))
  <2> DEFINE s == IF r.status = "queued" THEN "pending_approval" ELSE r.status
  <2>1. s \in Statuses BY DEF BoundRow, Row, Statuses
  <2> HIDE DEF s
  <2>2. Contained(r, [r EXCEPT !.approval = "expired", !.status = s])
    BY <2>1 DEF Contained, BoundRow, Row, Approvals
  <2>3. Contained(r, r) BY DEF Contained
  <2> QED BY <2>2, <2>3 DEF ExpireApproval, s
<1> QED BY <1>1, <1>2

\* start_task, heartbeat_task, complete_task, fail_task and release_task
LEMMA CallContained ==
  ASSUME NEW r, BoundRow(r), NEW retryable \in BOOLEAN
  PROVE  /\ Contained(r, Started(r)) /\ Contained(r, Heartbeaten(r))
         /\ Contained(r, Succeeded(r)) /\ Contained(r, Released(r))
         /\ Contained(r, Failed(r, retryable, FALSE))
<1>1. Contained(r, Started(r)) /\ Contained(r, Heartbeaten(r))
  BY DEF Contained, BoundRow, Row, Started, Heartbeaten, Statuses, ActiveLease
<1>2. Contained(r, Succeeded(r))
  <2>1. "succeeded" \in Statuses /\ "none" \in Failures
    BY DEF Statuses, TerminalTask, Failures
  <2> QED BY <2>1, StatusContained DEF Succeeded
<1>3. Contained(r, Released(r))
  <2> DEFINE c == [r EXCEPT !.attempts = EffectiveAttempts(r)]
             x == [c EXCEPT !.status = "cancelled"]
             f == [c EXCEPT !.status = "failed", !.failure = "lease_released"]
  <2>1. EffectiveAttempts(r) \in Nat /\ EffectiveAttempts(r) <= r.max
    BY DEF EffectiveAttempts, BoundRow, Row
  <2>2. BoundRow(c) /\ c.token = r.token
    BY <2>1 DEF BoundRow, Row
  <2> HIDE DEF c
  <2>3. x = [c EXCEPT !.status = "cancelled", !.failure = c.failure] /\ c.failure \in Failures
    BY <2>2 DEF BoundRow, Row
  <2>4. "cancelled" \in Statuses /\ "failed" \in Statuses /\ "lease_released" \in Failures
    BY DEF Statuses, TerminalTask, Failures
  <2>5. /\ Contained(c, ClearLease(x)) /\ Contained(c, ClearLease(f))
        /\ Contained(c, ClearLease(Rearm(c)))
    BY <2>2, <2>3, <2>4, StatusContained, RearmContained
  <2> HIDE DEF x, f
  <2>6. /\ Contained(r, ClearLease(x)) /\ Contained(r, ClearLease(f))
        /\ Contained(r, ClearLease(Rearm(c)))
    BY <2>2, <2>5 DEF Contained
  <2> QED BY <2>6 DEF Released, c, x, f
<1>4. Contained(r, Failed(r, retryable, FALSE))
  <2> DEFINE n == IF retryable THEN "retryable" ELSE "final"
             m == [r EXCEPT !.failure = n]
             f == [m EXCEPT !.status = "failed"]
  <2>1. n \in Failures BY DEF Failures
  <2> HIDE DEF n
  <2>2. BoundRow(m) /\ m.token = r.token BY <2>1 DEF BoundRow, Row
  <2>3. f = [r EXCEPT !.status = "failed", !.failure = n] BY DEF BoundRow, Row
  <2>4. "failed" \in Statuses BY DEF Statuses, TerminalTask
  <2>5. Contained(r, ClearLease(f)) BY <2>1, <2>3, <2>4, StatusContained
  <2> HIDE DEF m, f
  <2>6. Contained(r, ClearLease(Rearm(m))) BY <2>2, RearmContained DEF Contained
  <2> QED BY <2>5, <2>6 DEF Failed, n, m, f
<1> QED BY <1>1, <1>2, <1>3, <1>4

\* lease_next_task on the chosen row
LEMMA LeasedBound ==
  ASSUME NEW r, BoundRow(r), Leasable(r), NEW a \in Agents, NEW k \in Tokens
  PROVE  /\ BoundRow(Leased(r, a, k)) /\ Leased(r, a, k).token = k
         /\ Leased(r, a, k).attempts = r.attempts + 1
<1> DEFINE c == ConsumeApproval(r)
           q == [c EXCEPT !.status = "leased", !.agent = a, !.attempts = @ + 1,
                          !.token = k, !.live = TRUE, !.failure = "none"]
<1>1. c \in Row /\ c.attempts = r.attempts /\ c.max = r.max
  BY DEF BoundRow, Row, ConsumeApproval, Approvals
<1>2. r.attempts < r.max /\ r.attempts \in Nat /\ r.max \in Nat
  BY DEF Leasable, BoundRow, Row
<1> HIDE DEF c
<1>3. q \in Row /\ q.attempts = c.attempts + 1 /\ q.max = c.max /\ q.token = k
  <2>1. c.attempts + 1 \in Nat BY <1>1, <1>2
  <2>2. "leased" \in Statuses /\ "none" \in Failures
    BY DEF Statuses, ActiveLease, Failures
  <2> QED BY <1>1, <2>1, <2>2 DEF Row
<1> HIDE DEF q
<1>4. BoundRow(q) BY <1>1, <1>2, <1>3 DEF BoundRow
<1> QED BY <1>1, <1>3, <1>4 DEF c, q, Leased

-----------------------------------------------------------------------------
(* Whole steps.                                                            *)

\* What a step that gives the row r a new token finds; compare PaidFor.
RacePaid(r, q) ==
  (q.token # None /\ q.token # r.token) =>
    /\ q.attempts = r.attempts + 1
    /\ r.required => r.approval = "approved" /\ r.fresh

Flight == decision' \in [Deciders -> Deciding \cup {Idle}]

\* Rows that change without a new token, with the workers' memory untouched, keep the
\* invariant.
LEMMA RaceRowsStep ==
  ASSUME RaceInv, NEW rows, rows \in [Tasks -> Row],
         \A t \in Tasks : Contained(task[t], rows[t]),
         task' = rows, hold' = hold, paused' \subseteq Scopes, Flight
  PROVE  RaceInv' /\ TokensKept
<1>1. TokensKept /\ \A t \in Tasks : BoundRow(task'[t])
  BY DEF Contained, TokensKept
<1>2. TypeOK' /\ TokenPerWorker' BY DEF RaceInv, TypeOK, TokenPerWorker
<1>3. TokenPerRow' BY <1>1 DEF RaceInv, TokensKept, TokenPerRow
<1> QED BY <1>1, <1>2, <1>3 DEF RaceInv, Flight

\* The same for a step that rewrites one row.
LEMMA RaceRowStep ==
  ASSUME RaceInv, NEW t \in Tasks, NEW q, Contained(task[t], q),
         task' = [task EXCEPT ![t] = q], hold' = hold, paused' \subseteq Scopes, Flight
  PROVE  RaceInv' /\ TokensKept
<1> DEFINE rows == [task EXCEPT ![t] = q]
<1>1. q \in Row BY DEF Contained, BoundRow
<1>2. task \in [Tasks -> Row] BY DEF RaceInv, TypeOK
<1>3. rows \in [Tasks -> Row] BY <1>1, <1>2
<1>4. \A u \in Tasks : Contained(task[u], rows[u])
  <2> SUFFICES ASSUME NEW u \in Tasks PROVE Contained(task[u], rows[u])
    OBVIOUS
  <2>1. CASE u = t BY <1>2, <2>1
  <2>2. CASE u # t BY <1>2, <2>2 DEF RaceInv, Contained
  <2> QED BY <2>1, <2>2
<1> HIDE DEF rows
<1>5. task' = rows BY DEF rows
<1> QED BY <1>3, <1>4, <1>5, RaceRowsStep

\* The sweep of a poll, and what a row that it leaves leasable was before it.
LEMMA RaceSweep ==
  ASSUME RaceInv, NEW locked
  PROVE  /\ ReapExpired(task, locked) \in [Tasks -> Row]
         /\ \A t \in Tasks : Contained(task[t], ReapExpired(task, locked)[t])
         /\ Swept(locked) \in [Tasks -> Row]
         /\ \A t \in Tasks :
              LET q == Swept(locked)[t]
              IN  /\ Contained(task[t], q)
                  /\ q.attempts = task[t].attempts /\ q.required = task[t].required
                  /\ (q.status = "queued" /\ q.required /\ q.approval = "approved" /\ q.fresh)
                       => (task[t].approval = "approved" /\ task[t].fresh)
<1> DEFINE reaped == ReapExpired(task, locked)
           swept == Swept(locked)
           Paid(r, q) ==
             /\ Contained(r, q) /\ q.attempts = r.attempts /\ q.required = r.required
             /\ (q.status = "queued" /\ q.required /\ q.approval = "approved" /\ q.fresh)
                  => (r.approval = "approved" /\ r.fresh)
<1>1. \A t \in Tasks : Paid(task[t], reaped[t])
  <2> SUFFICES ASSUME NEW t \in Tasks PROVE Paid(task[t], reaped[t])
    OBVIOUS
  <2> DEFINE r == task[t]
  <2>1. BoundRow(r) /\ r \in Row BY DEF RaceInv, BoundRow
  <2>2. CASE LeaseExpired(r) /\ t \notin locked
    <3> DEFINE f == [r EXCEPT !.status = "failed", !.failure = "lease_expired"]
               g == Rearm(r)
    <3>1. reaped[t] = Reaped(r) BY <2>2 DEF ReapExpired
    <3>2. Contained(r, Reaped(r)) BY <2>1, SweepContained
    <3>3. /\ f \in Row /\ f.attempts = r.attempts /\ f.required = r.required
          /\ f.status = "failed"
      BY <2>1 DEF Row, Statuses, TerminalTask, Failures
    <3>4. /\ g \in Row /\ g.attempts = r.attempts /\ g.required = r.required
          /\ g.required => g.status = "pending_approval"
      BY <2>1, RearmFields
    <3> HIDE DEF f, g
    <3>5. Reaped(r) = ClearLease(f) \/ Reaped(r) = ClearLease(g) BY DEF Reaped, f, g
    <3>6. /\ Reaped(r).attempts = r.attempts /\ Reaped(r).required = r.required
          /\ Reaped(r).required => Reaped(r).status # "queued"
      BY <3>3, <3>4, <3>5, ClearLeaseFields
    <3> QED BY <3>1, <3>2, <3>6
  <2>3. CASE ~(LeaseExpired(r) /\ t \notin locked)
    <3>1. reaped[t] = r BY <2>3 DEF ReapExpired
    <3> QED BY <2>1, <3>1 DEF Contained
  <2> QED BY <2>2, <2>3
<1>2. reaped \in [Tasks -> Row]
  <2>1. \A t \in Tasks : reaped[t] \in Row BY <1>1 DEF Contained, BoundRow
  <2> QED BY <2>1 DEF ReapExpired
<1>3. \A t \in Tasks : Paid(task[t], swept[t])
  <2> SUFFICES ASSUME NEW t \in Tasks PROVE Paid(task[t], swept[t])
    OBVIOUS
  <2> DEFINE p == reaped[t]
             q == swept[t]
  <2>1. Paid(task[t], p) /\ BoundRow(p) /\ p \in Row BY <1>1, <1>2 DEF Contained
  <2>2. q = p \/ q = ExpireApproval(p) BY DEF Swept, ExpireApprovals
  <2> HIDE DEF p, q
  <2>3. Contained(p, q) BY <2>1, <2>2, SweepContained DEF Contained
  <2>4. /\ q.attempts = p.attempts /\ q.required = p.required
        /\ q = p \/ q.approval = "expired"
    BY <2>1, <2>2 DEF ExpireApproval, Row
  <2>5. Contained(task[t], q) BY <2>1, <2>3 DEF Contained
  <2>6. Paid(task[t], q) BY <2>1, <2>4, <2>5
  <2> QED BY <2>6 DEF q
<1>4. swept \in [Tasks -> Row]
  <2>1. \A t \in Tasks : swept[t] \in Row BY <1>3 DEF Contained, BoundRow
  <2> QED BY <2>1 DEF Swept, ExpireApprovals
<1> QED BY <1>1, <1>2, <1>3, <1>4

\* A poll: the sweep, then at most one lease under a fresh token, which is paid for.
LEMMA RaceLeaseStep ==
  ASSUME RaceInv, NEW a \in Agents, NEW locked, LeaseTask(a, locked), Flight
  PROVE  RaceInv' /\ \A u \in Tasks : RacePaid(task[u], task'[u])
<1> DEFINE rows == Swept(locked)
           ready == Candidates(rows, a, locked)
<1>1. /\ rows \in [Tasks -> Row]
      /\ \A u \in Tasks : Contained(task[u], rows[u])
  BY RaceSweep
<1>2. paused' \subseteq Scopes BY DEF LeaseTask, RaceInv, TypeOK
<1>3. CASE task' = rows /\ hold' = hold
  <2> HIDE DEF rows
  <2>1. RaceInv' /\ TokensKept BY <1>1, <1>2, <1>3, RaceRowsStep
  <2> QED BY <2>1 DEF TokensKept, RacePaid
<1>4. ASSUME NEW t \in First(ready), NEW k \in FreshTokens,
             task' = [rows EXCEPT ![t] = Leased(@, a, k)],
             hold' = [hold EXCEPT ![a] = [task |-> t, token |-> k]]
      PROVE  RaceInv' /\ \A u \in Tasks : RacePaid(task[u], task'[u])
  <2> DEFINE r == rows[t]
             q == Leased(r, a, k)
  <2>1. t \in Tasks /\ Leasable(r) BY DEF First, Candidates
  <2>2. k \in Tokens /\ (\A u \in Tasks : task[u].token # k) /\ (\A b \in Agents : hold[b].token # k)
    BY DEF FreshTokens
  <2>3. BoundRow(q) /\ q.token = k /\ q.attempts = r.attempts + 1
    BY <1>1, <2>1, <2>2, LeasedBound DEF Contained
  <2>4. q \in Row BY <2>3 DEF BoundRow
  <2>5. task' = [rows EXCEPT ![t] = q] BY <1>1, <1>4, <2>1
  <2>6. /\ r.attempts = task[t].attempts /\ r.required = task[t].required
        /\ (r.status = "queued" /\ r.required /\ r.approval = "approved" /\ r.fresh)
             => (task[t].approval = "approved" /\ task[t].fresh)
    BY <2>1, RaceSweep
  <2>7. RacePaid(task[t], q)
    BY <2>1, <2>3, <2>6 DEF RacePaid, Leasable, ApprovalValid
  <2> HIDE DEF q, r, rows, ready
  <2>8. task' \in [Tasks -> Row] BY <1>1, <2>4, <2>5
  <2>9. task'[t] = q /\ \A u \in Tasks \ {t} : task'[u] = rows[u] BY <1>1, <2>1, <2>5
  <2>10. \A w \in Tasks \ {t} : BoundRow(task'[w]) /\ task'[w].token \in {task[w].token, None}
    BY <1>1, <2>9 DEF Contained
  <2>11. TokenPerRow'
    <3> SUFFICES ASSUME NEW u \in Tasks, NEW v \in Tasks,
                        task'[u].token # None, task'[u].token = task'[v].token
                 PROVE  u = v
      BY DEF TokenPerRow
    <3>1. CASE u # t /\ v # t BY <2>10, <3>1 DEF RaceInv, TokenPerRow
    <3>2. CASE u = t /\ v # t BY <2>2, <2>3, <2>9, <2>10, <3>2, NoneAssumption
    <3>3. CASE u # t /\ v = t BY <2>2, <2>3, <2>9, <2>10, <3>3, NoneAssumption
    <3> QED BY <3>1, <3>2, <3>3
  <2>12. hold \in [Agents -> Holding \cup {NoHold}] BY DEF RaceInv, TypeOK
  <2>13. [task |-> t, token |-> k] \in Holding BY <2>1, <2>2 DEF Holding
  <2>14. hold' \in [Agents -> Holding \cup {NoHold}] BY <1>4, <2>12, <2>13
  <2>15. hold'[a].token = k /\ \A b \in Agents \ {a} : hold'[b] = hold[b] BY <1>4, <2>12
  <2>16. TokenPerWorker' BY <2>2, <2>15 DEF RaceInv, TokenPerWorker
  <2>17. RaceInv'
    BY <1>2, <2>3, <2>8, <2>9, <2>10, <2>11, <2>14, <2>16 DEF RaceInv, TypeOK, Flight
  <2>18. \A u \in Tasks : RacePaid(task[u], task'[u])
    BY <2>7, <2>9, <2>10 DEF RacePaid
  <2> QED BY <2>17, <2>18
<1> QED BY <1>3, <1>4 DEF LeaseTask

\* Worker calls under a verified lease rewrite the one row the token belongs to.
LEMMA RaceWorkerCall ==
  ASSUME RaceInv, Flight, NEW a \in Agents,
         StartTask(a) \/ HeartbeatTask(a) \/ CompleteTask(a) \/ ReleaseTask(a)
           \/ \E retryable \in BOOLEAN : FailTask(a, retryable)
  PROVE  RaceInv' /\ TokensKept
<1> DEFINE t == hold[a].task
           r == task[t]
<1>1. hold[a] # NoHold
  BY DEF StartTask, HeartbeatTask, CompleteTask, ReleaseTask, FailTask, Verified
<1>2. t \in Tasks BY <1>1 DEF RaceInv, TypeOK, Holding
<1>3. BoundRow(r) BY <1>2 DEF RaceInv
<1>4. hold' = hold /\ paused' \subseteq Scopes
  BY DEF StartTask, HeartbeatTask, CompleteTask, ReleaseTask, FailTask, RaceInv, TypeOK
<1>5. task \in [Tasks -> Row] BY DEF RaceInv, TypeOK
<1>6. PICK q : Contained(r, q) /\ task' = [task EXCEPT ![t] = q]
  <2>1. CASE StartTask(a) \/ HeartbeatTask(a) \/ CompleteTask(a) \/ ReleaseTask(a)
    BY <1>2, <1>3, <1>5, <2>1, CallContained
      DEF StartTask, HeartbeatTask, CompleteTask, ReleaseTask
  <2>2. CASE \E retryable \in BOOLEAN : FailTask(a, retryable)
    <3>1. PICK retryable \in BOOLEAN : FailTask(a, retryable) BY <2>2
    <3>2. Contained(r, Failed(r, retryable, FALSE)) BY <1>3, CallContained
    <3> QED BY <1>2, <1>5, <3>1, <3>2 DEF FailTask
  <2> QED BY <2>1, <2>2
<1> QED BY <1>2, <1>4, <1>6, RaceRowStep

\* Atomic requests of operators, and the clock, rewrite one row.
LEMMA RaceRowAction ==
  ASSUME RaceInv, Flight, NEW t \in Tasks,
         \/ \E required \in BOOLEAN, max \in 1..MaxAttempts : CreateTask(t, required, max)
         \/ Approve(t) \/ Reject(t) \/ RearmApproval(t) \/ ResumeTask(t)
         \/ LeaseLapses(t) \/ ApprovalLapses(t)
  PROVE  RaceInv' /\ TokensKept
<1> DEFINE r == task[t]
<1>1. BoundRow(r) BY DEF RaceInv
<1>2. hold' = hold /\ paused' \subseteq Scopes
  BY DEF CreateTask, Approve, Reject, RearmApproval, ResumeTask, LeaseLapses,
    ApprovalLapses, RaceInv, TypeOK
<1>3. task \in [Tasks -> Row] BY DEF RaceInv, TypeOK
<1>4. PICK q : Contained(r, q) /\ task' = [task EXCEPT ![t] = q]
  <2>1. CASE \E required \in BOOLEAN, max \in 1..MaxAttempts : CreateTask(t, required, max)
    <3>1. PICK required \in BOOLEAN, max \in 1..MaxAttempts : CreateTask(t, required, max)
      BY <2>1
    <3>2. max \in Nat \ {0} BY LeaseAssumption
    <3>3. Contained(r, Created(required, max))
      BY <3>2, CreatedInv DEF Contained, BoundRow, RowInv
    <3> QED BY <3>1, <3>3 DEF CreateTask
  <2>2. CASE Approve(t) \/ Reject(t)
    BY <1>1, <1>3, <2>2, DecidedContained DEF Approve, Reject
  <2>3. CASE RearmApproval(t) BY <1>1, <1>3, <2>3, RearmContained DEF RearmApproval
  <2>4. CASE ResumeTask(t) BY <1>1, <1>3, <2>4, ResumedContained DEF ResumeTask
  <2>5. CASE LeaseLapses(t)
    <3>1. task' = [task EXCEPT ![t] = [r EXCEPT !.live = FALSE]]
      BY <1>3, <2>5 DEF LeaseLapses
    <3> QED BY <1>1, <3>1, DecidedContained
  <2>6. CASE ApprovalLapses(t)
    <3>1. task' = [task EXCEPT ![t] = [r EXCEPT !.fresh = FALSE]]
      BY <1>3, <2>6 DEF ApprovalLapses
    <3> QED BY <1>1, <3>1, DecidedContained
  <2> QED BY <2>1, <2>2, <2>3, <2>4, <2>5, <2>6
<1> QED BY <1>2, <1>4, RaceRowStep

\* The three statements of a decision in flight.
LEMMA RaceDecision ==
  ASSUME RaceInv, NEW d \in Deciders,
         \/ \E t \in Tasks, action \in Actions : ReadApproval(d, t, action)
         \/ ReadTask(d)
         \/ WriteDecision(d)
  PROVE  RaceInv' /\ TokensKept
<1>1. decision \in [Deciders -> Deciding \cup {Idle}] /\ task \in [Tasks -> Row]
  BY DEF RaceInv, TypeOK
<1>2. task' = task /\ hold' = hold /\ paused' = paused /\ Flight => RaceInv' /\ TokensKept
  BY DEF RaceInv, TypeOK, TokenPerRow, TokenPerWorker, TokensKept, Flight
<1>3. ASSUME NEW t \in Tasks, NEW action \in Actions, ReadApproval(d, t, action)
      PROVE  RaceInv' /\ TokensKept
  <2>1. "absent" \in Statuses BY DEF Statuses
  <2>2. [task |-> t, action |-> action, seen |-> "absent"] \in Deciding
    BY <2>1 DEF Deciding
  <2>3. Flight BY <1>1, <1>3, <2>2 DEF ReadApproval, Flight
  <2> QED BY <1>2, <1>3, <2>3 DEF ReadApproval, vars
<1>4. CASE ReadTask(d)
  <2> DEFINE e == decision[d]
             s == task[e.task].status
  <2>1. e \in Deciding BY <1>1, <1>4 DEF ReadTask
  <2>2. s \in Statuses BY <1>1, <2>1 DEF Deciding, Row
  <2>3. [e EXCEPT !.seen = s] \in Deciding BY <2>1, <2>2 DEF Deciding
  <2>4. decision' = [decision EXCEPT ![d] = [e EXCEPT !.seen = s]] BY <1>1, <1>4 DEF ReadTask
  <2> HIDE DEF e, s
  <2>5. Flight BY <1>1, <2>3, <2>4 DEF Flight
  <2> QED BY <1>2, <1>4, <2>5 DEF ReadTask, vars
<1>5. CASE WriteDecision(d)
  <2> DEFINE e == decision[d]
             r == task[e.task]
             q == [Outcome(e.action, r) EXCEPT !.status = IF @ = e.seen THEN r.status ELSE @]
  <2>1. e \in Deciding BY <1>1, <1>5 DEF WriteDecision
  <2>2. e.task \in Tasks /\ e.action \in Actions BY <2>1 DEF Deciding
  <2>3. BoundRow(r) BY <2>2 DEF RaceInv
  <2>4. Contained(r, q) BY <2>2, <2>3, LateContained
  <2>5. task' = [task EXCEPT ![e.task] = q] BY <1>5 DEF WriteDecision
  <2>6. hold' = hold /\ paused' \subseteq Scopes BY <1>5 DEF WriteDecision, RaceInv, TypeOK
  <2>7. Flight BY <1>1, <1>5 DEF WriteDecision, Flight
  <2> HIDE DEF q, e
  <2> QED BY <2>2, <2>4, <2>5, <2>6, <2>7, RaceRowStep
<1> QED BY <1>3, <1>4, <1>5

\* Every step keeps the invariant, and pays for the token it gives.
LEMMA RaceStep ==
  ASSUME RaceInv, [RaceNext]_raceVars
  PROVE  RaceInv' /\ \A u \in Tasks : RacePaid(task[u], task'[u])
<1>0. TokensKept => \A u \in Tasks : RacePaid(task[u], task'[u]) BY DEF TokensKept, RacePaid
<1>1. CASE UNCHANGED raceVars
  BY <1>1 DEF raceVars, vars, RaceInv, TypeOK, TokenPerRow, TokenPerWorker, RacePaid
<1>2. ASSUME NEW d \in Deciders,
             \/ \E t \in Tasks, action \in Actions : ReadApproval(d, t, action)
             \/ ReadTask(d)
             \/ WriteDecision(d)
      PROVE  RaceInv' /\ TokensKept
  BY <1>2, RaceDecision
<1>3. ASSUME Next, UNCHANGED decision
      PROVE  RaceInv' /\ \A u \in Tasks : RacePaid(task[u], task'[u])
  <2>1. Flight BY <1>3 DEF Flight, RaceInv
  <2>2. ASSUME NEW s \in Scopes, NEW pause \in BOOLEAN, SetControlScope(s, pause)
        PROVE  RaceInv' /\ TokensKept
    <3>1. paused' \subseteq Scopes BY <2>2 DEF SetControlScope, RaceInv, TypeOK
    <3>2. task' = task /\ hold' = hold BY <2>2 DEF SetControlScope
    <3> QED BY <2>1, <3>1, <3>2
          DEF RaceInv, TypeOK, TokenPerRow, TokenPerWorker, TokensKept, Flight
  <2>3. ASSUME NEW locked, ReapTaskLeases(locked) PROVE RaceInv' /\ TokensKept
    <3> DEFINE rows == ReapExpired(task, locked)
    <3>1. rows \in [Tasks -> Row] /\ \A u \in Tasks : Contained(task[u], rows[u])
      BY RaceSweep
    <3>2. task' = rows /\ hold' = hold /\ paused' \subseteq Scopes
      BY <2>3 DEF ReapTaskLeases, RaceInv, TypeOK
    <3> HIDE DEF rows
    <3> QED BY <2>1, <3>1, <3>2, RaceRowsStep
  <2>4. ASSUME NEW a \in Agents, Forget(a) PROVE RaceInv' /\ TokensKept
    <3>1. task' = task /\ paused' = paused BY <2>4 DEF Forget
    <3>2. hold' \in [Agents -> Holding \cup {NoHold}] BY <2>4 DEF Forget, RaceInv, TypeOK
    <3>3. \A b \in Agents : hold'[b].token \in {hold[b].token, None}
      BY <2>4 DEF Forget, RaceInv, TypeOK, NoHold
    <3>4. TokenPerWorker' BY <3>3 DEF RaceInv, TokenPerWorker
    <3> QED BY <2>1, <3>1, <3>2, <3>4 DEF RaceInv, TypeOK, TokenPerRow, TokensKept, Flight
  <2> QED BY <1>0, <1>3, <2>1, <2>2, <2>3, <2>4, RaceRowAction, RaceLeaseStep, RaceWorkerCall
        DEF Next
<1> QED BY <1>0, <1>1, <1>2, <1>3 DEF RaceNext

\* The first state: no rows, nothing remembered, nothing in flight.
LEMMA RaceInitInv == RaceInit => RaceInv
<1> SUFFICES ASSUME RaceInit PROVE RaceInv
  OBVIOUS
<1>1. IInv BY InitInv DEF RaceInit
<1>2. \A t \in Tasks : BoundRow(task[t]) BY <1>1 DEF IInv, RowInv, BoundRow
<1>3. decision \in [Deciders -> Deciding \cup {Idle}] BY DEF RaceInit
<1> QED BY <1>1, <1>2, <1>3 DEF IInv, RaceInv

-----------------------------------------------------------------------------
(* Finished tasks.                                                         *)

\* An approval that is asked for belongs to a task that waits for it.
PendingRow(r) == r.approval = "pending" => r.status = "pending_approval"

\* A change that leaves a finished task finished.
Settled(r, q) == PendingRow(q) /\ (r.status \in TerminalTask => q.status = r.status)

\* rearm_task_approval on a row that is not finished and asks for nothing yet, or waits.
LEMMA RearmSettled ==
  ASSUME NEW r \in Row, PendingRow(r), r.required \/ r.approval # "pending"
  PROVE  /\ PendingRow(Rearm(r)) /\ PendingRow(ClearLease(Rearm(r)))
         /\ Rearm(r) \in Row
<1>1. PendingRow(Rearm(r)) /\ Rearm(r) \in Row
  BY DEF PendingRow, Rearm, Row, Statuses, Approvals
<1>2. ClearLease(Rearm(r)).approval = Rearm(r).approval
      /\ ClearLease(Rearm(r)).status = Rearm(r).status
  BY <1>1, ClearLeaseFields
<1> QED BY <1>1, <1>2 DEF PendingRow

\* Worker calls and the reap act on active rows only.
LEMMA ActiveSettled ==
  ASSUME NEW r \in Row, PendingRow(r), Active(r), NEW retryable \in BOOLEAN
  PROVE  /\ Settled(r, Started(r)) /\ Settled(r, Heartbeaten(r)) /\ Settled(r, Succeeded(r))
         /\ Settled(r, Failed(r, retryable, FALSE)) /\ Settled(r, Released(r))
         /\ Settled(r, Reaped(r))
<1>1. r.approval # "pending" /\ r.status \notin TerminalTask
  BY DEF PendingRow, Active, ActiveLease, TerminalTask
<1>2. ASSUME NEW q \in Row, q.approval = r.approval
      PROVE  /\ PendingRow(q) /\ PendingRow(ClearLease(q)) /\ PendingRow(ClearLease(Rearm(q)))
  <2>1. PendingRow(q) /\ q.approval # "pending" BY <1>1, <1>2 DEF PendingRow
  <2>2. ClearLease(q).approval = q.approval BY <1>2, ClearLeaseFields
  <2> QED BY <2>1, <2>2, RearmSettled DEF PendingRow
<1>3. Settled(r, Started(r)) /\ Settled(r, Heartbeaten(r))
  BY <1>1 DEF Settled, PendingRow, Started, Heartbeaten, Row
<1>4. Settled(r, Succeeded(r))
  <2> DEFINE q == [r EXCEPT !.status = "succeeded", !.failure = "none"]
  <2>1. q \in Row /\ q.approval = r.approval
    BY DEF Row, Statuses, TerminalTask, Failures
  <2> HIDE DEF q
  <2>2. PendingRow(ClearLease(q)) BY <1>2, <2>1
  <2> QED BY <1>1, <2>2 DEF Settled, Succeeded, q
<1>5. Settled(r, Failed(r, retryable, FALSE))
  <2> DEFINE m == [r EXCEPT !.failure = IF retryable THEN "retryable" ELSE "final"]
             f == [m EXCEPT !.status = "failed"]
  <2>1. m \in Row /\ m.approval = r.approval BY DEF Row, Failures
  <2>2. f \in Row /\ f.approval = r.approval BY DEF Row, Statuses, TerminalTask, Failures
  <2> HIDE DEF m, f
  <2>3. PendingRow(ClearLease(f)) /\ PendingRow(ClearLease(Rearm(m))) BY <1>2, <2>1, <2>2
  <2> QED BY <1>1, <2>3 DEF Settled, Failed, m, f
<1>6. Settled(r, Released(r))
  <2> DEFINE c == [r EXCEPT !.attempts = EffectiveAttempts(r)]
             x == [c EXCEPT !.status = "cancelled"]
             f == [c EXCEPT !.status = "failed", !.failure = "lease_released"]
  <2>1. EffectiveAttempts(r) \in Nat BY DEF EffectiveAttempts, Row
  <2>2. c \in Row /\ c.approval = r.approval BY <2>1 DEF Row
  <2> HIDE DEF c
  <2>3. x \in Row /\ x.approval = r.approval /\ f \in Row /\ f.approval = r.approval
    BY <2>2 DEF Row, Statuses, TerminalTask, Failures
  <2> HIDE DEF x, f
  <2>4. /\ PendingRow(ClearLease(x)) /\ PendingRow(ClearLease(f))
        /\ PendingRow(ClearLease(Rearm(c)))
    BY <1>2, <2>2, <2>3
  <2> QED BY <1>1, <2>4 DEF Settled, Released, c, x, f
<1>7. Settled(r, Reaped(r))
  <2> DEFINE f == [r EXCEPT !.status = "failed", !.failure = "lease_expired"]
  <2>1. f \in Row /\ f.approval = r.approval BY DEF Row, Statuses, TerminalTask, Failures
  <2> HIDE DEF f
  <2>2. PendingRow(ClearLease(f)) /\ PendingRow(ClearLease(Rearm(r))) BY <1>2, <2>1
  <2> QED BY <1>1, <2>2 DEF Settled, Reaped, f
<1> QED BY <1>3, <1>4, <1>5, <1>6, <1>7

\* Decisions, creation, expiry, the clock and the lease on one row.
LEMMA OtherSettled ==
  ASSUME NEW r \in Row, PendingRow(r)
  PROVE  /\ r.approval = "pending" => Settled(r, Approved(r)) /\ Settled(r, Rejected(r))
         /\ Waiting(r) /\ r.required => Settled(r, Rearm(r))
         /\ Settled(r, ExpireApproval(r))
         /\ Settled(r, [r EXCEPT !.live = FALSE]) /\ Settled(r, [r EXCEPT !.fresh = FALSE])
         /\ \A a \in Agents, k \in Tokens : Leasable(r) => Settled(r, Leased(r, a, k))
<1>1. r.approval = "pending" => Settled(r, Approved(r)) /\ Settled(r, Rejected(r))
  BY DEF Settled, PendingRow, Approved, Rejected, Row, TerminalTask
<1>2. Waiting(r) /\ r.required => Settled(r, Rearm(r))
  BY RearmSettled DEF Settled, Waiting, TerminalTask
<1>3. Settled(r, ExpireApproval(r))
  BY DEF Settled, PendingRow, ExpireApproval, Row, TerminalTask
<1>4. Settled(r, [r EXCEPT !.live = FALSE]) /\ Settled(r, [r EXCEPT !.fresh = FALSE])
  BY DEF Settled, PendingRow, Row
<1>5. ASSUME NEW a \in Agents, NEW k \in Tokens, Leasable(r) PROVE Settled(r, Leased(r, a, k))
  <2> DEFINE c == ConsumeApproval(r)
  <2>1. r.status = "queued" BY <1>5 DEF Leasable
  <2>2. c \in Row /\ c.approval # "pending"
    BY <2>1 DEF PendingRow, ConsumeApproval, Row, Approvals
  <2> HIDE DEF c
  <2>3. [c EXCEPT !.status = "leased", !.agent = a, !.attempts = @ + 1,
                  !.token = k, !.live = TRUE, !.failure = "none"].approval # "pending"
    BY <2>2 DEF Row
  <2> QED BY <2>1, <2>3 DEF Settled, PendingRow, Leased, c, TerminalTask
<1> QED BY <1>1, <1>2, <1>3, <1>4, <1>5

\* What a decision in flight leaves of a row asks for nothing.
LEMMA LatePending ==
  ASSUME NEW r \in Row, NEW action \in Actions, NEW seen
  PROVE  PendingRow([Outcome(action, r) EXCEPT !.status = IF @ = seen THEN r.status ELSE @])
<1> DEFINE p == Outcome(action, r)
<1>1. p \in Row /\ p.approval # "pending"
  BY DEF Outcome, Actions, Row, Approved, Rejected, Revoked, Statuses, Approvals, TerminalTask
<1> HIDE DEF p
<1>2. PendingRow([p EXCEPT !.status = IF @ = seen THEN r.status ELSE @])
  BY <1>1 DEF PendingRow, Row
<1> QED BY <1>2 DEF p

AllPending == \A t \in Tasks : PendingRow(task[t])

\* What a step may do to the row of a finished task.
KeptFinished(t) ==
  (task[t].status \in TerminalTask /\ task'[t].status # task[t].status) =>
    \/ task[t].status = "failed" /\ task'[t] = Resumed(task[t])
    \/ DecisionLands(t)

\* A step that rewrites one row.
LEMMA SettledRow ==
  ASSUME RaceInv, AllPending, NEW t \in Tasks, NEW q, task' = [task EXCEPT ![t] = q],
         PendingRow(q), task'[t] = q => KeptFinished(t)
  PROVE  AllPending' /\ \A u \in Tasks : KeptFinished(u)
<1>1. task \in [Tasks -> Row] BY DEF RaceInv, TypeOK
<1>2. task'[t] = q /\ \A u \in Tasks : u # t => task'[u] = task[u] BY <1>1
<1>3. AllPending' BY <1>2 DEF AllPending
<1>4. \A u \in Tasks : KeptFinished(u) BY <1>2 DEF KeptFinished
<1> QED BY <1>3, <1>4

\* A step in which every row is settled.
LEMMA SettledRows ==
  ASSUME \A u \in Tasks : Settled(task[u], task'[u])
  PROVE  AllPending' /\ \A u \in Tasks : KeptFinished(u)
BY DEF Settled, AllPending, KeptFinished

\* The sweep settles every row.
LEMMA SweepSettled ==
  ASSUME RaceInv, AllPending, NEW locked, NEW t \in Tasks
  PROVE  /\ Settled(task[t], ReapExpired(task, locked)[t])
         /\ Settled(task[t], Swept(locked)[t])
<1> DEFINE r == task[t]
           p == ReapExpired(task, locked)[t]
           q == Swept(locked)[t]
<1>1. r \in Row /\ PendingRow(r) BY DEF RaceInv, TypeOK, AllPending
<1>2. p \in Row BY RaceSweep
<1>3. p = r \/ (Active(r) /\ p = Reaped(r)) BY DEF ReapExpired, LeaseExpired
<1>4. q = p \/ q = ExpireApproval(p) BY DEF Swept, ExpireApprovals
<1> HIDE DEF r, p, q
<1>5. Settled(r, p) BY <1>1, <1>3, ActiveSettled DEF Settled
<1>6. Settled(p, q) BY <1>2, <1>4, <1>5, OtherSettled DEF Settled
<1>7. Settled(r, q) BY <1>5, <1>6 DEF Settled
<1> QED BY <1>5, <1>7 DEF r, p, q

\* No step of the race moves a finished task but a resume and a decision that lands.
LEMMA FinishedStep ==
  ASSUME RaceInv, AllPending, [RaceNext]_raceVars
  PROVE  AllPending' /\ \A u \in Tasks : KeptFinished(u)
<1>0. task \in [Tasks -> Row] BY DEF RaceInv, TypeOK
<1>1. CASE task' = task BY <1>1 DEF AllPending, KeptFinished
<1>2. ASSUME NEW d \in Deciders, WriteDecision(d)
      PROVE  AllPending' /\ \A u \in Tasks : KeptFinished(u)
  <2> DEFINE e == decision[d]
             q == [Outcome(e.action, task[e.task]) EXCEPT
                     !.status = IF @ = e.seen THEN task[e.task].status ELSE @]
  <2>1. decision \in [Deciders -> Deciding \cup {Idle}] BY DEF RaceInv
  <2>2. e.task \in Tasks /\ e.action \in Actions /\ e.seen # "absent"
    BY <1>2, <2>1 DEF WriteDecision, Deciding
  <2>3. PendingRow(q) BY <1>0, <2>2, LatePending
  <2>4. decision'[d] = Idle BY <1>2, <2>1 DEF WriteDecision
  <2>5. KeptFinished(e.task) BY <2>2, <2>4 DEF KeptFinished, DecisionLands
  <2>6. task' = [task EXCEPT ![e.task] = q] BY <1>2 DEF WriteDecision
  <2> HIDE DEF q, e
  <2> QED BY <2>2, <2>3, <2>5, <2>6, SettledRow
<1>3. ASSUME NEW locked, ReapTaskLeases(locked)
      PROVE  AllPending' /\ \A u \in Tasks : KeptFinished(u)
  BY <1>3, SweepSettled, SettledRows DEF ReapTaskLeases
<1>4. ASSUME NEW locked, NEW a \in Agents, LeaseTask(a, locked)
      PROVE  AllPending' /\ \A u \in Tasks : KeptFinished(u)
  <2> DEFINE rows == Swept(locked)
             ready == Candidates(rows, a, locked)
  <2>1. rows \in [Tasks -> Row] BY RaceSweep
  <2>2. \A u \in Tasks : Settled(task[u], rows[u]) BY SweepSettled
  <2>3. CASE task' = rows BY <2>2, <2>3, SettledRows
  <2>4. ASSUME NEW t \in First(ready), NEW k \in FreshTokens,
               task' = [rows EXCEPT ![t] = Leased(@, a, k)]
        PROVE  \A u \in Tasks : Settled(task[u], task'[u])
    <3>1. t \in Tasks /\ Leasable(rows[t]) BY DEF First, Candidates
    <3>2. k \in Tokens BY DEF FreshTokens
    <3> HIDE DEF rows, ready
    <3>3. PendingRow(rows[t]) BY <2>2, <3>1 DEF Settled
    <3>4. Settled(rows[t], Leased(rows[t], a, k)) BY <2>1, <3>1, <3>2, <3>3, OtherSettled
    <3>5. Settled(task[t], Leased(rows[t], a, k)) BY <2>2, <3>1, <3>4 DEF Settled
    <3>6. task'[t] = Leased(rows[t], a, k) /\ \A u \in Tasks : u # t => task'[u] = rows[u]
      BY <2>1, <2>4, <3>1
    <3> QED BY <2>2, <3>5, <3>6
  <2> QED BY <1>4, <2>3, <2>4, SettledRows DEF LeaseTask
<1>5. ASSUME NEW a \in Agents,
             StartTask(a) \/ HeartbeatTask(a) \/ CompleteTask(a) \/ ReleaseTask(a)
               \/ \E retryable \in BOOLEAN : FailTask(a, retryable)
      PROVE  AllPending' /\ \A u \in Tasks : KeptFinished(u)
  <2> DEFINE t == hold[a].task
             r == task[t]
  <2>1. hold[a] # NoHold /\ LeaseVerified(r, a, hold[a].token, ActiveLease)
    BY <1>5 DEF StartTask, HeartbeatTask, CompleteTask, ReleaseTask, FailTask, Verified,
      LeaseVerified, ActiveLease
  <2>2. t \in Tasks BY <2>1 DEF RaceInv, TypeOK, Holding
  <2>3. Active(r) BY <2>1 DEF LeaseVerified, Active
  <2>4. r \in Row /\ PendingRow(r) BY <1>0, <2>2 DEF AllPending
  <2>5. PICK retryable \in BOOLEAN :
          \E q \in {Started(r), Heartbeaten(r), Succeeded(r), Released(r),
                    Failed(r, retryable, FALSE)} : task' = [task EXCEPT ![t] = q]
    BY <1>5, <1>0, <2>2 DEF StartTask, HeartbeatTask, CompleteTask, ReleaseTask, FailTask
  <2>6. PICK q : Settled(r, q) /\ task' = [task EXCEPT ![t] = q]
    BY <2>3, <2>4, <2>5, ActiveSettled
  <2>7. PendingRow(q) /\ (task'[t] = q => KeptFinished(t))
    BY <2>6 DEF Settled, KeptFinished
  <2> QED BY <2>2, <2>6, <2>7, SettledRow
<1>6. ASSUME NEW t \in Tasks,
         \/ Approve(t) \/ Reject(t) \/ RearmApproval(t) \/ LeaseLapses(t) \/ ApprovalLapses(t)
      PROVE  AllPending' /\ \A u \in Tasks : KeptFinished(u)
  <2> DEFINE r == task[t]
  <2>1. r \in Row /\ PendingRow(r) BY <1>0 DEF AllPending
  <2>2. \/ r.approval = "pending" /\ task' = [task EXCEPT ![t] = Approved(r)]
        \/ r.approval = "pending" /\ task' = [task EXCEPT ![t] = Rejected(r)]
        \/ Waiting(r) /\ r.required /\ task' = [task EXCEPT ![t] = Rearm(r)]
        \/ task' = [task EXCEPT ![t] = [r EXCEPT !.live = FALSE]]
        \/ task' = [task EXCEPT ![t] = [r EXCEPT !.fresh = FALSE]]
    BY <1>0, <1>6 DEF Approve, Reject, RearmApproval, LeaseLapses, ApprovalLapses
  <2>3. PICK q : Settled(r, q) /\ task' = [task EXCEPT ![t] = q]
    BY <2>1, <2>2, OtherSettled
  <2>4. PendingRow(q) /\ (task'[t] = q => KeptFinished(t))
    BY <2>3 DEF Settled, KeptFinished
  <2> QED BY <2>3, <2>4, SettledRow
<1>7. ASSUME NEW t \in Tasks, ResumeTask(t)
      PROVE  AllPending' /\ \A u \in Tasks : KeptFinished(u)
  <2> DEFINE r == task[t]
             m == [r EXCEPT !.max = IF r.max > r.attempts THEN r.max ELSE r.attempts + 1]
  <2>1. r \in Row /\ PendingRow(r) /\ r.status = "failed" BY <1>0, <1>7 DEF ResumeTask, AllPending
  <2>2. m \in Row /\ m.approval = r.approval BY <2>1 DEF Row
  <2>3. r.approval # "pending" BY <2>1 DEF PendingRow
  <2> HIDE DEF m
  <2>4. PendingRow(Rearm(m)) BY <2>2, <2>3, RearmSettled DEF PendingRow
  <2>5. PendingRow(Resumed(r)) BY <2>4 DEF Resumed, m
  <2>6. task' = [task EXCEPT ![t] = Resumed(r)] BY <1>0, <1>7 DEF ResumeTask
  <2>7. task'[t] = Resumed(r) => KeptFinished(t) BY <2>1 DEF KeptFinished
  <2> QED BY <2>5, <2>6, <2>7, SettledRow
<1>8. ASSUME NEW t \in Tasks, NEW required \in BOOLEAN, NEW max \in 1..MaxAttempts,
             CreateTask(t, required, max)
      PROVE  AllPending' /\ \A u \in Tasks : KeptFinished(u)
  <2>1. max \in Nat \ {0} BY LeaseAssumption
  <2>2. PendingRow(Created(required, max)) BY <2>1, CreatedInv DEF RowInv, PendingRow
  <2>3. KeptFinished(t) BY <1>8 DEF CreateTask, KeptFinished, TerminalTask
  <2>4. task' = [task EXCEPT ![t] = Created(required, max)] BY <1>8 DEF CreateTask
  <2> QED BY <2>2, <2>3, <2>4, SettledRow
<1> QED BY <1>1, <1>2, <1>3, <1>4, <1>5, <1>6, <1>7, <1>8
      DEF RaceNext, Next, raceVars, vars, SetControlScope, Forget, ReadApproval, ReadTask

-----------------------------------------------------------------------------
(* The theorems.                                                           *)

\* What a late decision cannot break holds throughout every behaviour of the race.
THEOREM RaceInductive == RaceSpec => []RaceInv
<1>1. RaceInv /\ [RaceNext]_raceVars => RaceInv' BY RaceStep
<1> QED BY <1>1, RaceInitInv, PTL DEF RaceSpec

\* However many decisions are in flight on rows that are leased, reaped or finished
\* meanwhile, attempts stay within max_attempts and a token authorizes one worker.
THEOREM DamageContained == RaceSpec => []RaceContained
<1>1. RaceInv => RaceContained
  <2> SUFFICES ASSUME RaceInv PROVE SingleHolder
    BY DEF RaceContained, RaceInv, BoundRow
  <2> SUFFICES ASSUME NEW t \in Tasks, NEW u \in Tasks, NEW a \in Agents, NEW b \in Agents,
                      Authorizes(a, t), task[u].token = task[t].token,
                      hold[b].token = task[t].token
               PROVE  t = u /\ a = b
    BY DEF SingleHolder
  <2>1. hold[a].task = t /\ hold[a].token = task[t].token
    BY DEF Authorizes, LeaseVerified
  <2>2. hold[a] \in Holding \cup {NoHold} BY DEF RaceInv, TypeOK
  <2>3. hold[a] # NoHold BY <2>1, LeaseAssumption DEF NoHold
  <2>4. task[t].token # None BY <2>1, <2>2, <2>3, NoneAssumption DEF Holding
  <2> QED BY <2>1, <2>4 DEF RaceInv, TokenPerRow, TokenPerWorker
<1> QED BY <1>1, RaceInductive, PTL

\* No decision in flight lets a lease be granted for free.
THEOREM RaceLeasesPaid == RaceSpec => RaceLeasePaidFor
<1>1. RaceInv /\ [RaceNext]_raceVars
        => [\A t \in Tasks :
              (task'[t].token # None /\ task'[t].token # task[t].token) =>
                /\ task'[t].attempts = task[t].attempts + 1
                /\ task[t].required => task[t].approval = "approved" /\ task[t].fresh]_raceVars
  BY RaceStep DEF RacePaid
<1> QED BY <1>1, RaceInductive, PTL DEF RaceSpec, RaceLeasePaidFor

\* A finished task keeps its status against late worker calls, sweeps, the clock and
\* locked decisions, on whatever row a late decision has left; only a resume and a
\* decision already in flight move it.
THEOREM FinishedStays == RaceSpec => FinishedUnlessDecided
<1>1. RaceInit => AllPending
  BY DEF RaceInit, Init, AllPending, PendingRow, AbsentRow
<1>2. RaceInv /\ AllPending /\ [RaceNext]_raceVars => AllPending'
  BY FinishedStep
<1>3. RaceInv /\ AllPending /\ [RaceNext]_raceVars
        => [\A t \in Tasks :
              (task[t].status \in TerminalTask /\ task'[t].status # task[t].status) =>
                \/ task[t].status = "failed" /\ task'[t] = Resumed(task[t])
                \/ DecisionLands(t)]_raceVars
  BY FinishedStep DEF KeptFinished
<1> QED BY <1>1, <1>2, <1>3, RaceInductive, PTL DEF RaceSpec, FinishedUnlessDecided

=============================================================================
