---------------------- MODULE MissionSupervisionProofs ----------------------
(***************************************************************************)
(* Machine-checked proofs that a supervised mission stays within its plan, *)
(* runs its checkpoints in order, runs nothing the plan alone governs      *)
(* after an abort and claims no success it does not have, for any          *)
(* checkpoints, dependencies, gates, workers and budgets.                  *)
(***************************************************************************)
EXTENDS MissionSupervision, TaskRowsProofs

\* Sound rows, whose gate is the plan's: a checkpoint without one never gets one.
Checkpoints(rows) ==
  /\ rows \in [Tasks -> Row]
  /\ \A t \in Tasks : SoundRow(rows[t]) /\ (rows[t].required => t \in Gated)

Ordered(rows) ==
  \A t \in Tasks : Active(rows[t]) => \A d \in Deps[t] : rows[d].status = "succeeded"

\* Why an abort lasts: a checkpoint without a gate of its own is then succeeded or
\* cancelled, and nothing but an approval brings a cancelled row back.
Stopped(rows) ==
  \A t \in Tasks \ Gated : rows[t].status \in {"succeeded", "cancelled"}

\* No checkpoint is absent: create_mission made them all.
Present(rows) == \A t \in Tasks : rows[t].status # "absent"

\* The inductive invariant.
IInv ==
  /\ TypeOK
  /\ recoveries <= MaxRecoveries
  /\ Checkpoints(task) /\ Present(task) /\ Ordered(task)
  /\ supervision = "aborted" => Stopped(task)
  /\ SuccessIsReal

\* The part of it that the rows alone decide.
RowsGood(rows) ==
  /\ Checkpoints(rows) /\ Present(rows) /\ Ordered(rows)
  /\ supervision = "aborted" => Stopped(rows)
  /\ AllSucceeded(task) => AllSucceeded(rows)

-----------------------------------------------------------------------------
(* Changes of rows.                                                        *)

\* Rows that are each kept stay good together.
LEMMA KeptGood ==
  ASSUME NEW old, Checkpoints(old), Present(old), Ordered(old), NEW rows,
         rows \in [Tasks -> Row], \A t \in Tasks : RowKept(old[t], rows[t])
  PROVE  /\ Checkpoints(rows) /\ Present(rows) /\ Ordered(rows)
         /\ Stopped(old) => Stopped(rows)
         /\ AllSucceeded(old) => AllSucceeded(rows)
<1>1. Checkpoints(rows) BY DEF Checkpoints, RowKept
<1>2. Present(rows) BY DEF Present, RowKept
<1>3. Ordered(rows)
  <2> SUFFICES ASSUME NEW t \in Tasks, Active(rows[t]), NEW d \in Deps[t]
               PROVE  rows[d].status = "succeeded"
    BY DEF Ordered
  <2>1. d \in Tasks BY MissionAssumption
  <2>2. Active(old[t]) BY DEF RowKept
  <2>3. old[d].status = "succeeded" BY <2>2 DEF Ordered
  <2> QED BY <2>1, <2>3 DEF RowKept
<1>4. Stopped(old) => Stopped(rows)
  BY DEF Stopped, RowKept, Checkpoints
<1>5. AllSucceeded(old) => AllSucceeded(rows) BY DEF AllSucceeded, RowKept
<1> QED BY <1>1, <1>2, <1>3, <1>4, <1>5

\* The same for a step that rewrites one row.
LEMMA OneKeptGood ==
  ASSUME IInv, NEW t \in Tasks, NEW q, RowKept(task[t], q)
  PROVE  RowsGood([task EXCEPT ![t] = q])
<1> DEFINE rows == [task EXCEPT ![t] = q]
<1>1. task \in [Tasks -> Row] /\ q \in Row BY DEF IInv, TypeOK, RowKept, SoundRow
<1>2. rows \in [Tasks -> Row] BY <1>1
<1>3. \A u \in Tasks : SoundRow(task[u]) BY DEF IInv, Checkpoints
<1>4. \A u \in Tasks : RowKept(task[u], rows[u])
  <2> TAKE u \in Tasks
  <2>1. rows[u] = task[u] \/ (u = t /\ rows[u] = q) BY <1>1
  <2> QED BY <1>3, <2>1, SameKept
<1> HIDE DEF rows
<1>5. RowsGood(rows) BY <1>2, <1>4, KeptGood DEF IInv, RowsGood
<1> QED BY <1>5 DEF rows

\* reap_expired_leases and expire_approvals over the mission's rows.
LEMMA SweepGood ==
  ASSUME IInv
  PROVE  RowsGood(ReapAll(task)) /\ RowsGood(Swept) /\ (Stopped(task) => Stopped(Swept))
<1> DEFINE reaped == ReapAll(task)
<1>1. \A t \in Tasks : SoundRow(task[t]) BY DEF IInv, Checkpoints
<1>2. \A t \in Tasks : RowKept(task[t], reaped[t])
  <2> TAKE t \in Tasks
  <2>1. CASE LeaseExpired(task[t])
    <3>1. reaped[t] = Reaped(task[t]) BY <2>1 DEF ReapAll
    <3> QED BY <1>1, <2>1, <3>1, EndedKept DEF LeaseExpired
  <2>2. CASE ~LeaseExpired(task[t])
    <3>1. reaped[t] = task[t] BY <2>2 DEF ReapAll
    <3> QED BY <1>1, <3>1, SameKept
  <2> QED BY <2>1, <2>2
<1>3. reaped \in [Tasks -> Row]
  <2>1. \A t \in Tasks : reaped[t] \in Row BY <1>2 DEF RowKept, SoundRow
  <2> QED BY <2>1 DEF ReapAll
<1>4. /\ Checkpoints(reaped) /\ Present(reaped) /\ Ordered(reaped)
      /\ Stopped(task) => Stopped(reaped)
      /\ AllSucceeded(task) => AllSucceeded(reaped)
  BY <1>2, <1>3, KeptGood DEF IInv
<1> HIDE DEF reaped
<1>5. \A t \in Tasks : RowKept(reaped[t], Swept[t])
  <2> TAKE t \in Tasks
  <2>1. Swept[t] = ExpireApproval(reaped[t]) BY DEF Swept, reaped
  <2>2. SoundRow(reaped[t]) BY <1>4 DEF Checkpoints
  <2> QED BY <2>1, <2>2, ExpireKept
<1>6. Swept \in [Tasks -> Row]
  <2>1. \A t \in Tasks : Swept[t] \in Row BY <1>5 DEF RowKept, SoundRow
  <2> QED BY <2>1 DEF Swept
<1>7. /\ Checkpoints(Swept) /\ Present(Swept) /\ Ordered(Swept)
      /\ Stopped(reaped) => Stopped(Swept)
      /\ AllSucceeded(reaped) => AllSucceeded(Swept)
  BY <1>4, <1>5, <1>6, KeptGood
<1>8. RowsGood(reaped) /\ RowsGood(Swept) BY <1>4, <1>7 DEF RowsGood, IInv
<1> QED BY <1>4, <1>7, <1>8 DEF reaped

\* refresh_mission reports success only when every checkpoint has it.
LEMMA RefreshedReal ==
  ASSUME NEW rows
  PROVE  Refreshed(rows) \in MissionStatuses /\ (Refreshed(rows) = "succeeded" => AllSucceeded(rows))
BY DEF Refreshed, MissionStatuses

\* A step to good rows whose statuses claim no success the rows do not have.
LEMMA CommitInv ==
  ASSUME IInv, NEW rows, Checkpoints(rows), Present(rows), Ordered(rows), task' = rows,
         mission' \in MissionStatuses, supervision' \in SupervisionStatuses,
         recoveries' \in Nat, recoveries' <= MaxRecoveries,
         due' \in BOOLEAN, overdue' \in BOOLEAN,
         hold' \in [Agents -> Holding \cup {NoHold}],
         supervision' = "aborted" => Stopped(rows),
         mission' = "succeeded" => AllSucceeded(rows),
         supervision' = "succeeded" => AllSucceeded(rows)
  PROVE  IInv'
BY DEF IInv, TypeOK, Checkpoints, Present, Ordered, Stopped, SuccessIsReal, AllSucceeded

-----------------------------------------------------------------------------
(* The steps.                                                              *)

\* create_mission
LEMMA InitInv == Init => IInv
<1> SUFFICES ASSUME Init PROVE IInv
  OBVIOUS
<1>1. \A t \in Tasks : /\ SoundRow(task[t]) /\ Waiting(task[t])
                       /\ task[t].required => t \in Gated
  <2> TAKE t \in Tasks
  <2>1. task[t] = Created(t \in Gated, TaskMax) BY DEF Init
  <2>2. (t \in Gated) \in BOOLEAN OBVIOUS
  <2>3. TaskMax \in Nat BY MissionAssumption
  <2> DEFINE g == t \in Gated
  <2>4. SoundRow(Created(g, TaskMax)) /\ Waiting(Created(g, TaskMax))
        /\ Created(g, TaskMax).required = g
    <3> HIDE DEF g
    <3>1. g \in BOOLEAN BY DEF g
    <3> QED BY <2>3, <3>1, CreatedSound
  <2> QED BY <2>1, <2>4
<1>2. task \in [Tasks -> Row] BY <1>1 DEF Init, SoundRow
<1>3. Checkpoints(task) /\ Present(task) /\ Ordered(task)
  BY <1>1, <1>2 DEF Checkpoints, Present, Ordered, Waiting, Active, ActiveLease
<1>4. TypeOK BY <1>2 DEF Init, TypeOK, MissionStatuses, SupervisionStatuses
<1>5. recoveries <= MaxRecoveries BY MissionAssumption DEF Init
<1> QED BY <1>3, <1>4, <1>5 DEF IInv, Init, SuccessIsReal

\* Operator decisions and the clock on one row: no status of the mission claims more.
LEMMA RowActionInv ==
  ASSUME IInv, NEW t \in Tasks,
         \/ ResumeTask(t) \/ ApproveTask(t) \/ RejectTask(t) \/ RevokeTask(t)
         \/ RearmApproval(t) \/ LeaseLapses(t) \/ ApprovalLapses(t)
  PROVE  IInv'
<1>0. SoundRow(task[t]) /\ task \in [Tasks -> Row] BY DEF IInv, TypeOK, Checkpoints
<1>1. PICK q : RowKept(task[t], q) /\ task' = [task EXCEPT ![t] = q]
  <2>1. CASE ResumeTask(t) BY <1>0, <2>1, ResumedKept DEF ResumeTask
  <2>2. CASE ApproveTask(t) BY <1>0, <2>2, DecidedKept DEF ApproveTask
  <2>3. CASE RejectTask(t) BY <1>0, <2>3, DecidedKept DEF RejectTask
  <2>4. CASE RevokeTask(t) BY <1>0, <2>4, DecidedKept DEF RevokeTask
  <2>5. CASE RearmApproval(t) BY <1>0, <2>5, RearmKept DEF RearmApproval
  <2>6. CASE LeaseLapses(t)
    <3>1. task' = [task EXCEPT ![t] = [task[t] EXCEPT !.live = FALSE]]
      BY <1>0, <2>6 DEF LeaseLapses
    <3> QED BY <1>0, <3>1, TickKept
  <2>7. CASE ApprovalLapses(t)
    <3>1. task' = [task EXCEPT ![t] = [task[t] EXCEPT !.fresh = FALSE]]
      BY <1>0, <2>7 DEF ApprovalLapses
    <3> QED BY <1>0, <3>1, TickKept
  <2> QED BY <2>1, <2>2, <2>3, <2>4, <2>5, <2>6, <2>7
<1>2. RowsGood(task') BY <1>1, OneKeptGood
<1>3. /\ supervision' = supervision /\ recoveries' = recoveries /\ overdue' = overdue
      /\ hold' = hold /\ due' \in BOOLEAN
      /\ mission' = mission \/ mission' = Refreshed(task')
  BY DEF ResumeTask, ApproveTask, RejectTask, RevokeTask, RearmApproval, LeaseLapses,
    ApprovalLapses, missionVars, IInv, TypeOK
<1>4. mission' \in MissionStatuses /\ (mission' = "succeeded" => AllSucceeded(task'))
  BY <1>2, <1>3, RefreshedReal DEF IInv, TypeOK, SuccessIsReal, RowsGood
<1> QED BY <1>2, <1>3, <1>4, CommitInv DEF RowsGood, IInv, TypeOK, SuccessIsReal

\* Worker calls under a verified lease.
LEMMA WorkerCallInv ==
  ASSUME IInv, NEW a \in Agents,
         StartTask(a) \/ CompleteTask(a) \/ ReleaseTask(a)
           \/ \E retryable \in BOOLEAN : FailTask(a, retryable)
  PROVE  IInv'
<1> DEFINE t == hold[a].task
           r == task[t]
<1>1. hold[a] # NoHold /\ LeaseVerified(r, a, hold[a].token, ActiveLease)
  BY DEF StartTask, CompleteTask, ReleaseTask, FailTask, Verified, LeaseVerified, ActiveLease
<1>2. t \in Tasks BY <1>1 DEF IInv, TypeOK, Holding
<1>3. SoundRow(r) /\ task \in [Tasks -> Row] BY <1>2 DEF IInv, TypeOK, Checkpoints
<1>4. Active(r) BY <1>1 DEF LeaseVerified, Active
<1>5. RowsGood(task')
  <2>1. CASE StartTask(a)
    <3>1. RowKept(r, Started(r)) BY <1>3, <1>4, TickKept
    <3>2. task' = [task EXCEPT ![t] = Started(r)] BY <1>2, <1>3, <2>1 DEF StartTask
    <3> QED BY <1>2, <3>1, <3>2, OneKeptGood
  <2>2. CASE ReleaseTask(a)
    <3>1. RowKept(r, Released(r)) BY <1>3, <1>4, EndedKept
    <3>2. task' = [task EXCEPT ![t] = Released(r)] BY <1>2, <1>3, <2>2 DEF ReleaseTask
    <3> QED BY <1>2, <3>1, <3>2, OneKeptGood
  <2>3. ASSUME NEW retryable \in BOOLEAN, FailTask(a, retryable) PROVE RowsGood(task')
    <3>1. RowKept(r, Failed(r, retryable, TRUE)) BY <1>3, <1>4, EndedKept
    <3>2. task' = [task EXCEPT ![t] = Failed(r, retryable, TRUE)]
      BY <1>2, <1>3, <2>3 DEF FailTask
    <3> QED BY <1>2, <3>1, <3>2, OneKeptGood
  <2>4. CASE CompleteTask(a)
    <3> DEFINE q == Succeeded(r)
    <3>1. SoundRow(q) /\ q.status = "succeeded" /\ q.required = r.required
      BY <1>3, <1>4, SucceededSound
    <3>2. task' = [task EXCEPT ![t] = q] BY <1>2, <1>3, <2>4 DEF CompleteTask
    <3> HIDE DEF q
    <3>3. task' \in [Tasks -> Row] BY <1>3, <3>1, <3>2 DEF SoundRow
    <3>4. \A u \in Tasks : task'[u] = task[u] \/ (u = t /\ task'[u] = q)
      BY <1>3, <3>2
    <3>5. Checkpoints(task')
      BY <1>2, <3>1, <3>3, <3>4 DEF IInv, Checkpoints
    <3>6. Present(task') BY <3>1, <3>4 DEF IInv, Present
    <3>7. \A u \in Tasks : task[u].status = "succeeded" => task'[u].status = "succeeded"
      BY <3>1, <3>4
    <3>8. Ordered(task')
      BY <3>1, <3>4, <3>7, MissionAssumption DEF IInv, Ordered, Active, ActiveLease
    <3>9. Stopped(task) => Stopped(task') BY <3>1, <3>4 DEF Stopped
    <3> QED BY <3>5, <3>6, <3>7, <3>8, <3>9 DEF RowsGood, IInv, AllSucceeded
  <2> QED BY <2>1, <2>2, <2>3, <2>4
<1>6. /\ supervision' = supervision /\ recoveries' = recoveries /\ overdue' = overdue
      /\ hold' = hold /\ due' = due
      /\ mission' = mission \/ mission' = Refreshed(task')
  BY DEF StartTask, CompleteTask, ReleaseTask, FailTask, missionVars
<1>7. mission' \in MissionStatuses /\ (mission' = "succeeded" => AllSucceeded(task'))
  BY <1>5, <1>6, RefreshedReal DEF IInv, TypeOK, SuccessIsReal, RowsGood
<1> QED BY <1>5, <1>6, <1>7, CommitInv DEF RowsGood, IInv, TypeOK, SuccessIsReal

\* A poll: the sweep, then at most one lease, of a checkpoint whose dependencies succeeded.
LEMMA LeaseTaskInv ==
  ASSUME IInv, NEW a \in Agents, LeaseTask(a)
  PROVE  IInv'
<1>1. RowsGood(Swept) BY SweepGood
<1>2. /\ mission' = mission /\ supervision' = supervision /\ recoveries' = recoveries
      /\ due' = due /\ overdue' = overdue
  BY DEF LeaseTask, missionVars
<1>3. CASE task' = Swept /\ hold' = hold
  BY <1>1, <1>2, <1>3, CommitInv DEF RowsGood, IInv, TypeOK, SuccessIsReal
<1>4. ASSUME NEW t \in Candidates(Swept), NEW k \in FreshTokens,
             task' = [Swept EXCEPT ![t] = Leased(@, a, k)],
             hold' = [hold EXCEPT ![a] = [task |-> t, token |-> k]]
      PROVE  IInv'
  <2> DEFINE r == Swept[t]
             q == Leased(r, a, k)
  <2>1. /\ t \in Tasks /\ Leasable(r) /\ mission = "active"
        /\ \A d \in Deps[t] : Swept[d].status = "succeeded"
    BY DEF Candidates
  <2>2. k \in Tokens BY DEF FreshTokens
  <2>3. SoundRow(r) /\ Swept \in [Tasks -> Row] BY <1>1, <2>1 DEF RowsGood, Checkpoints
  <2>4. r.status = "queued" BY <2>1 DEF Leasable
  <2>5. SoundRow(q) /\ q.status = "leased" /\ q.required = r.required
    BY <2>1, <2>2, <2>3, LeasedSound
  <2>6. task' = [Swept EXCEPT ![t] = q] BY <1>4, <2>1, <2>3
  <2> HIDE DEF q
  <2>7. task' \in [Tasks -> Row] BY <2>3, <2>5, <2>6 DEF SoundRow
  <2>8. task'[t] = q /\ \A u \in Tasks \ {t} : task'[u] = Swept[u] BY <2>1, <2>3, <2>6
  <2>9. Checkpoints(task')
    BY <1>1, <2>1, <2>5, <2>7, <2>8 DEF RowsGood, Checkpoints
  <2>10. Present(task') BY <1>1, <2>5, <2>8 DEF RowsGood, Present
  <2>11. \A u \in Tasks : Swept[u].status = "succeeded" => task'[u].status = "succeeded"
    BY <2>4, <2>8
  <2>12. Ordered(task')
    BY <1>1, <2>1, <2>8, <2>11, MissionAssumption DEF RowsGood, Ordered
  <2>13. supervision = "aborted" => Stopped(task')
    BY <1>1, <2>1, <2>4, <2>8 DEF RowsGood, Stopped
  <2>14. supervision = "succeeded" => AllSucceeded(task')
    BY <1>1, <2>11 DEF RowsGood, AllSucceeded, IInv, SuccessIsReal
  <2>15. [task |-> t, token |-> k] \in Holding BY <2>1, <2>2 DEF Holding
  <2>16. hold' \in [Agents -> Holding \cup {NoHold}] BY <1>4, <2>15 DEF IInv, TypeOK
  <2> QED BY <1>2, <2>1, <2>9, <2>10, <2>12, <2>13, <2>14, <2>16, CommitInv DEF IInv, TypeOK
<1> QED BY <1>3, <1>4 DEF LeaseTask

\* The supervisor's pass.
LEMMA ReconcileInv ==
  ASSUME IInv, ReconcileMission
  PROVE  IInv'
<1> DEFINE rows == ReapAll(task)
<1>1. RowsGood(rows) BY SweepGood
<1>2. overdue' = overdue /\ hold' = hold /\ supervision \in {"active", "recovering"}
  BY DEF ReconcileMission
<1>3. Refreshed(rows) \in MissionStatuses /\ (Refreshed(rows) = "succeeded" => AllSucceeded(rows))
  BY RefreshedReal
<1>4. CASE /\ task' = rows /\ recoveries' = recoveries
           /\ due' \in BOOLEAN
           /\ \/ AllSucceeded(rows) /\ mission' = "succeeded" /\ supervision' = "succeeded"
              \/ mission' = "blocked" /\ supervision' = "attention_required"
              \/ mission' = Refreshed(rows) /\ supervision' = supervision
  <2> HIDE DEF rows
  <2> QED BY <1>1, <1>2, <1>3, <1>4, CommitInv
          DEF RowsGood, IInv, TypeOK, MissionStatuses, SupervisionStatuses
<1>5. ASSUME NEW t \in FirstFailed(rows), MayRecover(rows[t]), mission' = "active",
             supervision' = "recovering", due' = FALSE, recoveries' = recoveries + 1,
             task' = [rows EXCEPT ![t] = Rearm(@)]
      PROVE  IInv'
  <2> DEFINE q == Rearm(rows[t])
  <2>1. t \in Tasks /\ rows[t].status = "failed" BY DEF FirstFailed
  <2>2. SoundRow(rows[t]) /\ rows \in [Tasks -> Row] BY <1>1, <2>1 DEF RowsGood, Checkpoints
  <2>3. RowKept(rows[t], q) BY <2>1, <2>2, RearmKept
  <2>4. task' = [rows EXCEPT ![t] = q] BY <1>5, <2>1, <2>2
  <2>5. recoveries' \in Nat /\ recoveries' <= MaxRecoveries
    BY <1>5, MissionAssumption DEF MayRecover, IInv, TypeOK
  <2> HIDE DEF q, rows
  <2>6. task' \in [Tasks -> Row] BY <2>2, <2>3, <2>4 DEF RowKept, SoundRow
  <2>7. \A u \in Tasks : RowKept(rows[u], task'[u])
    <3> TAKE u \in Tasks
    <3>1. task'[u] = rows[u] \/ (u = t /\ task'[u] = q) BY <2>2, <2>4
    <3>2. SoundRow(rows[u]) BY <1>1 DEF RowsGood, Checkpoints
    <3> QED BY <2>3, <3>1, <3>2, SameKept
  <2>8. Checkpoints(task') /\ Present(task') /\ Ordered(task')
    BY <1>1, <2>6, <2>7, KeptGood DEF RowsGood
  <2> QED BY <1>2, <1>5, <2>5, <2>8, CommitInv
          DEF IInv, TypeOK, MissionStatuses, SupervisionStatuses
<1> QED BY <1>4, <1>5 DEF ReconcileMission, Escalate, IInv, TypeOK

\* abort_supervision: nothing is held, so every checkpoint ends.
LEMMA AbortInv ==
  ASSUME IInv, AbortSupervision
  PROVE  IInv'
<1>1. \A t \in Tasks : /\ SoundRow(task[t]) /\ ~Active(task[t])
                       /\ task[t].required => t \in Gated
                       /\ task[t].status # "absent"
  BY DEF IInv, Checkpoints, Present, AbortSupervision
<1>2. \A t \in Tasks : /\ SoundRow(task'[t]) /\ task'[t].required = task[t].required
                       /\ task'[t].status \in {"succeeded", "cancelled"}
  <2> TAKE t \in Tasks
  <2> DEFINE q == [task[t] EXCEPT !.status = "cancelled"]
  <2>1. SoundRow(q) /\ q.required = task[t].required /\ q.status = "cancelled"
    BY <1>1 DEF SoundRow, Row, Waiting, Statuses, TerminalTask
  <2>2. task[t].status \in Statuses BY <1>1 DEF SoundRow, Row
  <2>3. task'[t] = IF task[t].status \in {"queued", "pending_approval", "failed"} THEN q ELSE task[t]
    BY DEF AbortSupervision
  <2> QED BY <1>1, <2>1, <2>2, <2>3 DEF Statuses, Active, ActiveLease, TerminalTask
<1>3. task' \in [Tasks -> Row] BY <1>2 DEF AbortSupervision, SoundRow
<1>4. Checkpoints(task') /\ Present(task') /\ Ordered(task') /\ Stopped(task')
  BY <1>1, <1>2, <1>3 DEF Checkpoints, Present, Ordered, Stopped, Active, ActiveLease
<1>5. /\ mission' = "cancelled" /\ supervision' = "aborted" /\ due' = TRUE
      /\ recoveries' = recoveries /\ overdue' = overdue /\ hold' = hold
  BY DEF AbortSupervision
<1> QED BY <1>4, <1>5, CommitInv DEF IInv, TypeOK, MissionStatuses, SupervisionStatuses

\* Every step preserves the inductive invariant.
LEMMA NextInv == IInv /\ [Next]_vars => IInv'
<1> SUFFICES ASSUME IInv, [Next]_vars PROVE IInv'
  OBVIOUS
<1>1. CASE UNCHANGED vars
  BY <1>1 DEF vars, IInv, TypeOK, Checkpoints, Present, Ordered, Stopped, SuccessIsReal,
    AllSucceeded
<1>2. CASE ApproveSupervision
  BY <1>2, CommitInv DEF ApproveSupervision, IInv, TypeOK, SuccessIsReal, MissionStatuses,
    SupervisionStatuses
<1>3. CASE GetMission
  <2>1. Refreshed(task) \in MissionStatuses /\ (Refreshed(task) = "succeeded" => AllSucceeded(task))
    BY RefreshedReal
  <2> QED BY <1>3, <2>1, CommitInv DEF GetMission, IInv, TypeOK, SuccessIsReal
<1>4. CASE DeadlinePasses \/ BackoffElapses
  BY <1>4, CommitInv DEF DeadlinePasses, BackoffElapses, IInv, TypeOK, SuccessIsReal
<1>5. ASSUME NEW a \in Agents, Forget(a) PROVE IInv'
  <2>1. hold' \in [Agents -> Holding \cup {NoHold}] BY <1>5 DEF Forget, IInv, TypeOK
  <2> QED BY <1>5, <2>1, CommitInv DEF Forget, missionVars, IInv, TypeOK, SuccessIsReal
<1> QED BY <1>1, <1>2, <1>3, <1>4, <1>5, AbortInv, ReconcileInv, RowActionInv, LeaseTaskInv,
      WorkerCallInv DEF Next

-----------------------------------------------------------------------------
(* The theorems.                                                           *)

\* The inductive invariant holds throughout every behaviour.
THEOREM InductiveInvariant == Spec => []IInv
BY InitInv, NextInv, PTL DEF Spec

\* reconcile_mission and the lease query stay within the approved recoveries and attempts.
THEOREM WithinPlan == Spec => []RecoveryWithinPlan
<1>1. IInv => RecoveryWithinPlan BY DEF IInv, Checkpoints, SoundRow, RecoveryWithinPlan
<1> QED BY <1>1, InductiveInvariant, PTL

\* No checkpoint is held before all it depends on has succeeded.
THEOREM InOrder == Spec => []CheckpointOrder
<1>1. IInv => CheckpointOrder BY DEF IInv, Ordered, CheckpointOrder
<1> QED BY <1>1, InductiveInvariant, PTL

\* After abort_supervision no checkpoint without a gate of its own is held again.
THEOREM AbortLasts == Spec => []AbortedNeverRuns
<1>1. IInv => AbortedNeverRuns
  BY DEF IInv, Stopped, AbortedNeverRuns, Active, ActiveLease
<1> QED BY <1>1, InductiveInvariant, PTL

\* Neither refresh_mission nor reconcile_mission claims a success the checkpoints lack.
THEOREM RealSuccess == Spec => []SuccessIsReal
<1>1. IInv => SuccessIsReal BY DEF IInv
<1> QED BY <1>1, InductiveInvariant, PTL

=============================================================================
