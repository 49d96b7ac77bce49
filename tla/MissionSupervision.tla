------------------------- MODULE MissionSupervision -------------------------
(***************************************************************************)
(* One engineering mission with its task checkpoints: founder approval of  *)
(* the plan, workers that lease the checkpoints, refresh_mission after     *)
(* worker calls and reads, and the supervisor daemon that reaps, recovers  *)
(* and escalates.  The rows behave as in TaskLease; a step is one          *)
(* committed request.  Decisions on a checkpoint's own approval are single *)
(* steps here; ApprovalRace has the unlocked ones.                         *)
(***************************************************************************)
EXTENDS TaskRows, FiniteSets

CONSTANTS Tasks,           \* the mission's checkpoints
          Deps,            \* [Tasks -> SUBSET Tasks]
          Rank,            \* [Tasks -> Nat]: ORDER BY created_at
          Gated,           \* checkpoints with an approval of their own (infrastructure)
          Recoverable,     \* the failures that are retryable or in the plan's allowlist
          TaskMax,         \* budget.max_attempts_per_task
          MaxRecoveries,   \* supervision.max_auto_recoveries
          AttemptBound     \* bound: attempts after which no model operator resumes a task

ASSUME MissionAssumption ==
  /\ None \notin Tasks
  /\ Deps \in [Tasks -> SUBSET Tasks]
  /\ Rank \in [Tasks -> Nat]
  /\ Gated \subseteq Tasks
  /\ "retryable" \in Recoverable /\ Recoverable \subseteq Failures
  /\ TaskMax \in Nat \ {0} /\ MaxRecoveries \in Nat /\ AttemptBound \in Nat

MissionStatuses == {"pending_approval", "active", "blocked", "succeeded", "cancelled"}
SupervisionStatuses ==
  {"pending_approval", "active", "recovering", "attention_required", "succeeded", "aborted"}

VARIABLES mission,      \* engineering_missions.status
          supervision,  \* supervision_status
          recoveries,   \* recovery_count
          due,          \* next_reconcile_at is null or not after now
          overdue,      \* deadline_at <= now
          task, hold

vars == <<mission, supervision, recoveries, due, overdue, task, hold>>
missionVars == <<mission, supervision, recoveries, due, overdue>>

Holding == [task : Tasks, token : Tokens]
NoHold == [task |-> None, token |-> None]

TypeOK ==
  /\ mission \in MissionStatuses
  /\ supervision \in SupervisionStatuses
  /\ recoveries \in Nat
  /\ due \in BOOLEAN /\ overdue \in BOOLEAN
  /\ task \in [Tasks -> Row]
  /\ hold \in [Agents -> Holding \cup {NoHold}]

\* create_mission for a supervised manifest: the tasks exist before the approval does.
Init ==
  /\ mission = "pending_approval"
  /\ supervision = "pending_approval"
  /\ recoveries = 0
  /\ due = TRUE
  /\ overdue = FALSE
  /\ task = [t \in Tasks |-> Created(t \in Gated, TaskMax)]
  /\ hold = [a \in Agents |-> NoHold]

-----------------------------------------------------------------------------
(* Shared pieces.                                                          *)

AllSucceeded(rows) == \A t \in Tasks : rows[t].status = "succeeded"

\* Variant for mutation: ended checkpoints count as succeeded ones.
RefreshedAnyOutcome(rows) ==
  IF \A t \in Tasks : rows[t].status \in TerminalTask THEN "succeeded" ELSE "active"

\* refresh_mission: the status is derived from the tasks and the clock alone.
Refreshed(rows) ==
  IF AllSucceeded(rows) THEN "succeeded"
  ELSE IF overdue \/ \E t \in Tasks : rows[t].status \in {"failed", "cancelled"} THEN "blocked"
  ELSE "active"

ReapAll(rows) == [t \in Tasks |-> IF LeaseExpired(rows[t]) THEN Reaped(rows[t]) ELSE rows[t]]
Swept == [t \in Tasks |-> ExpireApproval(ReapAll(task)[t])]

FreshTokens ==
  {k \in Tokens : (\A t \in Tasks : task[t].token # k) /\ (\A a \in Agents : hold[a].token # k)}

-----------------------------------------------------------------------------
(* Founder and operator.                                                   *)

ApproveSupervision ==
  /\ supervision = "pending_approval"
  /\ mission' = "active" /\ supervision' = "active" /\ due' = TRUE
  /\ UNCHANGED <<recoveries, overdue, task, hold>>

\* Variant for mutation: failed checkpoints are left as they are.
AbortUnfinished ==
  /\ \A t \in Tasks : ~Active(task[t])
  /\ task' = [t \in Tasks |->
                IF Waiting(task[t]) THEN [task[t] EXCEPT !.status = "cancelled"] ELSE task[t]]
  /\ mission' = "cancelled" /\ supervision' = "aborted" /\ due' = TRUE
  /\ UNCHANGED <<recoveries, overdue, hold>>

\* abort_supervision: refused only while a checkpoint is held.
AbortSupervision ==
  /\ \A t \in Tasks : ~Active(task[t])
  /\ task' = [t \in Tasks |->
                IF task[t].status \in {"queued", "pending_approval", "failed"}
                  THEN [task[t] EXCEPT !.status = "cancelled"] ELSE task[t]]
  /\ mission' = "cancelled" /\ supervision' = "aborted" /\ due' = TRUE
  /\ UNCHANGED <<recoveries, overdue, hold>>

\* GET /v1/missions/{id} refreshes and commits.
GetMission ==
  /\ mission' = Refreshed(task)
  /\ UNCHANGED <<supervision, recoveries, due, overdue, task, hold>>

\* resume_failed_task on a checkpoint
ResumeTask(t) ==
  /\ task[t].status = "failed" /\ task[t].attempts < AttemptBound
  /\ task' = [task EXCEPT ![t] = Resumed(@)]
  /\ mission' = Refreshed(task')
  /\ UNCHANGED <<supervision, recoveries, due, overdue, hold>>

\* approve_task also makes the supervised mission due at once.
ApproveTask(t) ==
  /\ task[t].approval = "pending"
  /\ task' = [task EXCEPT ![t] = Approved(@)]
  /\ due' = TRUE
  /\ UNCHANGED <<mission, supervision, recoveries, overdue, hold>>

RejectTask(t) ==
  /\ task[t].approval = "pending"
  /\ task' = [task EXCEPT ![t] = Rejected(@)]
  /\ UNCHANGED <<missionVars, hold>>

RevokeTask(t) ==
  /\ task[t].approval = "approved"
  /\ task' = [task EXCEPT ![t] = Revoked(@)]
  /\ UNCHANGED <<missionVars, hold>>

RearmApproval(t) ==
  /\ Waiting(task[t]) /\ task[t].required
  /\ task' = [task EXCEPT ![t] = Rearm(@)]
  /\ UNCHANGED <<missionVars, hold>>

-----------------------------------------------------------------------------
(* Workers.  An accepted heartbeat moves a deadline that is still ahead,   *)
(* which leaves `live' as it is: it is the absence of LeaseLapses.         *)

\* Variant for mutation: a dependency only has to have been taken up.
CandidatesTakenUp(rows) ==
  {t \in Tasks : /\ Leasable(rows[t])
                 /\ mission = "active" /\ ~overdue
                 /\ \A d \in Deps[t] : rows[d].status # "queued"}

\* The mission and dependency clauses of lease_next_task.
Candidates(rows) ==
  {t \in Tasks : /\ Leasable(rows[t])
                 /\ mission = "active" /\ ~overdue
                 /\ \A d \in Deps[t] : rows[d].status = "succeeded"}

LeaseTask(a) ==
  /\ hold[a] = NoHold
  /\ \/ /\ Candidates(Swept) = {}
        /\ task' = Swept
        /\ hold' = hold
     \/ \E t \in Candidates(Swept), k \in FreshTokens :
          /\ task' = [Swept EXCEPT ![t] = Leased(@, a, k)]
          /\ hold' = [hold EXCEPT ![a] = [task |-> t, token |-> k]]
  /\ UNCHANGED missionVars

Verified(a, allowed) ==
  /\ hold[a] # NoHold
  /\ LeaseVerified(task[hold[a].task], a, hold[a].token, allowed)

StartTask(a) ==
  /\ Verified(a, {"leased"})
  /\ task' = [task EXCEPT ![hold[a].task] = Started(@)]
  /\ UNCHANGED <<missionVars, hold>>

\* complete_task and fail_task end with refresh_mission; release_task does not.
CompleteTask(a) ==
  /\ Verified(a, {"running"})
  /\ task' = [task EXCEPT ![hold[a].task] = Succeeded(@)]
  /\ mission' = Refreshed(task')
  /\ UNCHANGED <<supervision, recoveries, due, overdue, hold>>

FailTask(a, retryable) ==
  /\ Verified(a, ActiveLease)
  /\ task' = [task EXCEPT ![hold[a].task] = Failed(@, retryable, TRUE)]
  /\ mission' = Refreshed(task')
  /\ UNCHANGED <<supervision, recoveries, due, overdue, hold>>

ReleaseTask(a) ==
  /\ Verified(a, ActiveLease)
  /\ task' = [task EXCEPT ![hold[a].task] = Released(@)]
  /\ UNCHANGED <<missionVars, hold>>

Forget(a) ==
  /\ hold[a] # NoHold
  /\ hold' = [hold EXCEPT ![a] = NoHold]
  /\ UNCHANGED <<missionVars, task>>

-----------------------------------------------------------------------------
(* The supervisor's pass over the mission: reconcile_mission.              *)

FirstFailed(rows) ==
  {t \in Tasks : /\ rows[t].status = "failed"
                 /\ \A u \in Tasks : rows[u].status = "failed" => Rank[t] <= Rank[u]}

\* Variant for mutation: off by one in the recovery budget.
MayRecoverOnceMore(r) ==
  r.failure \in Recoverable /\ recoveries <= MaxRecoveries /\ r.attempts < r.max /\ ~overdue

MayRecover(r) ==
  r.failure \in Recoverable /\ recoveries < MaxRecoveries /\ r.attempts < r.max /\ ~overdue

\* Variant for mutation: the mission is blocked but nobody is told.
EscalateSilently ==
  /\ mission' = "blocked" /\ due' = TRUE
  /\ UNCHANGED <<supervision, recoveries>>

Escalate ==
  /\ mission' = "blocked" /\ supervision' = "attention_required" /\ due' = TRUE
  /\ UNCHANGED recoveries

ReconcileMission ==
  /\ supervision \in {"active", "recovering"} /\ due
  /\ LET rows == ReapAll(task)
     IN  \/ /\ AllSucceeded(rows)
            /\ mission' = "succeeded" /\ supervision' = "succeeded"
            /\ task' = rows /\ UNCHANGED <<due, recoveries>>
         \/ /\ ~AllSucceeded(rows) /\ overdue
            /\ Escalate /\ task' = rows
         \/ /\ ~AllSucceeded(rows) /\ ~overdue /\ FirstFailed(rows) = {}
            /\ mission' = Refreshed(rows) /\ due' = FALSE
            /\ task' = rows /\ UNCHANGED <<supervision, recoveries>>
         \/ \E t \in FirstFailed(rows) :
              /\ ~overdue /\ MayRecover(rows[t])
              /\ mission' = "active" /\ supervision' = "recovering" /\ due' = FALSE
              /\ recoveries' = recoveries + 1
              /\ task' = [rows EXCEPT ![t] = Rearm(@)]
         \/ \E t \in FirstFailed(rows) :
              /\ ~overdue /\ ~MayRecover(rows[t])
              /\ Escalate /\ task' = rows
  /\ UNCHANGED <<overdue, hold>>

-----------------------------------------------------------------------------
(* The clock.                                                              *)

LeaseLapses(t) ==
  /\ task[t].live
  /\ task' = [task EXCEPT ![t].live = FALSE]
  /\ UNCHANGED <<missionVars, hold>>

ApprovalLapses(t) ==
  /\ task[t].approval = "approved" /\ task[t].fresh
  /\ task' = [task EXCEPT ![t].fresh = FALSE]
  /\ UNCHANGED <<missionVars, hold>>

DeadlinePasses ==
  /\ ~overdue /\ overdue' = TRUE
  /\ UNCHANGED <<mission, supervision, recoveries, due, task, hold>>

\* next_reconcile_at (ten seconds, or the plan's backoff) is reached.
BackoffElapses ==
  /\ ~due /\ due' = TRUE
  /\ UNCHANGED <<mission, supervision, recoveries, overdue, task, hold>>

Next ==
  \/ ApproveSupervision \/ AbortSupervision \/ GetMission \/ ReconcileMission
  \/ DeadlinePasses \/ BackoffElapses
  \/ \E t \in Tasks :
       \/ ResumeTask(t) \/ ApproveTask(t) \/ RejectTask(t) \/ RevokeTask(t)
       \/ RearmApproval(t) \/ LeaseLapses(t) \/ ApprovalLapses(t)
  \/ \E a \in Agents :
       \/ LeaseTask(a) \/ StartTask(a) \/ CompleteTask(a) \/ ReleaseTask(a) \/ Forget(a)
       \/ \E retryable \in BOOLEAN : FailTask(a, retryable)

Spec == Init /\ [][Next]_vars

\* The supervisor daemon posts /v1/supervisor/reconcile in an endless loop; clocks run.
FairSpec ==
  Spec /\ WF_vars(ReconcileMission) /\ WF_vars(BackoffElapses) /\ WF_vars(DeadlinePasses)

-----------------------------------------------------------------------------
(* Properties.                                                             *)

\* Recovery stays within the approved plan: however worker failures, reaped leases and
\* operator resumptions interleave with the supervisor, it never spends more than
\* the approved recoveries and never leaves a task with more attempts than its budget.
RecoveryWithinPlan ==
  /\ recoveries <= MaxRecoveries
  /\ \A t \in Tasks : task[t].attempts <= task[t].max

\* Checkpoints run in dependency order even when earlier ones are recovered or resumed.
CheckpointOrder ==
  \A t \in Tasks : Active(task[t]) => \A d \in Deps[t] : task[d].status = "succeeded"

\* After an abort no checkpoint the plan alone governed is executed again, whatever is
\* resumed, refreshed or completed late.  (One with an approval of its own can be: see
\* the README.)
AbortedNeverRuns ==
  supervision = "aborted" => \A t \in Tasks \ Gated : ~Active(task[t])

\* Success is not claimed early, and only an abort takes it back.
SuccessIsReal ==
  /\ supervision = "succeeded" => AllSucceeded(task)
  /\ mission = "succeeded" => AllSucceeded(task)

\* Under the supervisor's loop a delegated mission always comes to an end the founder
\* can see: success, an exception or the operator's abort.
SupervisionEnds ==
  supervision \in {"active", "recovering"}
    ~> supervision \in {"succeeded", "attention_required", "aborted"}

-----------------------------------------------------------------------------
(* What the M9 runbook promises; see the violation run.                    *)

\* m9 runbook: "pending_approval: the manifest digest is visible, but no task may lease".
NoLeaseBeforeApproval ==
  supervision = "pending_approval" => \A t \in Tasks : ~Active(task[t])

=============================================================================
