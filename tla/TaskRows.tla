------------------------------ MODULE TaskRows ------------------------------
(***************************************************************************)
(* One row of the task table together with its approval row, and what the  *)
(* control plane's services do to such a row.  Every operator is a         *)
(* function from a row to a row: the specifications that extend this       *)
(* module (TaskLease, TaskGraph, MissionSupervision) decide when a row is  *)
(* touched and which rows one database transaction touches together.       *)
(*                                                                         *)
(* Time is abstracted to the two comparisons the code makes with it:       *)
(* `live' is lease_expires_at > now, and `fresh' is the approval's         *)
(* expires_at > now.  Both are set by the service that writes the          *)
(* deadline and fall when the clock passes it.  Nothing reads an approval's*)
(* expires_at unless its status is approved, so `fresh' is kept FALSE when *)
(* an approval leaves that status.                                         *)
(***************************************************************************)
EXTENDS Integers

CONSTANTS Agents,   \* the registered worker identities
          Tokens,   \* the lease tokens that can be drawn
          None      \* SQL NULL

ASSUME NoneAssumption == None \notin Agents /\ None \notin Tokens

ActiveLease == {"leased", "running"}
TerminalTask == {"succeeded", "failed", "cancelled"}
Statuses == {"absent", "pending_approval", "queued"} \cup ActiveLease \cup TerminalTask
Approvals == {"none", "pending", "approved", "rejected", "revoked", "consumed", "expired"}
Failures == {"none", "retryable", "final", "lease_expired", "lease_released"}

Row == [status : Statuses, attempts : Nat, max : Nat, required : BOOLEAN,
        approval : Approvals, fresh : BOOLEAN,
        agent : Agents \cup {None}, token : Tokens \cup {None}, live : BOOLEAN,
        cancel : BOOLEAN, failure : Failures]

\* A task number nobody has created a row for yet.
AbsentRow ==
  [status |-> "absent", attempts |-> 0, max |-> 0, required |-> FALSE,
   approval |-> "none", fresh |-> FALSE, agent |-> None, token |-> None,
   live |-> FALSE, cancel |-> FALSE, failure |-> "none"]

Active(r) == r.status \in ActiveLease
Waiting(r) == r.status \in {"queued", "pending_approval"}

-----------------------------------------------------------------------------
(* Creation and the approval row.                                          *)

\* build_task and persist_new_task: an approval row exists only when required.
Created(required, max) ==
  [AbsentRow EXCEPT !.status = IF required THEN "pending_approval" ELSE "queued",
                    !.required = required, !.max = max,
                    !.approval = IF required THEN "pending" ELSE "none"]

\* Variant for mutation: back to the queue without asking again.
RearmUnasked(r) == [r EXCEPT !.status = "queued"]

\* rearm_task_approval: back to the queue, through a new decision if one is required.
Rearm(r) ==
  IF r.required
    THEN [r EXCEPT !.approval = "pending", !.fresh = FALSE, !.status = "pending_approval"]
    ELSE [r EXCEPT !.status = "queued"]

\* approve_task: the status of the task is overwritten, whatever it was.
Approved(r) == [r EXCEPT !.approval = "approved", !.fresh = TRUE, !.status = "queued"]

\* decide_task, action "reject" and action "revoke".
Rejected(r) == [r EXCEPT !.approval = "rejected", !.status = "cancelled"]
Revoked(r) == [r EXCEPT !.approval = "revoked", !.fresh = FALSE, !.status = "pending_approval"]

\* expire_approvals on one row.
ExpireApproval(r) ==
  IF r.approval = "approved" /\ ~r.fresh
    THEN [r EXCEPT !.approval = "expired",
                   !.status = IF @ = "queued" THEN "pending_approval" ELSE @]
    ELSE r

\* The approval clause of the lease query.
ApprovalValid(r) == ~r.required \/ (r.approval = "approved" /\ r.fresh)

\* Variant for mutation: the approval can be used again.
KeepApproval(r) == r

\* consume_task_approval.
ConsumeApproval(r) ==
  IF r.required THEN [r EXCEPT !.approval = "consumed", !.fresh = FALSE] ELSE r

-----------------------------------------------------------------------------
(* The lease.                                                              *)

ClearLease(r) == [r EXCEPT !.agent = None, !.token = None, !.live = FALSE]

\* Variant for mutation: the attempt count is not looked at.
LeasableAnyAttempt(r) == r.status = "queued" /\ ApprovalValid(r)

\* Variant for mutation: the approval is not looked at again.
LeasableUnapproved(r) == r.status = "queued" /\ r.attempts < r.max

\* The row-local conditions of the lease query (lease_next_task).
Leasable(r) == r.status = "queued" /\ r.attempts < r.max /\ ApprovalValid(r)

\* The assignments of lease_next_task once it has chosen the row.
Leased(r, a, k) ==
  [ConsumeApproval(r) EXCEPT !.status = "leased", !.agent = a, !.attempts = @ + 1,
                             !.token = k, !.live = TRUE, !.failure = "none"]

\* verify_task_lease: status, owner, expiry and token must all agree.
LeaseVerified(r, a, k, allowed) ==
  r.status \in allowed /\ r.agent = a /\ r.live /\ r.token = k

\* start_task, heartbeat_task and complete_task on the row.
Started(r) == [r EXCEPT !.status = "running"]
Heartbeaten(r) == [r EXCEPT !.live = TRUE]
Succeeded(r) == ClearLease([r EXCEPT !.status = "succeeded", !.failure = "none"])

\* fail_task: only an unsupervised retryable failure with attempts left is retried.
Failed(r, retryable, supervised) ==
  LET noted == [r EXCEPT !.failure = IF retryable THEN "retryable" ELSE "final"]
  IN  ClearLease(IF retryable /\ r.attempts < r.max /\ ~supervised
                   THEN Rearm(noted)
                   ELSE [noted EXCEPT !.status = "failed"])

\* release_task: an attempt that never started is refunded.
EffectiveAttempts(r) ==
  IF r.status = "running" \/ r.attempts = 0 THEN r.attempts ELSE r.attempts - 1

Released(r) ==
  LET counted == [r EXCEPT !.attempts = EffectiveAttempts(r)]
  IN  ClearLease(IF r.cancel THEN [counted EXCEPT !.status = "cancelled"]
                 ELSE IF EffectiveAttempts(r) < r.max THEN Rearm(counted)
                 ELSE [counted EXCEPT !.status = "failed", !.failure = "lease_released"])

\* Variant for mutation: only started work is reaped.
RunningExpired(r) == r.status = "running" /\ r.token # None /\ ~r.live

\* Variant for mutation: every row with a deadline that has passed is reaped.
TokenExpired(r) == r.token # None /\ ~r.live

\* reap_expired_leases: which rows it selects and what it does to each.
LeaseExpired(r) == Active(r) /\ r.token # None /\ ~r.live

\* Variant for mutation: off by one in the attempt budget.
ReapedOnceMore(r) ==
  ClearLease(IF r.attempts > r.max
               THEN [r EXCEPT !.status = "failed", !.failure = "lease_expired"]
               ELSE Rearm(r))

\* Variant for mutation: the lease columns are not cleared.
ReapedUncleared(r) ==
  IF r.attempts >= r.max THEN [r EXCEPT !.status = "failed", !.failure = "lease_expired"]
  ELSE Rearm(r)

Reaped(r) ==
  ClearLease(IF r.attempts >= r.max
               THEN [r EXCEPT !.status = "failed", !.failure = "lease_expired"]
               ELSE Rearm(r))

-----------------------------------------------------------------------------
(* Operator and controller interventions.                                  *)

\* resume_failed_task: one more attempt is always granted.
Resumed(r) ==
  Rearm([r EXCEPT !.max = IF r.max > r.attempts THEN r.max ELSE r.attempts + 1])

\* _cancel_task of the graph controller: cooperative while a worker holds the row.
CancelRow(r) ==
  IF r.status \in TerminalTask THEN r
  ELSE IF Active(r) THEN [r EXCEPT !.cancel = TRUE]
  ELSE ClearLease([r EXCEPT !.status = "cancelled", !.cancel = TRUE])

=============================================================================
