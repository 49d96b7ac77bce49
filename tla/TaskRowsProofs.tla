--------------------------- MODULE TaskRowsProofs ---------------------------
(***************************************************************************)
(* What the operators of TaskRows keep true of a row, for the proofs about *)
(* the specifications built from them.  RowInv is the invariant of a row   *)
(* that no graph and no mission controls (TaskLease).  SoundRow is what is *)
(* left of it where a controller may cancel a row and leave its approval   *)
(* open (TaskGraph, MissionSupervision).  RowTame says what a change that  *)
(* is no lease does with the lease columns.                                *)
(***************************************************************************)
EXTENDS TaskRows, TLAPS

\* What every service keeps true of a single row.
RowInv(r) ==
  /\ r \in Row
  /\ Active(r) <=> r.token # None
  /\ Active(r) <=> r.agent # None
  /\ r.live => Active(r)
  /\ ~r.required => r.approval = "none"
  /\ r.required =>
       /\ Active(r) => r.approval = "consumed"
       /\ r.status = "queued" => r.approval = "approved"
       /\ r.approval = "approved" => r.status = "queued"
       /\ r.approval = "pending" => r.status = "pending_approval"
  /\ r.attempts <= r.max
  /\ Waiting(r) => r.attempts < r.max
  /\ Active(r) => r.attempts > 0

-----------------------------------------------------------------------------
(* Every row operator preserves the row invariant.                         *)

\* build_task and persist_new_task produce a good row.
LEMMA CreatedInv ==
  ASSUME NEW required \in BOOLEAN, NEW max \in Nat \ {0}
  PROVE  RowInv(Created(required, max)) /\ Created(required, max).token = None
<1> DEFINE q == Created(required, max)
<1>1. /\ q \in Row /\ q.required = required /\ q.attempts = 0 /\ q.max = max
      /\ q.agent = None /\ q.token = None /\ q.live = FALSE
  BY DEF Row, Created, AbsentRow, Statuses, Approvals, Failures
<1>2. /\ required => q.status = "pending_approval" /\ q.approval = "pending"
      /\ ~required => q.status = "queued" /\ q.approval = "none"
  BY DEF Created, AbsentRow
<1> HIDE DEF q
<1>3. RowInv(q)
  BY <1>1, <1>2 DEF RowInv, Row, Active, Waiting, ActiveLease, TerminalTask
<1> QED BY <1>1, <1>3 DEF q

\* The row nobody has created yet is good.
LEMMA AbsentInv == RowInv(AbsentRow) /\ AbsentRow.token = None
BY NoneAssumption DEF RowInv, AbsentRow, Row, Active, Waiting, ActiveLease, TerminalTask,
  Statuses, Approvals, Failures

\* approve_task on a pending approval: the task is waiting, so it still has an attempt.
LEMMA ApprovedInv ==
  ASSUME NEW r, RowInv(r), r.approval = "pending"
  PROVE  RowInv(Approved(r)) /\ Approved(r).token = r.token
BY NoneAssumption DEF RowInv, Approved, Row, Active, Waiting, ActiveLease, TerminalTask,
  Statuses, Approvals, Failures

\* decide_task, both actions.
LEMMA DecidedInv ==
  ASSUME NEW r, RowInv(r)
  PROVE  /\ r.approval = "pending" => RowInv(Rejected(r)) /\ Rejected(r).token = r.token
         /\ r.approval = "approved" => RowInv(Revoked(r)) /\ Revoked(r).token = r.token
BY NoneAssumption DEF RowInv, Rejected, Revoked, Row, Active, Waiting, ActiveLease,
  TerminalTask, Statuses, Approvals, Failures

\* What clear_lease leaves alone and what it resets.
LEMMA ClearLeaseFields ==
  ASSUME NEW r \in Row
  PROVE  /\ ClearLease(r) \in Row
         /\ ClearLease(r).agent = None /\ ClearLease(r).token = None
         /\ ClearLease(r).live = FALSE
         /\ ClearLease(r).status = r.status /\ ClearLease(r).approval = r.approval
         /\ ClearLease(r).required = r.required
         /\ ClearLease(r).attempts = r.attempts /\ ClearLease(r).max = r.max
BY DEF Row, ClearLease

\* What rearm_task_approval leaves alone and what it writes.
LEMMA RearmFields ==
  ASSUME NEW r \in Row
  PROVE  /\ Rearm(r) \in Row
         /\ Rearm(r).agent = r.agent /\ Rearm(r).token = r.token /\ Rearm(r).live = r.live
         /\ Rearm(r).required = r.required
         /\ Rearm(r).attempts = r.attempts /\ Rearm(r).max = r.max
         /\ r.required => Rearm(r).status = "pending_approval" /\ Rearm(r).approval = "pending"
         /\ ~r.required => Rearm(r).status = "queued" /\ Rearm(r).approval = r.approval
BY DEF Row, Rearm, Statuses, Approvals

\* rearm_task_approval followed by clear_lease, on a row with an attempt left.
LEMMA RearmClearInv ==
  ASSUME NEW r \in Row, ~r.required => r.approval = "none", r.attempts < r.max
  PROVE  RowInv(ClearLease(Rearm(r))) /\ ClearLease(Rearm(r)).token = None
<1> DEFINE q == Rearm(r)
           p == ClearLease(q)
<1>1. /\ q \in Row /\ q.required = r.required /\ q.attempts = r.attempts /\ q.max = r.max
      /\ r.required => q.status = "pending_approval" /\ q.approval = "pending"
      /\ ~r.required => q.status = "queued" /\ q.approval = r.approval
  BY RearmFields
<1> HIDE DEF q
<1>2. /\ p \in Row /\ p.agent = None /\ p.token = None /\ p.live = FALSE
      /\ p.status = q.status /\ p.approval = q.approval /\ p.required = q.required
      /\ p.attempts = q.attempts /\ p.max = q.max
  BY <1>1, ClearLeaseFields
<1> HIDE DEF p
<1>3. RowInv(p)
  BY <1>1, <1>2 DEF RowInv, Row, Active, Waiting, ActiveLease, TerminalTask
<1> QED BY <1>2, <1>3 DEF p, q

\* A terminal status followed by clear_lease, on a row whose approval is not open.
LEMMA TerminalClearInv ==
  ASSUME NEW r \in Row, ~r.required => r.approval = "none", r.attempts <= r.max,
         r.status \in TerminalTask, r.approval \notin {"approved", "pending"}
  PROVE  RowInv(ClearLease(r)) /\ ClearLease(r).token = None
<1> DEFINE p == ClearLease(r)
<1>1. /\ p \in Row /\ p.agent = None /\ p.token = None /\ p.live = FALSE
      /\ p.status = r.status /\ p.approval = r.approval /\ p.required = r.required
      /\ p.attempts = r.attempts /\ p.max = r.max
  BY ClearLeaseFields
<1> HIDE DEF p
<1>2. RowInv(p)
  BY <1>1 DEF RowInv, Row, Active, Waiting, ActiveLease, TerminalTask
<1> QED BY <1>1, <1>2 DEF p

\* rearm_expired_task_approval keeps a waiting row good.
LEMMA RearmedInv ==
  ASSUME NEW r, RowInv(r), Waiting(r)
  PROVE  RowInv(Rearm(r)) /\ Rearm(r).token = r.token
<1> DEFINE q == Rearm(r)
<1>1. r \in Row BY DEF RowInv
<1>2. /\ q \in Row /\ q.required = r.required /\ q.attempts = r.attempts /\ q.max = r.max
      /\ q.agent = r.agent /\ q.token = r.token /\ q.live = r.live
      /\ r.required => q.status = "pending_approval" /\ q.approval = "pending"
      /\ ~r.required => q.status = "queued" /\ q.approval = r.approval
  BY <1>1, RearmFields
<1> HIDE DEF q
<1>3. RowInv(q)
  BY <1>1, <1>2 DEF RowInv, Row, Active, Waiting, ActiveLease, TerminalTask
<1> QED BY <1>2, <1>3 DEF q

\* resume_failed_task always leaves an attempt.
LEMMA ResumedInv ==
  ASSUME NEW r, RowInv(r), r.status = "failed"
  PROVE  RowInv(Resumed(r)) /\ Resumed(r).token = r.token
<1> DEFINE m == [r EXCEPT !.max = IF r.max > r.attempts THEN r.max ELSE r.attempts + 1]
           q == Rearm(m)
<1>1. r \in Row BY DEF RowInv
<1>2. /\ m \in Row /\ m.required = r.required /\ m.attempts = r.attempts
      /\ m.agent = r.agent /\ m.token = r.token /\ m.live = r.live
      /\ m.approval = r.approval /\ m.attempts < m.max
  BY <1>1 DEF Row
<1> HIDE DEF m
<1>3. /\ q \in Row /\ q.required = m.required /\ q.attempts = m.attempts /\ q.max = m.max
      /\ q.agent = m.agent /\ q.token = m.token /\ q.live = m.live
      /\ m.required => q.status = "pending_approval" /\ q.approval = "pending"
      /\ ~m.required => q.status = "queued" /\ q.approval = m.approval
  BY <1>2, RearmFields
<1> HIDE DEF q
<1>4. RowInv(q)
  BY <1>1, <1>2, <1>3 DEF RowInv, Row, Active, Waiting, ActiveLease, TerminalTask
<1> QED BY <1>2, <1>3, <1>4 DEF m, q, Resumed

-----------------------------------------------------------------------------
(* The lease operators preserve the row invariant.                         *)

\* What a good row under a lease looks like to the operators that end the lease.
LEMMA ActiveFields ==
  ASSUME NEW r, RowInv(r), Active(r)
  PROVE  /\ r \in Row /\ r.attempts \in Nat /\ r.max \in Nat
         /\ r.attempts <= r.max /\ r.attempts > 0
         /\ ~r.required => r.approval = "none"
         /\ r.approval \notin {"approved", "pending"}
BY DEF RowInv, Row

\* start_task and heartbeat_task
LEMMA StartedInv ==
  ASSUME NEW r, RowInv(r), Active(r)
  PROVE  /\ RowInv(Started(r)) /\ Started(r).token = r.token
         /\ RowInv(Heartbeaten(r)) /\ Heartbeaten(r).token = r.token
BY NoneAssumption DEF RowInv, Started, Heartbeaten, Row, Active, Waiting, ActiveLease,
  TerminalTask, Statuses, Approvals, Failures

\* complete_task
LEMMA SucceededInv ==
  ASSUME NEW r, RowInv(r), Active(r)
  PROVE  RowInv(Succeeded(r)) /\ Succeeded(r).token = None
<1> DEFINE q == [r EXCEPT !.status = "succeeded", !.failure = "none"]
<1>0. r \in Row BY DEF RowInv
<1>1. /\ q \in Row /\ q.required = r.required /\ q.approval = r.approval
      /\ q.attempts = r.attempts /\ q.max = r.max /\ q.status = "succeeded"
  BY <1>0 DEF Row, Statuses, TerminalTask, Failures
<1> HIDE DEF q
<1>2. RowInv(ClearLease(q)) /\ ClearLease(q).token = None
  BY <1>1, ActiveFields, TerminalClearInv DEF TerminalTask
<1> QED BY <1>2 DEF q, Succeeded

\* fail_task, retried or not
LEMMA FailedInv ==
  ASSUME NEW r, RowInv(r), Active(r), NEW retryable \in BOOLEAN, NEW supervised \in BOOLEAN
  PROVE  RowInv(Failed(r, retryable, supervised)) /\ Failed(r, retryable, supervised).token = None
<1> DEFINE m == [r EXCEPT !.failure = IF retryable THEN "retryable" ELSE "final"]
           q == [m EXCEPT !.status = "failed"]
<1>1. /\ m \in Row /\ m.required = r.required /\ m.approval = r.approval
      /\ m.attempts = r.attempts /\ m.max = r.max
  BY ActiveFields DEF Row, Failures
<1> HIDE DEF m
<1>2. /\ q \in Row /\ q.required = m.required /\ q.approval = m.approval
      /\ q.attempts = m.attempts /\ q.max = m.max /\ q.status = "failed"
  BY <1>1 DEF Row, Statuses, TerminalTask
<1> HIDE DEF q
<1>3. r.attempts < r.max => RowInv(ClearLease(Rearm(m))) /\ ClearLease(Rearm(m)).token = None
  BY <1>1, ActiveFields, RearmClearInv
<1>4. RowInv(ClearLease(q)) /\ ClearLease(q).token = None
  BY <1>1, <1>2, ActiveFields, TerminalClearInv DEF TerminalTask
<1> QED BY <1>3, <1>4 DEF m, q, Failed

\* release_task: refunded, cancelled, requeued or out of attempts
LEMMA ReleasedInv ==
  ASSUME NEW r, RowInv(r), Active(r)
  PROVE  RowInv(Released(r)) /\ Released(r).token = None
<1> DEFINE e == EffectiveAttempts(r)
           c == [r EXCEPT !.attempts = e]
           x == [c EXCEPT !.status = "cancelled"]
           f == [c EXCEPT !.status = "failed", !.failure = "lease_released"]
<1>1. e \in Nat /\ e <= r.max
  BY ActiveFields DEF EffectiveAttempts
<1> HIDE DEF e
<1>2. /\ c \in Row /\ c.required = r.required /\ c.approval = r.approval
      /\ c.attempts = e /\ c.max = r.max
  BY <1>1, ActiveFields DEF Row
<1> HIDE DEF c
<1>3. /\ x \in Row /\ x.required = c.required /\ x.approval = c.approval
      /\ x.attempts = c.attempts /\ x.max = c.max /\ x.status = "cancelled"
  BY <1>2 DEF Row, Statuses, TerminalTask
<1>4. /\ f \in Row /\ f.required = c.required /\ f.approval = c.approval
      /\ f.attempts = c.attempts /\ f.max = c.max /\ f.status = "failed"
  BY <1>2 DEF Row, Statuses, TerminalTask, Failures
<1> HIDE DEF x, f
<1>5. e < r.max => RowInv(ClearLease(Rearm(c))) /\ ClearLease(Rearm(c)).token = None
  BY <1>2, ActiveFields, RearmClearInv
<1>6. RowInv(ClearLease(x)) /\ ClearLease(x).token = None
  BY <1>1, <1>2, <1>3, ActiveFields, TerminalClearInv DEF TerminalTask
<1>7. RowInv(ClearLease(f)) /\ ClearLease(f).token = None
  BY <1>1, <1>2, <1>4, ActiveFields, TerminalClearInv DEF TerminalTask
<1> QED BY <1>5, <1>6, <1>7 DEF e, c, x, f, Released

\* reap_expired_leases on a selected row
LEMMA ReapedInv ==
  ASSUME NEW r, RowInv(r), Active(r)
  PROVE  RowInv(Reaped(r)) /\ Reaped(r).token = None
<1> DEFINE q == [r EXCEPT !.status = "failed", !.failure = "lease_expired"]
<1>0. r \in Row BY DEF RowInv
<1>1. /\ q \in Row /\ q.required = r.required /\ q.approval = r.approval
      /\ q.attempts = r.attempts /\ q.max = r.max /\ q.status = "failed"
  BY <1>0 DEF Row, Statuses, TerminalTask, Failures
<1> HIDE DEF q
<1>2. RowInv(ClearLease(q)) /\ ClearLease(q).token = None
  BY <1>1, ActiveFields, TerminalClearInv DEF TerminalTask
<1>3. ~(r.attempts >= r.max) => RowInv(ClearLease(Rearm(r))) /\ ClearLease(Rearm(r)).token = None
  BY ActiveFields, RearmClearInv
<1> QED BY <1>2, <1>3 DEF q, Reaped

\* expire_approvals on one row
LEMMA ExpireApprovalInv ==
  ASSUME NEW r, RowInv(r)
  PROVE  RowInv(ExpireApproval(r)) /\ ExpireApproval(r).token = r.token
<1>1. CASE r.approval = "approved" /\ ~r.fresh
  <2> DEFINE q == [r EXCEPT !.approval = "expired", !.status = "pending_approval"]
  <2>1. r.required /\ r.status = "queued"
    BY <1>1 DEF RowInv
  <2>2. ExpireApproval(r) = q
    BY <1>1, <2>1 DEF ExpireApproval
  <2>3. RowInv(q) /\ q.token = r.token
    BY <2>1 DEF RowInv, Row, Active, Waiting, ActiveLease, TerminalTask, Statuses, Approvals
  <2> QED BY <2>2, <2>3
<1>2. CASE ~(r.approval = "approved" /\ ~r.fresh)
  BY <1>2 DEF ExpireApproval
<1> QED BY <1>1, <1>2

\* lease_next_task on the chosen row
LEMMA LeasedInv ==
  ASSUME NEW r, RowInv(r), Leasable(r), NEW a \in Agents, NEW k \in Tokens
  PROVE  RowInv(Leased(r, a, k)) /\ Leased(r, a, k).token = k
<1> DEFINE c == ConsumeApproval(r)
           q == [c EXCEPT !.status = "leased", !.agent = a, !.attempts = @ + 1,
                          !.token = k, !.live = TRUE, !.failure = "none"]
<1>1. /\ c \in Row /\ c.required = r.required /\ c.attempts = r.attempts /\ c.max = r.max
      /\ r.required => c.approval = "consumed"
      /\ ~r.required => c.approval = r.approval
  BY DEF RowInv, Row, ConsumeApproval, Approvals
<1>2. r.attempts < r.max /\ r.attempts \in Nat /\ r.max \in Nat
  BY DEF Leasable, RowInv, Row
<1> HIDE DEF c
<1>3. /\ q \in Row /\ q.required = c.required /\ q.attempts = c.attempts + 1
      /\ q.max = c.max /\ q.approval = c.approval /\ q.status = "leased"
      /\ q.agent = a /\ q.token = k /\ q.live = TRUE
  <2>1. c.attempts + 1 \in Nat BY <1>1, <1>2
  <2>2. "leased" \in Statuses /\ "none" \in Failures
    BY DEF Statuses, ActiveLease, Failures
  <2> QED BY <1>1, <2>1, <2>2 DEF Row
<1> HIDE DEF q
<1>4. RowInv(q)
  BY <1>1, <1>2, <1>3, NoneAssumption DEF RowInv, Active, Waiting, ActiveLease
<1> QED BY <1>3, <1>4 DEF c, q, Leased

\* The clock passing a lease deadline or an approval's expiry.
LEMMA LapseInv ==
  ASSUME NEW r, RowInv(r)
  PROVE  /\ RowInv([r EXCEPT !.live = FALSE]) /\ [r EXCEPT !.live = FALSE].token = r.token
         /\ RowInv([r EXCEPT !.fresh = FALSE]) /\ [r EXCEPT !.fresh = FALSE].token = r.token
BY DEF RowInv, Row, Active, Waiting

-----------------------------------------------------------------------------
(* Rows under a controller that cancels them and leaves their approval.    *)

SoundRow(r) ==
  /\ r \in Row
  /\ r.attempts <= r.max
  /\ ~r.required => r.approval = "none"
  /\ r.approval \in {"pending", "approved"} => Waiting(r) \/ r.status = "cancelled"

\* What every change of a row but a lease and a completion keeps.
RowKept(r, q) ==
  /\ SoundRow(q)
  /\ q.required = r.required
  /\ q.status = "succeeded" <=> r.status = "succeeded"
  /\ r.status = "succeeded" => q.attempts = r.attempts
  /\ q.status = "absent" <=> r.status = "absent"
  /\ Active(q) => Active(r)
  /\ (~r.required /\ r.status = "cancelled") => q.status = "cancelled"
  /\ r.cancel => q.cancel

\* A row that is left alone is kept.
LEMMA SameKept ==
  ASSUME NEW r, SoundRow(r)
  PROVE  RowKept(r, r)
BY DEF RowKept

\* A created row is sound, waits and has no approval yet.
LEMMA CreatedSound ==
  ASSUME NEW required \in BOOLEAN, NEW max \in Nat
  PROVE  /\ SoundRow(Created(required, max))
         /\ Waiting(Created(required, max))
         /\ Created(required, max).required = required
<1> DEFINE q == Created(required, max)
<1>1. /\ q \in Row /\ q.required = required /\ q.attempts = 0 /\ q.max = max
      /\ required => q.status = "pending_approval" /\ q.approval = "pending"
      /\ ~required => q.status = "queued" /\ q.approval = "none"
  BY DEF Row, Created, AbsentRow, Statuses, Approvals, Failures
<1> HIDE DEF q
<1>2. SoundRow(q) /\ Waiting(q) BY <1>1 DEF SoundRow, Waiting
<1> QED BY <1>1, <1>2 DEF q

\* approve_task and decide_task under their conditions
LEMMA DecidedKept ==
  ASSUME NEW r, SoundRow(r)
  PROVE  /\ r.approval = "pending" => RowKept(r, Approved(r)) /\ RowKept(r, Rejected(r))
         /\ r.approval = "approved" => RowKept(r, Revoked(r))
BY DEF SoundRow, RowKept, Approved, Rejected, Revoked, Row, Active, Waiting, ActiveLease,
  TerminalTask, Statuses, Approvals

\* rearm_task_approval on a row that waits, failed or is held
LEMMA RearmKept ==
  ASSUME NEW r, SoundRow(r), Waiting(r) \/ Active(r) \/ r.status = "failed"
  PROVE  RowKept(r, Rearm(r)) /\ Waiting(Rearm(r))
BY DEF SoundRow, RowKept, Rearm, Row, Active, Waiting, ActiveLease, TerminalTask, Statuses,
  Approvals

\* resume_failed_task
LEMMA ResumedKept ==
  ASSUME NEW r, SoundRow(r), r.status = "failed"
  PROVE  RowKept(r, Resumed(r))
<1> DEFINE m == [r EXCEPT !.max = IF r.max > r.attempts THEN r.max ELSE r.attempts + 1]
<1>1. SoundRow(m) /\ m.status = "failed" /\ m.required = r.required /\ m.cancel = r.cancel
      /\ m.attempts = r.attempts
  BY DEF SoundRow, Row, Waiting
<1> HIDE DEF m
<1>2. RowKept(m, Rearm(m)) BY <1>1, RearmKept
<1>3. RowKept(r, Rearm(m)) BY <1>1, <1>2 DEF RowKept, Active, ActiveLease
<1> QED BY <1>3 DEF m, Resumed

\* The clock, and the worker calls that change no outcome.
LEMMA TickKept ==
  ASSUME NEW r, SoundRow(r)
  PROVE  /\ RowKept(r, [r EXCEPT !.live = FALSE])
         /\ RowKept(r, [r EXCEPT !.fresh = FALSE])
         /\ Active(r) => RowKept(r, Started(r)) /\ RowKept(r, Heartbeaten(r))
<1>1. RowKept(r, [r EXCEPT !.live = FALSE]) BY DEF SoundRow, RowKept, Row, Active, Waiting
<1>2. RowKept(r, [r EXCEPT !.fresh = FALSE]) BY DEF SoundRow, RowKept, Row, Active, Waiting
<1>3. Active(r) => RowKept(r, Started(r))
  BY DEF SoundRow, RowKept, Started, Row, Active, Waiting, ActiveLease, Statuses
<1>4. RowKept(r, Heartbeaten(r))
  BY DEF SoundRow, RowKept, Heartbeaten, Row, Active, Waiting
<1> QED BY <1>1, <1>2, <1>3, <1>4

\* expire_approvals on one row
LEMMA ExpireKept ==
  ASSUME NEW r, SoundRow(r)
  PROVE  RowKept(r, ExpireApproval(r))
<1>1. CASE r.approval = "approved" /\ ~r.fresh
  <2> DEFINE status == IF r.status = "queued" THEN "pending_approval" ELSE r.status
             q == [r EXCEPT !.approval = "expired", !.status = status]
  <2>1. /\ status \in {"pending_approval", "cancelled"}
        /\ r.status = "cancelled" => status = "cancelled"
        /\ r.status \notin {"succeeded", "absent"}
    BY <1>1 DEF SoundRow, Waiting
  <2> HIDE DEF status
  <2>2. RowKept(r, q)
    BY <1>1, <2>1 DEF SoundRow, RowKept, Row, Active, Waiting, ActiveLease, TerminalTask,
      Statuses, Approvals
  <2> QED BY <1>1, <2>2 DEF ExpireApproval, status
<1>2. CASE ~(r.approval = "approved" /\ ~r.fresh)
  BY <1>2, SameKept DEF ExpireApproval
<1> QED BY <1>1, <1>2

\* clear_lease
LEMMA ClearKept ==
  ASSUME NEW r, NEW q, RowKept(r, q)
  PROVE  RowKept(r, ClearLease(q))
BY DEF SoundRow, RowKept, ClearLease, Row, Active, Waiting

\* reap_expired_leases, fail_task and release_task on a held row
LEMMA EndedKept ==
  ASSUME NEW r, SoundRow(r), Active(r), NEW retryable \in BOOLEAN, NEW supervised \in BOOLEAN
  PROVE  /\ RowKept(r, Reaped(r))
         /\ RowKept(r, Failed(r, retryable, supervised))
         /\ RowKept(r, Released(r))
<1>0. r \in Row /\ r.status \in ActiveLease /\ r.approval \notin {"pending", "approved"}
  BY DEF SoundRow, Active, Waiting, ActiveLease
<1>1. RowKept(r, Reaped(r))
  <2> DEFINE f == [r EXCEPT !.status = "failed", !.failure = "lease_expired"]
  <2>1. RowKept(r, f)
    BY <1>0 DEF SoundRow, RowKept, Row, Active, Waiting, ActiveLease, TerminalTask, Statuses,
      Failures
  <2> HIDE DEF f
  <2>2. RowKept(r, ClearLease(f)) /\ RowKept(r, ClearLease(Rearm(r)))
    BY <2>1, RearmKept, ClearKept
  <2> QED BY <2>2 DEF f, Reaped
<1>2. RowKept(r, Failed(r, retryable, supervised))
  <2> DEFINE m == [r EXCEPT !.failure = IF retryable THEN "retryable" ELSE "final"]
             f == [m EXCEPT !.status = "failed"]
  <2>1. /\ SoundRow(m) /\ Active(m) /\ m.required = r.required /\ m.cancel = r.cancel
        /\ m.approval = r.approval
    BY DEF SoundRow, Row, Active, Waiting, Failures
  <2> HIDE DEF m
  <2>2. RowKept(m, f)
    BY <1>0, <2>1 DEF SoundRow, RowKept, Row, Active, Waiting, ActiveLease, TerminalTask,
      Statuses
  <2> HIDE DEF f
  <2>3. RowKept(m, ClearLease(f)) /\ RowKept(m, ClearLease(Rearm(m)))
    BY <2>1, <2>2, RearmKept, ClearKept
  <2>4. RowKept(r, ClearLease(f)) /\ RowKept(r, ClearLease(Rearm(m)))
    BY <1>0, <2>1, <2>3 DEF RowKept, Active, ActiveLease
  <2> QED BY <2>4 DEF m, f, Failed
<1>3. RowKept(r, Released(r))
  <2> DEFINE e == EffectiveAttempts(r)
             c == [r EXCEPT !.attempts = e]
             x == [c EXCEPT !.status = "cancelled"]
             f == [c EXCEPT !.status = "failed", !.failure = "lease_released"]
  <2>1. e \in Nat /\ e <= r.max
    BY <1>0 DEF EffectiveAttempts, SoundRow, Row
  <2> HIDE DEF e
  <2>2. /\ SoundRow(c) /\ Active(c) /\ c.required = r.required /\ c.cancel = r.cancel
        /\ c.approval = r.approval
    BY <1>0, <2>1 DEF SoundRow, Row, Active, Waiting
  <2> HIDE DEF c
  <2>3. RowKept(c, x)
    BY <1>0, <2>2 DEF SoundRow, RowKept, Row, Active, Waiting, ActiveLease, TerminalTask,
      Statuses
  <2>4. RowKept(c, f)
    <3>1. /\ f \in Row /\ f.status = "failed" /\ f.required = c.required /\ f.cancel = c.cancel
          /\ f.approval = c.approval /\ f.attempts = c.attempts /\ f.max = c.max
      BY <2>2 DEF SoundRow, Row, TerminalTask, Statuses, Failures
    <3> HIDE DEF f
    <3> QED BY <1>0, <2>2, <3>1 DEF SoundRow, RowKept, Active, Waiting, ActiveLease
  <2> HIDE DEF x, f
  <2>5. RowKept(c, ClearLease(x)) /\ RowKept(c, ClearLease(f)) /\ RowKept(c, ClearLease(Rearm(c)))
    BY <2>2, <2>3, <2>4, RearmKept, ClearKept
  <2>6. RowKept(r, ClearLease(x)) /\ RowKept(r, ClearLease(f)) /\ RowKept(r, ClearLease(Rearm(c)))
    BY <1>0, <2>2, <2>5 DEF RowKept, Active, ActiveLease
  <2> QED BY <2>6 DEF e, c, x, f, Released
<1> QED BY <1>1, <1>2, <1>3

\* _cancel_task: a node that is held is asked to stop, one that waits is cancelled.
LEMMA CancelKept ==
  ASSUME NEW r, SoundRow(r), r.status # "absent"
  PROVE  /\ RowKept(r, CancelRow(r))
         /\ Active(CancelRow(r)) => CancelRow(r).cancel
         /\ r.status = "failed" => CancelRow(r).status = "failed"
<1>1. CASE r.status \in TerminalTask
  BY <1>1, SameKept DEF CancelRow, Active, ActiveLease, TerminalTask
<1>2. CASE Active(r)
  BY <1>2 DEF CancelRow, SoundRow, RowKept, Row, Active, Waiting, ActiveLease, TerminalTask
<1>3. CASE r.status \notin TerminalTask /\ ~Active(r)
  <2> DEFINE x == [r EXCEPT !.status = "cancelled", !.cancel = TRUE]
  <2>1. RowKept(r, x) /\ x.cancel /\ x.status = "cancelled"
    BY <1>3 DEF SoundRow, RowKept, Row, Active, Waiting, ActiveLease, TerminalTask, Statuses
  <2> HIDE DEF x
  <2>2. RowKept(r, ClearLease(x)) /\ ClearLease(x).status = "cancelled"
    BY <2>1, ClearKept, ClearLeaseFields DEF RowKept, SoundRow
  <2>3. CancelRow(r) = ClearLease(x) BY <1>3 DEF CancelRow, x
  <2> QED BY <1>3, <2>2, <2>3 DEF Active, ActiveLease, TerminalTask
<1> QED BY <1>1, <1>2, <1>3

\* complete_task on a held row
LEMMA SucceededSound ==
  ASSUME NEW r, SoundRow(r), Active(r)
  PROVE  /\ SoundRow(Succeeded(r)) /\ Succeeded(r).status = "succeeded"
         /\ Succeeded(r).required = r.required
<1> DEFINE q == [r EXCEPT !.status = "succeeded", !.failure = "none"]
<1>1. SoundRow(q) /\ q.status = "succeeded" /\ q.required = r.required
  BY DEF SoundRow, Row, Active, Waiting, ActiveLease, TerminalTask, Statuses, Failures
<1> HIDE DEF q
<1>2. /\ SoundRow(ClearLease(q)) /\ ClearLease(q).status = "succeeded"
      /\ ClearLease(q).required = r.required
  BY <1>1, ClearLeaseFields DEF SoundRow, Waiting
<1> QED BY <1>2 DEF q, Succeeded

\* lease_next_task on the chosen row
LEMMA LeasedSound ==
  ASSUME NEW r, SoundRow(r), Leasable(r), NEW a \in Agents, NEW k \in Tokens
  PROVE  /\ SoundRow(Leased(r, a, k)) /\ Leased(r, a, k).status = "leased"
         /\ Leased(r, a, k).required = r.required
<1> DEFINE c == ConsumeApproval(r)
           q == [c EXCEPT !.status = "leased", !.agent = a, !.attempts = @ + 1,
                          !.token = k, !.live = TRUE, !.failure = "none"]
<1>1. /\ c \in Row /\ c.required = r.required /\ c.attempts = r.attempts /\ c.max = r.max
      /\ r.required => c.approval = "consumed"
      /\ ~r.required => c.approval = r.approval
  BY DEF SoundRow, Row, ConsumeApproval, Approvals
<1>2. r.attempts < r.max /\ r.attempts \in Nat /\ r.max \in Nat
  BY DEF Leasable, SoundRow, Row
<1> HIDE DEF c
<1>3. /\ q \in Row /\ q.required = c.required /\ q.attempts = c.attempts + 1
      /\ q.max = c.max /\ q.approval = c.approval /\ q.status = "leased"
  <2>1. c.attempts + 1 \in Nat BY <1>1, <1>2
  <2>2. "leased" \in Statuses /\ "none" \in Failures
    BY DEF Statuses, ActiveLease, Failures
  <2> QED BY <1>1, <2>1, <2>2 DEF Row
<1> HIDE DEF q
<1>4. SoundRow(q)
  BY <1>1, <1>2, <1>3 DEF SoundRow, Waiting
<1> QED BY <1>1, <1>3, <1>4 DEF c, q, Leased

-----------------------------------------------------------------------------
(* Tokens: only a lease writes a new one.                                  *)

\* What every change of a row but a lease and a cancellation does with its token, its
\* deadline and a request to stop.
RowTame(r, q) ==
  /\ q.token = r.token \/ q.token = None
  /\ (r.live => Active(r)) => (q.live => Active(q))
  /\ q.cancel = r.cancel

\* approve_task, decide_task, rearm_task_approval, expire_approvals and the clock
LEMMA WaitingTame ==
  ASSUME NEW r, SoundRow(r)
  PROVE  /\ r.approval = "pending" => RowTame(r, Approved(r)) /\ RowTame(r, Rejected(r))
         /\ r.approval = "approved" => RowTame(r, Revoked(r))
         /\ Waiting(r) => RowTame(r, Rearm(r))
         /\ RowTame(r, ExpireApproval(r))
         /\ RowTame(r, [r EXCEPT !.live = FALSE]) /\ RowTame(r, [r EXCEPT !.fresh = FALSE])
<1>1. r \in Row BY DEF SoundRow
<1>2. r.approval \in {"pending", "approved"} => ~Active(r)
  BY DEF SoundRow, Waiting, Active, ActiveLease
<1>3. ASSUME NEW q, q.token = r.token, q.live = r.live, q.cancel = r.cancel,
             Active(r) => Active(q)
      PROVE  RowTame(r, q)
  BY <1>3 DEF RowTame
<1>4. r.approval = "pending" => RowTame(r, Approved(r)) /\ RowTame(r, Rejected(r))
  <2> DEFINE p == Approved(r)
             q == Rejected(r)
  <2>1. /\ p.token = r.token /\ p.live = r.live /\ p.cancel = r.cancel
        /\ q.token = r.token /\ q.live = r.live /\ q.cancel = r.cancel
    BY <1>1 DEF Approved, Rejected, Row
  <2> HIDE DEF p, q
  <2>2. r.approval = "pending" => RowTame(r, p) /\ RowTame(r, q) BY <1>2, <1>3, <2>1
  <2> QED BY <2>2 DEF p, q
<1>5. r.approval = "approved" => RowTame(r, Revoked(r))
  <2> DEFINE q == Revoked(r)
  <2>1. q.token = r.token /\ q.live = r.live /\ q.cancel = r.cancel
    BY <1>1 DEF Revoked, Row
  <2> HIDE DEF q
  <2>2. r.approval = "approved" => RowTame(r, q) BY <1>2, <1>3, <2>1
  <2> QED BY <2>2 DEF q
<1>6. Waiting(r) => RowTame(r, Rearm(r))
  <2> DEFINE q == Rearm(r)
  <2>1. q.token = r.token /\ q.live = r.live /\ q.cancel = r.cancel
    BY <1>1 DEF Rearm, Row
  <2>2. Waiting(r) => ~Active(r) BY DEF Waiting, Active, ActiveLease
  <2> HIDE DEF q
  <2>3. Waiting(r) => RowTame(r, q) BY <1>3, <2>1, <2>2
  <2> QED BY <2>3 DEF q
<1>7. RowTame(r, ExpireApproval(r))
  <2>1. CASE r.approval = "approved" /\ ~r.fresh
    <3> DEFINE x == IF r.status = "queued" THEN "pending_approval" ELSE r.status
    <3>1. ExpireApproval(r) = [r EXCEPT !.approval = "expired", !.status = x]
      BY <2>1 DEF ExpireApproval
    <3> HIDE DEF x
    <3> QED BY <1>1, <1>2, <1>3, <2>1, <3>1 DEF Row
  <2>2. CASE ~(r.approval = "approved" /\ ~r.fresh)
    <3>1. ExpireApproval(r) = r BY <2>2 DEF ExpireApproval
    <3> QED BY <3>1 DEF RowTame
  <2> QED BY <2>1, <2>2
<1>8. RowTame(r, [r EXCEPT !.live = FALSE]) BY <1>1 DEF RowTame, Row
<1>9. RowTame(r, [r EXCEPT !.fresh = FALSE]) BY <1>1, <1>3 DEF Row, Active
<1> QED BY <1>4, <1>5, <1>6, <1>7, <1>8, <1>9

\* clear_lease after whatever left the request to stop alone
LEMMA ClearTame ==
  ASSUME NEW r, NEW q \in Row, q.cancel = r.cancel
  PROVE  RowTame(r, ClearLease(q))
<1>1. /\ ClearLease(q).token = None /\ ClearLease(q).live = FALSE
      /\ ClearLease(q).cancel = q.cancel
  BY DEF ClearLease, Row
<1> QED BY <1>1 DEF RowTame

\* The worker calls, reap_expired_leases and resume_failed_task
LEMMA HeldTame ==
  ASSUME NEW r, SoundRow(r), NEW retryable \in BOOLEAN, NEW supervised \in BOOLEAN
  PROVE  /\ RowTame(r, Started(r))
         /\ Active(r) => RowTame(r, Heartbeaten(r))
         /\ RowTame(r, Succeeded(r))
         /\ RowTame(r, Reaped(r))
         /\ RowTame(r, Failed(r, retryable, supervised))
         /\ RowTame(r, Released(r))
         /\ r.status = "failed" => RowTame(r, Resumed(r))
<1>1. r \in Row BY DEF SoundRow
<1>2. \A q \in Row : Rearm(q) \in Row /\ Rearm(q).cancel = q.cancel
  BY DEF Rearm, Row, Statuses, Approvals
<1>3. RowTame(r, Started(r)) BY <1>1 DEF RowTame, Started, Row, Active, ActiveLease
<1>4. Active(r) => RowTame(r, Heartbeaten(r)) BY <1>1 DEF RowTame, Heartbeaten, Row, Active
<1>5. RowTame(r, Succeeded(r))
  <2> DEFINE q == [r EXCEPT !.status = "succeeded", !.failure = "none"]
  <2>1. q \in Row /\ q.cancel = r.cancel BY <1>1 DEF Row, Statuses, TerminalTask, Failures
  <2> HIDE DEF q
  <2> QED BY <2>1, ClearTame DEF Succeeded, q
<1>6. RowTame(r, Reaped(r))
  <2> DEFINE q == [r EXCEPT !.status = "failed", !.failure = "lease_expired"]
  <2>1. q \in Row /\ q.cancel = r.cancel BY <1>1 DEF Row, Statuses, TerminalTask, Failures
  <2> HIDE DEF q
  <2>2. RowTame(r, ClearLease(q)) /\ RowTame(r, ClearLease(Rearm(r)))
    BY <1>1, <1>2, <2>1, ClearTame
  <2> QED BY <2>2 DEF Reaped, q
<1>7. RowTame(r, Failed(r, retryable, supervised))
  <2> DEFINE m == [r EXCEPT !.failure = IF retryable THEN "retryable" ELSE "final"]
             q == [m EXCEPT !.status = "failed"]
  <2>1. m \in Row /\ m.cancel = r.cancel BY <1>1 DEF Row, Failures
  <2> HIDE DEF m
  <2>2. q \in Row /\ q.cancel = r.cancel BY <2>1 DEF Row, Statuses, TerminalTask
  <2> HIDE DEF q
  <2>3. RowTame(r, ClearLease(q)) /\ RowTame(r, ClearLease(Rearm(m)))
    BY <1>2, <2>1, <2>2, ClearTame
  <2> QED BY <2>3 DEF Failed, m, q
<1>8. RowTame(r, Released(r))
  <2> DEFINE e == EffectiveAttempts(r)
             c == [r EXCEPT !.attempts = e]
             x == [c EXCEPT !.status = "cancelled"]
             f == [c EXCEPT !.status = "failed", !.failure = "lease_released"]
  <2>1. e \in Nat BY <1>1 DEF EffectiveAttempts, Row
  <2> HIDE DEF e
  <2>2. c \in Row /\ c.cancel = r.cancel BY <1>1, <2>1 DEF Row
  <2> HIDE DEF c
  <2>3. /\ x \in Row /\ x.cancel = r.cancel /\ f \in Row /\ f.cancel = r.cancel
    BY <2>2 DEF Row, Statuses, TerminalTask, Failures
  <2> HIDE DEF x, f
  <2>4. /\ RowTame(r, ClearLease(x)) /\ RowTame(r, ClearLease(f))
        /\ RowTame(r, ClearLease(Rearm(c)))
    BY <1>2, <2>2, <2>3, ClearTame
  <2> QED BY <2>4 DEF Released, e, c, x, f
<1>9. r.status = "failed" => RowTame(r, Resumed(r))
  <2> DEFINE x == IF r.max > r.attempts THEN r.max ELSE r.attempts + 1
             m == [r EXCEPT !.max = x]
  <2>1. x \in Nat BY <1>1 DEF Row
  <2> HIDE DEF x
  <2>2. /\ m \in Row /\ m.cancel = r.cancel /\ m.token = r.token /\ m.live = r.live
    BY <1>1, <2>1 DEF Row
  <2> HIDE DEF m
  <2>3. /\ Rearm(m).token = r.token /\ Rearm(m).live = r.live /\ Rearm(m).cancel = r.cancel
    BY <2>2 DEF Rearm, Row
  <2>4. r.status = "failed" => ~Active(r) BY DEF Active, ActiveLease
  <2> QED BY <2>3, <2>4 DEF RowTame, Resumed, m, x
<1> QED BY <1>3, <1>4, <1>5, <1>6, <1>7, <1>8, <1>9

\* _cancel_task writes no token, and a row it leaves as it was has ended or was asked before.
LEMMA CancelTame ==
  ASSUME NEW r \in Row
  PROVE  /\ CancelRow(r).token = r.token \/ CancelRow(r).token = None
         /\ (r.live => Active(r)) => (CancelRow(r).live => Active(CancelRow(r)))
         /\ CancelRow(r).status \in TerminalTask \/ CancelRow(r).cancel
         /\ Active(CancelRow(r)) => Active(r)
         /\ r.status = "succeeded" => CancelRow(r).status = "succeeded"
<1>1. CASE r.status \in TerminalTask
  <2>1. CancelRow(r) = r BY <1>1 DEF CancelRow
  <2> QED BY <1>1, <2>1
<1>2. CASE r.status \notin TerminalTask /\ Active(r)
  <2>1. CancelRow(r) = [r EXCEPT !.cancel = TRUE] BY <1>2 DEF CancelRow
  <2> QED BY <1>2, <2>1 DEF Row, Active
<1>3. CASE r.status \notin TerminalTask /\ ~Active(r)
  <2> DEFINE q == [r EXCEPT !.status = "cancelled", !.cancel = TRUE]
  <2>1. CancelRow(r) = ClearLease(q) BY <1>3 DEF CancelRow
  <2>2. q \in Row /\ q.cancel = TRUE /\ q.status = "cancelled"
    BY DEF Row, Statuses, TerminalTask
  <2> HIDE DEF q
  <2>3. /\ ClearLease(q).token = None /\ ClearLease(q).live = FALSE
        /\ ClearLease(q).cancel = TRUE /\ ClearLease(q).status = "cancelled"
    BY <2>2 DEF ClearLease, Row
  <2> QED BY <1>3, <2>1, <2>3 DEF Active, ActiveLease, TerminalTask
<1> QED BY <1>1, <1>2, <1>3

\* A created row has no token and is not asked to stop.
LEMMA CreatedFields ==
  ASSUME NEW required, NEW max
  PROVE  /\ Created(required, max).token = None /\ Created(required, max).live = FALSE
         /\ Created(required, max).cancel = FALSE
BY DEF Created, AbsentRow

\* lease_next_task: one attempt for one token
LEMMA LeasedFields ==
  ASSUME NEW r \in Row, NEW a, NEW k
  PROVE  Leased(r, a, k).attempts = r.attempts + 1 /\ Leased(r, a, k).token = k
         /\ Active(Leased(r, a, k)) /\ Leased(r, a, k).cancel = r.cancel
<1> DEFINE c == ConsumeApproval(r)
<1>1. /\ c \in Row /\ c.attempts = r.attempts /\ c.cancel = r.cancel
  BY DEF ConsumeApproval, Row, Approvals
<1> HIDE DEF c
<1> DEFINE q == [c EXCEPT !.status = "leased", !.agent = a, !.attempts = @ + 1,
                          !.token = k, !.live = TRUE, !.failure = "none"]
<1>2. Leased(r, a, k) = q BY DEF Leased, c
<1>3. q.attempts = c.attempts + 1 /\ q.token = k /\ q.status = "leased" /\ q.cancel = c.cancel
  BY <1>1 DEF Row
<1> HIDE DEF q
<1> QED BY <1>1, <1>2, <1>3 DEF Active, ActiveLease

\* reap_expired_leases takes no attempt back.
LEMMA ReapedAttempts ==
  ASSUME NEW r \in Row
  PROVE  Reaped(r).attempts = r.attempts
<1> DEFINE q == [r EXCEPT !.status = "failed", !.failure = "lease_expired"]
<1>1. q \in Row /\ q.attempts = r.attempts BY DEF Row, Statuses, TerminalTask, Failures
<1> HIDE DEF q
<1>2. Rearm(r) \in Row /\ Rearm(r).attempts = r.attempts BY RearmFields
<1>3. \A p \in Row : ClearLease(p).attempts = p.attempts BY ClearLeaseFields
<1>4. ClearLease(q).attempts = r.attempts /\ ClearLease(Rearm(r)).attempts = r.attempts
  BY <1>1, <1>2, <1>3
<1> QED BY <1>4 DEF Reaped, q

\* A row that can be leased after the sweep of a poll was waiting or held by a lease that
\* had run out.
LEMMA SweptLeasable ==
  ASSUME NEW r \in Row, r.live => Active(r), NEW p,
         p = ExpireApproval(IF LeaseExpired(r) THEN Reaped(r) ELSE r), Leasable(p)
  PROVE  ~r.live /\ r.status \in {"queued"} \cup ActiveLease /\ p.attempts = r.attempts
<1> DEFINE s == IF LeaseExpired(r) THEN Reaped(r) ELSE r
<1>1. p = ExpireApproval(s) OBVIOUS
<1>2. s \in Row
  <2>1. Reaped(r) \in Row
    <3> DEFINE q == [r EXCEPT !.status = "failed", !.failure = "lease_expired"]
    <3>1. q \in Row BY DEF Row, Statuses, TerminalTask, Failures
    <3> HIDE DEF q
    <3>2. ClearLease(q) \in Row /\ ClearLease(Rearm(r)) \in Row
      BY <3>1, RearmFields, ClearLeaseFields
    <3> QED BY <3>2 DEF Reaped, q
  <2> QED BY <2>1
<1>3. p = s
  <2> HIDE DEF s
  <2>1. CASE s.approval = "approved" /\ ~s.fresh
    <3> DEFINE x == IF s.status = "queued" THEN "pending_approval" ELSE s.status
    <3>1. p = [s EXCEPT !.approval = "expired", !.status = x] BY <1>1, <2>1 DEF ExpireApproval
    <3>2. x # "queued" OBVIOUS
    <3> HIDE DEF x
    <3>3. p.status # "queued" BY <1>2, <3>1, <3>2 DEF Row
    <3> QED BY <3>3 DEF Leasable
  <2>2. CASE ~(s.approval = "approved" /\ ~s.fresh) BY <1>1, <2>2 DEF ExpireApproval
  <2> QED BY <2>1, <2>2
<1>4. CASE LeaseExpired(r) BY <1>3, <1>4, ReapedAttempts DEF LeaseExpired, Active
<1>5. CASE ~LeaseExpired(r)
  <2>1. r.status = "queued" BY <1>3, <1>5 DEF Leasable
  <2> QED BY <1>3, <1>5, <2>1 DEF Active, ActiveLease
<1> QED BY <1>4, <1>5

=============================================================================
