---------------------------- MODULE AlphaCampaign ----------------------------
(***************************************************************************)
(* One alpha research campaign: a queue of questions, each driven through  *)
(* draft, (engineering ladder,) card confirmation, qualification,          *)
(* independent review and execution by a director that reconciles it, with *)
(* workers, reviewers, the founder and operators acting in between.        *)
(*                                                                         *)
(* A step is one committed request or one pass of the director over the    *)
(* campaign.  Everything reconcile_campaign does is a function of the      *)
(* transaction's view; a view with ok = FALSE is a request that raised and *)
(* was rolled back.  A task row keeps what the campaign reads: its leases, *)
(* tokens and attempts are the subject of TaskLease.                       *)
(***************************************************************************)
EXTENDS Naturals, FiniteSets, Sums

CONSTANTS Questions,      \* length of the research queue
          LastRung,       \* rungs of the engineering ladder (G3 .. G12 in the code)
          MaxTrials,      \* max_total_trials
          MaxVariants,    \* max_variants_per_hypothesis
          MaxFailures,    \* max_consecutive_failures
          Protocols       \* the execution protocols of the instance

ASSUME CampaignAssumption ==
  /\ Questions \in Nat \ {0} /\ LastRung \in Nat \ {0}
  /\ MaxTrials \in Nat \ {0} /\ MaxVariants \in Nat \ {0} /\ MaxFailures \in Nat \ {0}
  /\ Protocols \subseteq {"native", "governed", "delegated"}

Queue == 1..Questions
Stages == {"D", "G", "C", "Q", "E"}
Kinds == {"strategy_spec", "causality_leakage"}

InFlight == {"queued", "leased", "running"}
Ended == {"succeeded", "failed", "cancelled"}
TaskStatuses == {"absent", "pending_approval"} \cup InFlight \cup Ended

\* TERMINAL without needs_attention.
Final == {"completed_no_candidate", "shadow_candidate", "cancelled"}

\* Failed engineering that the next rung may correct: a rejecting reviewer, or a bound of the
\* attempt itself (changed files, diff lines, validation runtime).
Corrections == {"review", "bounds"}

\* What an execution can establish.
Outcomes == {"candidate", "negative", "failed"}

\* What a succeeded stage reports and why a failed one failed.  An unusable execution is one
\* whose receipt is refused whatever the campaign's counters are: there is none, it is no
\* valid attempt, it cannot be published, it names another digest, commit, dataset or
\* question, it used more variants than one hypothesis may, or it claims a candidate
\* without a complete, reviewed and published bridge.
Results == [D |-> {"card", "requirement"}, G |-> {"patch"}, C |-> {},
            Q |-> {"ready", "unready", "differs", "unbound", "unattributed"},
            E |-> Outcomes \cup {"unusable"}]
Failures == [D |-> {"other"}, G |-> Corrections \cup {"handoff", "plan", "other"}, C |-> {},
             Q |-> {"other"}, E |-> {"oversized", "other"}]
Notes == {"none", "recovered"} \cup UNION {Results[k] \cup Failures[k] : k \in Stages}

Reasons == {"none", "research_mandate_unavailable", "strategy_engineering_completed",
            "strategy_engineering_failed", "strategy_not_qualified",
            "qualification_differs_from_approved_card", "qualification_dataset_binding_mismatch",
            "strategy_producer_identity_missing", "independent_strategy_review_pending",
            "governed_pipeline_task_failed", "governed_pipeline_task_cancelled",
            "execution_task_failed", "execution_task_cancelled", "consecutive_failure_limit",
            "duration_budget_exhausted", "selected_research_queue_exhausted",
            "trial_budget_exhausted", "operator_cancelled"}

VARIABLES protocol,   \* specification.execution_protocol
          campaign,   \* the campaign row
          task,       \* the stage tasks of every question; n: rung of G, trials of E
          route,      \* the newest evaluation route of every question
          answer,     \* the outcome of the retained attempt on every question
          overdue,    \* activated_at + max_duration_seconds <= now
          mandate     \* the research mandate the campaign is bound to

vars == <<protocol, campaign, task, route, answer, overdue, mandate>>

Row == [status : TaskStatuses, approval : {"none", "pending", "approved", "lapsed", "closed"},
        note : Notes, n : Nat, cancel : BOOLEAN]
AbsentRow == [status |-> "absent", approval |-> "none", note |-> "none", n |-> 0, cancel |-> FALSE]

Route == [status : {"none", "assigned", "blocked", "completed"},
          review : [Kinds -> {"none", "assigned", "lost", "approve", "reject"}], stale : BOOLEAN]
NoRoute == [status |-> "none", review |-> [k \in Kinds |-> "none"], stale |-> FALSE]

TypeOK ==
  /\ protocol \in Protocols
  /\ campaign \in [status : {"awaiting_activation", "running", "needs_attention"} \cup Final,
                   why : Reasons, blame : Stages \cup {"none"},
                   done : 0..Questions, failures : 0..Questions, trials : 0..MaxTrials]
  /\ task \in [Queue -> [Stages -> Row]]
  /\ \A q \in Queue : task[q]["G"].n <= LastRung /\ task[q]["E"].n <= MaxVariants
  /\ route \in [Queue -> Route]
  /\ answer \in [Queue -> {"none", "invalid"} \cup Outcomes]
  /\ overdue \in BOOLEAN
  /\ mandate \in {"active", "lapsed", "closed"}

\* register_campaign: the frozen queue and budget, awaiting activation.
Init ==
  /\ protocol \in Protocols
  /\ campaign = [status |-> "awaiting_activation", why |-> "none", blame |-> "none",
                 done |-> 0, failures |-> 0, trials |-> 0]
  /\ task = [q \in Queue |-> [k \in Stages |-> AbsentRow]]
  /\ route = [q \in Queue |-> NoRoute]
  /\ answer = [q \in Queue |-> "none"]
  /\ overdue = FALSE /\ mandate = "active"

-----------------------------------------------------------------------------
(* The transaction's view.                                                 *)

\* at is the task the pipeline waits for, staffed whether the evaluator catalog, which
\* changes at any time, can fill a route now.
ViewWhen(staffed) ==
  [campaign |-> campaign, task |-> task, route |-> route, answer |-> answer,
   at |-> "none", ok |-> TRUE, staffed |-> staffed]
View == ViewWhen(TRUE)

Commit(view) ==
  \E s \in {view} :
    /\ s.ok
    /\ campaign' = s.campaign /\ task' = s.task /\ route' = s.route /\ answer' = s.answer

Refused(s) == [s EXCEPT !.ok = FALSE]
Open(s) == s.campaign.done < Questions
Current(s) == s.campaign.done + 1
Stage(s, k) == IF Open(s) THEN s.task[Current(s)][k] ELSE AbsentRow

Running(s) == [s EXCEPT !.campaign.status = "running", !.campaign.why = "none",
                        !.campaign.blame = "none"]
Because(s, why) == [s EXCEPT !.campaign.why = why, !.campaign.blame = "none"]
Park(s, why, blame) == [s EXCEPT !.campaign.status = "needs_attention",
                                 !.campaign.why = why, !.campaign.blame = blame]
At(s, k) == [s EXCEPT !.at = k]

\* _create_stage_task with its contract: through an approval when one is required.
CreateStage(s, k, gated) ==
  At([s EXCEPT !.task[Current(s)][k] =
        [AbsentRow EXCEPT !.status = IF gated THEN "pending_approval" ELSE "queued",
                          !.approval = IF gated THEN "pending" ELSE "none"]], k)

\* _create_strategy_engineering_task: one rung of the ladder, never gated.
CreateRung(s, rung) ==
  At([s EXCEPT !.task[Current(s)]["G"] = [AbsentRow EXCEPT !.status = "queued", !.n = rung]], "G")

\* The first task of a question whose tasks do not exist yet.
OpenQuestion(s) ==
  IF protocol = "native" THEN CreateStage(s, "E", FALSE)
  ELSE IF protocol = "delegated" /\ mandate # "active"
    THEN Park(s, "research_mandate_unavailable", "none")
  ELSE CreateStage(Because(s, "none"), "D", FALSE)

-----------------------------------------------------------------------------
(* Budgets and retained attempts.                                          *)

\* Variant for mutation: consecutive failures are not counted.
BudgetReasonIgnoringFailures(s) ==
  IF overdue THEN "duration_budget_exhausted"
  ELSE IF ~Open(s) THEN "selected_research_queue_exhausted"
  ELSE IF s.campaign.trials >= MaxTrials THEN "trial_budget_exhausted"
  ELSE "none"

\* Variant for mutation: the clock is looked at only after a failure.
BudgetReasonLate(s) ==
  IF overdue /\ s.campaign.failures > 0 THEN "duration_budget_exhausted"
  ELSE IF s.campaign.failures >= MaxFailures THEN "consecutive_failure_limit"
  ELSE IF ~Open(s) THEN "selected_research_queue_exhausted"
  ELSE IF s.campaign.trials >= MaxTrials THEN "trial_budget_exhausted"
  ELSE "none"

\* The budget checks of reconcile_campaign, in their order; registration made
\* max_hypotheses at least the length of the queue.
BudgetReason(s) ==
  IF overdue THEN "duration_budget_exhausted"
  ELSE IF s.campaign.failures >= MaxFailures THEN "consecutive_failure_limit"
  ELSE IF ~Open(s) THEN "selected_research_queue_exhausted"
  ELSE IF s.campaign.trials >= MaxTrials THEN "trial_budget_exhausted"
  ELSE "none"

Close(s, why) ==
  IF why = "consecutive_failure_limit" THEN Park(s, why, "none")
  ELSE [Because(s, why) EXCEPT !.campaign.status = "completed_no_candidate"]

\* The reconciliation at the end of record_attempt: the next question has no tasks, so
\* it either closes the campaign or opens that question.
AfterAnswer(s) ==
  IF s.campaign.status # "running" THEN s
  ELSE IF BudgetReason(s) # "none" THEN Close(s, BudgetReason(s))
  ELSE OpenQuestion(s)

\* Variant for mutation: an attempt on whatever question, whatever was retained for it.
RecordUnnumbered(s, outcome, cost) ==
  AfterAnswer([s EXCEPT !.answer[Questions] = outcome, !.campaign.done = @ + 1])

\* What record_attempt does not accept.
Unrecordable(s, outcome, cost) ==
  s.campaign.status # "running" \/ outcome = "unusable" \/ s.campaign.trials + cost > MaxTrials

\* record_attempt on the current question.
Record(s, outcome, cost) ==
  IF Unrecordable(s, outcome, cost) THEN Refused(s)
  ELSE AfterAnswer(
         [s EXCEPT !.answer[Current(s)] = outcome,
                   !.campaign.status = IF outcome = "candidate" THEN "shadow_candidate" ELSE @,
                   !.campaign.why = "none", !.campaign.blame = "none",
                   !.campaign.done = @ + 1, !.campaign.trials = @ + cost,
                   !.campaign.failures = IF outcome = "failed" THEN @ + 1 ELSE 0])

\* _consume_completed_execution_task: what the execution published is retained, or the pass
\* raises, before it has looked at the deadline.
ConsumeExecution(s) == Record(s, Stage(s, "E").note, Stage(s, "E").n)

\* _retain_strategy_review_rejection, _retain_invalid_representation_contract and
\* _retain_exhausted_strategy_engineering: an invalid attempt without trials.
RetainReviewRejection(s) == At(Record(s, "invalid", 0), "none")
RetainInvalidRepresentation(s) == Record(Running(s), "invalid", 0)
RetainExhaustedEngineering(s) == Record(Running(s), "invalid", 0)

-----------------------------------------------------------------------------
(* Independent review.                                                     *)

\* create_route and _assign_route: every required kind gets an evaluator, or none does.
NewRoute(staffed) ==
  IF staffed
    THEN [status |-> "assigned", review |-> [k \in Kinds |-> "assigned"], stale |-> FALSE]
    ELSE [NoRoute EXCEPT !.status = "blocked"]

\* The route the director continues with: created, superseded because an evaluator became
\* stale or a review task ended without a verdict, or retried after a change of catalog.
Superseded(r) == r.status = "assigned" /\ (r.stale \/ \E k \in Kinds : r.review[k] = "lost")
Routed(r, staffed) ==
  IF r.status \in {"none", "blocked"} \/ Superseded(r) THEN NewRoute(staffed) ELSE r

ReviewsReject(r) == r.status = "completed" /\ \E k \in Kinds : r.review[k] = "reject"

\* Variant for mutation: one approving review is enough.
ReviewsApproveAny(r) == \E k \in Kinds : r.review[k] = "approve"

\* validated_alpha_strategy_reviews and alpha_strategy_reviews_approved.
ReviewsApprove(r) == r.status = "completed" /\ \A k \in Kinds : r.review[k] = "approve"

AdvanceReview(s) ==
  LET q == Current(s)
      t == [s EXCEPT !.route[q] = Routed(@, s.staffed)]
  IN  IF ReviewsReject(t.route[q]) THEN RetainReviewRejection(t)
      ELSE IF ~ReviewsApprove(t.route[q])
        THEN At(Because(t, "independent_strategy_review_pending"), "Q")
      ELSE IF t.task[q]["E"].status = "absent" THEN CreateStage(t, "E", protocol = "governed")
      ELSE At(t, "E")

-----------------------------------------------------------------------------
(* _advance_governed_pipeline.                                             *)

\* Variant for mutation: the ladder goes on past its last rung.
NextRungUnbounded(g) == g.status = "failed" /\ g.note \in Corrections \cup {"handoff"}

\* Whether the failed rung g is followed by another one.
NextRung(g) ==
  g.status = "failed" /\ g.note \in Corrections \cup {"handoff"} /\ g.n < LastRung

\* The draft asked for engineering.  "leased" is in none of the lists of the code, so a
\* leased rung is handled like a failed one.
AdvanceEngineering(s) ==
  LET g == Stage(s, "G")
      t == IF g.status = "absent" THEN CreateRung(s, 1)
           ELSE IF NextRung(g) THEN CreateRung(s, g.n + 1)
           ELSE At(s, "G")
      status == Stage(t, "G").status
  IN  CASE status \in {"queued", "running"} -> t
        [] status = "succeeded" -> Park(t, "strategy_engineering_completed", "G")
        [] OTHER -> Park(t, "strategy_engineering_failed", "G")

\* From the confirmed card to the review.  Qualified evidence that does not match the
\* campaign parks it; a missing producer identity only waits.
AdvanceQualification(s) ==
  LET row == Stage(s, "Q")
  IN  CASE row.status = "absent" -> CreateStage(s, "Q", FALSE)
        [] row.status \notin {"absent", "succeeded"} -> At(s, "Q")
        [] row.status = "succeeded" ->
             CASE row.note = "unready" -> At(Park(s, "strategy_not_qualified", "none"), "Q")
               [] row.note = "differs" ->
                    At(Park(s, "qualification_differs_from_approved_card", "none"), "Q")
               [] row.note = "unbound" ->
                    At(Park(s, "qualification_dataset_binding_mismatch", "none"), "Q")
               [] row.note = "unattributed" ->
                    At(Because(s, "strategy_producer_identity_missing"), "Q")
               [] row.note = "ready" -> AdvanceReview(s)

\* The founder's confirmation of the card; a lapsed approval raises.
AdvanceConfirmation(s) ==
  LET row == Stage(s, "C")
      confirmed == [s EXCEPT !.task[Current(s)]["C"].status = "succeeded",
                             !.task[Current(s)]["C"].approval = "closed"]
  IN  CASE row.status = "absent" -> CreateStage(s, "C", TRUE)
        [] row.status = "succeeded" -> AdvanceQualification(s)
        [] OTHER -> CASE row.approval = "approved" -> AdvanceQualification(confirmed)
                      [] row.approval = "lapsed" -> Refused(s)
                      [] OTHER -> At(s, "C")

AdvancePipeline(s) ==
  LET t == Because(s, "none")
      draft == Stage(t, "D")
  IN  IF draft.status = "absent" \/ (protocol = "delegated" /\ mandate # "active")
        THEN OpenQuestion(t)
      ELSE IF draft.status # "succeeded" THEN At(t, "D")
      ELSE IF draft.note # "card" THEN AdvanceEngineering(t)
      ELSE IF protocol = "governed" THEN AdvanceConfirmation(t)
      ELSE AdvanceQualification(t)

\* _ensure_execution_task.
Advance(s) ==
  IF protocol # "native" THEN AdvancePipeline(s)
  ELSE IF Stage(s, "E").status = "absent" THEN OpenQuestion(s)
  ELSE At(s, "E")

\* The end of reconcile_campaign: the task the campaign waits for ended badly.
ParkOnFailure(s) ==
  LET status == IF s.at = "none" THEN "none" ELSE Stage(s, s.at).status
  IN  CASE status = "failed" ->
             IF protocol = "native" THEN Park(s, "execution_task_failed", "E")
             ELSE Park(s, "governed_pipeline_task_failed", s.at)
        [] status = "cancelled" ->
             IF protocol = "native" THEN Park(s, "execution_task_cancelled", "E")
             ELSE Park(s, "governed_pipeline_task_cancelled", s.at)
        [] OTHER -> s

-----------------------------------------------------------------------------
(* reconcile_campaign.                                                     *)

\* A campaign closed by the clock reopens when its execution turns out to be in flight.
ReopenExecution(s) ==
  IF /\ s.campaign.status = "completed_no_candidate"
     /\ s.campaign.why = "duration_budget_exhausted"
     /\ Stage(s, "E").status \in InFlight \cup {"succeeded"}
    THEN Running(s) ELSE s

ParkedFor(s, reasons) == s.campaign.status = "needs_attention" /\ s.campaign.why \in reasons

\* Parked on a failed stage whose task has been put back to work.
Resumable(s) ==
  /\ ParkedFor(s, {"governed_pipeline_task_failed"})
  /\ Stage(s, s.campaign.blame).status \notin {"absent", "failed", "cancelled"}

\* Variant for mutation: any correction on the last rung is taken for a rejected strategy.
RecoverEngineeringAnyKind(s) ==
  IF /\ ParkedFor(s, {"governed_pipeline_task_failed"}) /\ s.campaign.blame = "G"
     /\ Stage(s, "G").status = "failed" /\ Stage(s, "G").n = LastRung
    THEN RetainExhaustedEngineering(s) ELSE s

\* Parked on a failed rung: nothing more to try, one more rung, or nothing to do here.
RecoverEngineering(s) ==
  LET g == Stage(s, "G")
      blamed == /\ ParkedFor(s, {"governed_pipeline_task_failed", "strategy_engineering_failed"})
                /\ s.campaign.blame = "G"
  IN  IF blamed /\ g.status = "failed" /\ g.note = "review" /\ g.n = LastRung
        THEN RetainExhaustedEngineering(s)
      ELSE IF blamed /\ g.status = "failed" /\ g.note \in Corrections \cup {"handoff"}
        THEN Running(s)
      ELSE IF ParkedFor(s, {"strategy_engineering_failed"}) /\ g.status \notin {"failed", "cancelled"}
        THEN Running(s)
      ELSE s

InvalidPlan(s) ==
  /\ ParkedFor(s, {"governed_pipeline_task_failed", "strategy_engineering_failed"})
  /\ s.campaign.blame = "G" /\ Stage(s, "G").status = "failed" /\ Stage(s, "G").note = "plan"

\* What a running campaign does next: consume, wait, close or advance.
Proceed(s) ==
  IF s.campaign.status # "running" \/ ~s.ok THEN s
  ELSE IF Stage(s, "E").status = "succeeded" THEN ConsumeExecution(s)
  ELSE IF Stage(s, "E").status \in InFlight THEN s
  ELSE IF BudgetReason(s) # "none" THEN Close(s, BudgetReason(s))
  ELSE ParkOnFailure(Advance(s))

Reconciled(s) ==
  IF Resumable(s) THEN Running(s)
  ELSE IF InvalidPlan(s) THEN RetainInvalidRepresentation(s)
  ELSE Proceed(RecoverEngineering(ReopenExecution(s)))

-----------------------------------------------------------------------------
(* Requests on the campaign, and the director.                             *)

Environment == <<protocol, overdue, mandate>>

\* activate_campaign by the founder, or by the director under an active mandate.
ActivateCampaign ==
  /\ campaign.status = "awaiting_activation"
  /\ Commit(Advance(Running(View)))
  /\ UNCHANGED Environment

\* Variant for mutation: one category is forgotten.
AutoRecoverableTasks ==
  {"governed_pipeline_task_failed", "qualification_dataset_binding_mismatch",
   "strategy_not_qualified"}

AutoRecoverable ==
  {"governed_pipeline_task_failed", "qualification_dataset_binding_mismatch",
   "strategy_engineering_failed", "strategy_not_qualified"}

\* One pass of the campaign director; campaigns of a mandate are the delegated ones.
Director ==
  /\ \/ campaign.status = "running"
     \/ protocol = "delegated" /\ mandate # "closed" /\ ParkedFor(View, AutoRecoverable)
  /\ \E staffed \in BOOLEAN : Commit(Reconciled(ViewWhen(staffed)))
  /\ UNCHANGED Environment

\* The reconcile route accepts a campaign in any state.
ReconcileCampaign ==
  /\ campaign.status # "awaiting_activation"
  /\ \E staffed \in BOOLEAN : Commit(Reconciled(ViewWhen(staffed)))
  /\ UNCHANGED Environment

ResumeCampaign ==
  /\ ParkedFor(View, {"governed_pipeline_task_failed", "governed_pipeline_task_cancelled"})
  /\ Stage(View, campaign.blame).status \notin {"failed", "cancelled"}
  /\ \E staffed \in BOOLEAN : Commit(Reconciled(Running(ViewWhen(staffed))))
  /\ UNCHANGED Environment

\* The newest stage task of the campaign: the one cancel_campaign reaches.
Newest ==
  LET q == IF campaign.done < Questions /\ \E k \in Stages : task[campaign.done + 1][k].status # "absent"
             THEN campaign.done + 1 ELSE campaign.done
      exists == {k \in Stages : q > 0 /\ task[q][k].status # "absent"}
      order == [D |-> 1, G |-> 2, C |-> 3, Q |-> 4, E |-> 5]
  IN  {<<q, k>> : k \in {k \in exists : \A l \in exists : order[l] <= order[k]}}

CancelledRow(r) ==
  IF r.status \in Ended THEN r
  ELSE [r EXCEPT !.cancel = TRUE,
                 !.status = IF @ \in {"leased", "running"} THEN @ ELSE "cancelled"]

\* Variant for mutation: a campaign that has ended is cancelled too.
CancelCampaignEnded ==
  /\ campaign.status # "cancelled"
  /\ campaign' = [campaign EXCEPT !.status = "cancelled", !.why = "operator_cancelled",
                                  !.blame = "none"]
  /\ UNCHANGED <<task, route, answer>> /\ UNCHANGED Environment

CancelCampaign ==
  /\ campaign.status \notin Final
  /\ campaign' = [campaign EXCEPT !.status = "cancelled", !.why = "operator_cancelled",
                                  !.blame = "none"]
  /\ task' = [q \in Queue |-> [k \in Stages |->
                IF <<q, k>> \in Newest THEN CancelledRow(task[q][k]) ELSE task[q][k]]]
  /\ UNCHANGED <<route, answer>> /\ UNCHANGED Environment

\* recover_completed_execution: the worker publishes an execution whose hand-off was too
\* large.  The campaign is set running whatever its status; a repeated call finds its
\* attempt retained and leaves it at that.
RecoverCompletedExecution(q, outcome, cost) ==
  /\ q = campaign.done + 1      \* an answered question has no failed execution
  /\ task[q]["E"].status = "failed" /\ task[q]["E"].note = "oversized"
  /\ LET s == [Running(View) EXCEPT !.task[q]["E"].status = "succeeded",
                                    !.task[q]["E"].note = "recovered",
                                    !.task[q]["E"].n = cost]
     IN  Commit(Record(s, outcome, cost))
  /\ UNCHANGED Environment

RepeatRecovery(q) ==
  /\ task[q]["E"].status = "succeeded" /\ task[q]["E"].note = "recovered"
  /\ Commit(Running(View))
  /\ UNCHANGED Environment

-----------------------------------------------------------------------------
(* Workers, reviewers, the founder and the clock.                          *)

SetRow(q, k, row) ==
  /\ task' = [task EXCEPT ![q][k] = row]
  /\ UNCHANGED <<campaign, route, answer>> /\ UNCHANGED Environment

\* C asks for a capability no worker has.
Lease(q, k) ==
  /\ task[q][k].status = "queued" /\ k # "C"
  /\ task[q][k].approval \in {"none", "approved"}
  /\ SetRow(q, k, [task[q][k] EXCEPT !.status = "leased",
                                     !.approval = IF @ = "none" THEN @ ELSE "closed"])

Start(q, k) ==
  task[q][k].status = "leased" /\ SetRow(q, k, [task[q][k] EXCEPT !.status = "running"])

Succeed(q, k) ==
  /\ task[q][k].status = "running" /\ ~task[q][k].cancel
  /\ \E note \in Results[k], n \in IF k = "E" THEN 0..MaxVariants ELSE {task[q][k].n} :
       SetRow(q, k, [task[q][k] EXCEPT !.status = "succeeded", !.note = note, !.n = n])

Fail(q, k) ==
  /\ task[q][k].status \in {"leased", "running"}
  /\ \E note \in Failures[k] :
       SetRow(q, k, [task[q][k] EXCEPT !.status = "failed", !.note = note])

\* A release, a retry or an expired lease: back to the queue, a gated task through a new
\* decision, a cancelled one out.
Requeue(q, k) ==
  /\ task[q][k].status \in {"leased", "running"}
  /\ SetRow(q, k, [task[q][k] EXCEPT
       !.status = IF task[q][k].cancel THEN "cancelled"
                  ELSE IF task[q][k].approval = "none" THEN "queued" ELSE "pending_approval",
       !.approval = IF @ = "none" \/ task[q][k].cancel THEN @ ELSE "pending"])

\* resume_failed_task: an operator grants one more attempt.
ResumeTask(q, k) ==
  /\ task[q][k].status = "failed"
  /\ SetRow(q, k, [task[q][k] EXCEPT !.note = "none",
       !.status = IF task[q][k].approval = "none" THEN "queued" ELSE "pending_approval",
       !.approval = IF @ = "none" THEN @ ELSE "pending"])

\* The founder's decisions; approving overwrites the task's status.
Approve(q, k) ==
  /\ task[q][k].approval = "pending"
  /\ SetRow(q, k, [task[q][k] EXCEPT !.approval = "approved", !.status = "queued"])

Reject(q, k) ==
  /\ task[q][k].approval = "pending"
  /\ SetRow(q, k, [task[q][k] EXCEPT !.approval = "closed", !.status = "cancelled"])

\* The approval's expiry, then the sweep of the lease query; the approval is asked again.
ApprovalLapses(q, k) ==
  /\ task[q][k].approval = "approved"
  /\ SetRow(q, k, [task[q][k] EXCEPT !.approval = "lapsed"])

ApprovalAskedAgain(q, k) ==
  /\ task[q][k].approval = "lapsed"
  /\ SetRow(q, k, [task[q][k] EXCEPT !.approval = "pending", !.status = "pending_approval"])

TaskStep(q, k) ==
  \/ Lease(q, k) \/ Start(q, k) \/ Succeed(q, k) \/ Fail(q, k) \/ Requeue(q, k)
  \/ ResumeTask(q, k) \/ Approve(q, k) \/ Reject(q, k)
  \/ ApprovalLapses(q, k) \/ ApprovalAskedAgain(q, k)

SetRoute(q, r) ==
  /\ route' = [route EXCEPT ![q] = r]
  /\ UNCHANGED <<campaign, task, answer>> /\ UNCHANGED Environment

\* complete_strategy_review_task and complete_assignment: the last verdict issues the
\* independence receipt and completes the route.
ReviewVerdict(q, k) ==
  /\ route[q].status = "assigned" /\ route[q].review[k] = "assigned"
  /\ \E verdict \in {"approve", "reject"} :
       LET review == [route[q].review EXCEPT ![k] = verdict]
       IN  SetRoute(q, [route[q] EXCEPT !.review = review,
             !.status = IF \A l \in Kinds : review[l] \in {"approve", "reject"}
                          THEN "completed" ELSE @])

\* A review task ends without a verdict; a routed evaluator is retired or changes.
ReviewLost(q, k) ==
  /\ route[q].status = "assigned" /\ route[q].review[k] = "assigned"
  /\ SetRoute(q, [route[q] EXCEPT !.review[k] = "lost"])

EvaluatorStale(q) ==
  /\ route[q].status = "assigned" /\ ~route[q].stale
  /\ SetRoute(q, [route[q] EXCEPT !.stale = TRUE])

DeadlinePasses ==
  /\ campaign.status # "awaiting_activation" /\ ~overdue
  /\ overdue' = TRUE
  /\ UNCHANGED <<protocol, campaign, task, route, answer, mandate>>

\* The mandate's validity ends, then the discovery director closes it; a renewal is a
\* new mandate, to which this campaign is not bound.
MandateEnds ==
  /\ protocol = "delegated" /\ mandate # "closed"
  /\ mandate' = IF mandate = "active" THEN "lapsed" ELSE "closed"
  /\ UNCHANGED <<protocol, campaign, task, route, answer, overdue>>

-----------------------------------------------------------------------------

Next ==
  \/ ActivateCampaign
  \/ Director
  \/ ReconcileCampaign
  \/ ResumeCampaign
  \/ CancelCampaign
  \/ \E q \in Queue :
       \/ \E outcome \in Results["E"], cost \in 0..MaxVariants :
            RecoverCompletedExecution(q, outcome, cost)
       \/ RepeatRecovery(q)
       \/ \E k \in Stages : TaskStep(q, k)
       \/ \E k \in Kinds : ReviewVerdict(q, k) \/ ReviewLost(q, k)
       \/ EvaluatorStale(q)
  \/ DeadlinePasses
  \/ MandateEnds

Spec == Init /\ [][Next]_vars

\* The director is a loop that polls for ever.
FairSpec == Spec /\ WF_vars(Director)

-----------------------------------------------------------------------------
(* Safety.                                                                 *)

Exists(q) == \E k \in Stages : task[q][k].status # "absent"
TrialsBefore(q) == SumTo([i \in Queue |-> task[i]["E"].n], q - 1)

\* The books of record_attempt: whatever is consumed, recovered, repeated, retained as
\* invalid or reopened, exactly the questions before the current one are answered, and the
\* trial count is what their executions reported.
AnswersAccounted ==
  /\ \A q \in Queue : (answer[q] # "none") <=> (q <= campaign.done)
  /\ campaign.trials = TrialsBefore(campaign.done + 1)

\* No question is opened once a budget is used up: not after MaxFailures failed answers in
\* a row, not after the last trial, not before the previous answer.
OpenedWithinBudget ==
  \A q \in Queue : Exists(q) =>
    /\ q <= campaign.done + 1
    /\ TrialsBefore(q) < MaxTrials
    /\ q > MaxFailures => \E i \in (q - MaxFailures)..(q - 1) : answer[i] # "failed"

\* An execution exists only behind every gate, and all the gates stay closed behind it: the
\* card was drafted, the founder confirmed it where the protocol asks for it, qualification
\* was ready, both independent reviews approve; nothing earlier in the question still runs.
ExecutionGated ==
  \A q \in Queue : (protocol # "native" /\ task[q]["E"].status # "absent") =>
    /\ task[q]["D"].status = "succeeded" /\ task[q]["D"].note = "card"
    /\ protocol = "governed" => task[q]["C"].status = "succeeded"
    /\ task[q]["Q"].status = "succeeded" /\ task[q]["Q"].note = "ready"
    /\ \A k \in Kinds : route[q].review[k] = "approve"

\* While a stage of the current question is at work, a delegated campaign is never parked
\* where the director does not look again.
LiveWorkIsWatched ==
  (/\ protocol = "delegated" /\ mandate = "active" /\ campaign.status = "needs_attention"
   /\ campaign.done < Questions
   /\ \E k \in Stages : task[campaign.done + 1][k].status \in InFlight)
  => campaign.why \in AutoRecoverable

\* A question is given up as invalid only on a reviewer's word: a rejected strategy, or an
\* engineering ladder that was climbed to its last rung or cannot express its question.
InvalidIsEarned ==
  [][\A q \in Queue : (answer'[q] = "invalid" /\ answer[q] # "invalid") =>
       \/ ReviewsReject(route[q])
       \/ /\ task[q]["G"].status = "failed"
          /\ task[q]["G"].note = "plan" \/ (task[q]["G"].note = "review" /\ task[q]["G"].n = LastRung)
    ]_vars

-----------------------------------------------------------------------------
(* What the discovery director relies on.                                  *)

Ledger == INSTANCE CampaignLedger
            WITH ledger <- [status |-> campaign.status, trials |-> campaign.trials]

\* The campaign keeps the contract AlphaDiscovery assumes of it: activated once, trials only
\* grow and stay within max_total_trials, only an open campaign is cancelled.
KeepsLedger == Ledger!Spec

-----------------------------------------------------------------------------
(* Liveness.                                                               *)

\* The finished execution of the current question cannot be recorded: its receipt is
\* unusable or does not fit into the trial budget.  reconcile_campaign raises before its
\* deadline check, and every pass is rolled back.
PassRaises ==
  LET e == task[campaign.done + 1]["E"]
  IN  campaign.done < Questions /\ e.status = "succeeded" /\ Unrecordable(View, e.note, e.n)

\* Past its duration a campaign without an execution in flight stops running, whatever is
\* pending, lapsed, queued or under review, unless its passes raise.
Lingers ==
  /\ campaign.status = "running" /\ overdue /\ ~PassRaises
  /\ campaign.done < Questions => task[campaign.done + 1]["E"].status \notin InFlight
DurationCloses == Lingers ~> ~Lingers

=============================================================================
