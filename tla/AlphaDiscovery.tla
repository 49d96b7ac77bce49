--------------------------- MODULE AlphaDiscovery ---------------------------
(***************************************************************************)
(* One research mandate and the director that keeps it supplied with       *)
(* questions: discovery cycles that run intelligence, hypothesis and       *)
(* representation tasks, admit the data of the candidates, and register a  *)
(* campaign with a share of the mandate's trial budget.                    *)
(*                                                                         *)
(* Every request locks the mandate row, so a step is one committed request *)
(* or one pass of the director.  What a request does to the tables is a    *)
(* set of views, one for each possible answer of what lies outside them; a *)
(* request that raises, and is rolled back, has none.  Campaigns follow    *)
(* CampaignLedger.  Hypotheses are counted by the same statements as       *)
(* trials and left out.                                                    *)
(***************************************************************************)
EXTENDS Integers, FiniteSetsExt, Sums

CONSTANTS MaxCycles,        \* budget.maximum_cycles
          MaxTrials,        \* budget.maximum_total_trials
          Variants,         \* budget.maximum_variants_per_hypothesis
          MaxParallel,      \* budget.maximum_parallel_campaigns
          LowWatermark,     \* budget.question_queue_low_watermark
          Candidates,       \* the candidates of a cycle
          AutoRetries,      \* automatic successors of failed stages in a cycle (2)
          AutoCorrections,  \* automatic successors of invalid representations (2)
          ReopenBound       \* bound: how often campaigns are reopened after their end

ASSUME DiscoveryAssumption ==
  /\ \A n \in {MaxCycles, MaxTrials, Variants, MaxParallel, LowWatermark} : n \in Nat \ {0}
  /\ \A n \in {AutoRetries, AutoCorrections, ReopenBound} : n \in Nat
  /\ IsFiniteSet(Candidates)

Cycles == 1..MaxCycles
Stages == {"intelligence", "hypothesis", "representation"}

TerminalCycle == {"completed", "rejected", "needs_attention", "shadow_candidate"}

VARIABLES mandate,    \* the mandate row: status, cycle_count and trial_count
          lapsed,     \* valid_until <= now
          cycle,      \* the cycle rows
          work,       \* what is only read of the newest cycle: its stages and their retries
          candidate,  \* the candidates of every cycle with their data admission
          campaign,   \* the campaigns of the cycles
          debit,      \* the first terminal event of every cycle: the trials it names
          reopened    \* how often a campaign was reopened

vars == <<mandate, lapsed, cycle, work, candidate, campaign, debit, reopened>>

Contract(c) == INSTANCE CampaignLedger
                 WITH ledger <- [status |-> campaign[c].status, trials |-> campaign[c].trials]

CycleRow ==
  [status : {"absent", "running", "awaiting_data_admission"} \cup TerminalCycle,
   phase : Stages \cup {"data_admission", "campaign", "complete"}]
NoCycle == [status |-> "absent", phase |-> "complete"]

\* failed: the cycle has an event that this stage failed; resumed: an operator resumed the
\* current task after the newest such event; valid: whether its output passes validation.
StageRow == [status : {"absent", "live", "succeeded", "failed"},
             valid : BOOLEAN, failed : BOOLEAN, resumed : BOOLEAN]
NoStage == [status |-> "absent", valid |-> FALSE, failed |-> FALSE, resumed |-> FALSE]

\* action is what next_action asks for when a stage needs attention: the repair of a failed
\* worker or the review of an invalid output.
Work == [stage : [Stages -> StageRow], action : {"none", "repair", "review"},
         retries : 0..AutoRetries, corrections : 0..AutoCorrections, duplicates : BOOLEAN]
NoWork == [stage |-> [k \in Stages |-> NoStage], action |-> "none",
           retries |-> 0, corrections |-> 0, duplicates |-> FALSE]

\* task: the admission task, succeeded with the fields asked for, with fields missing, or
\* with a result that does not match its contract.
CandidateRow == [verdict : {"none", "accepted", "awaiting", "rejected"},
                 admission : {"none", "open", "admitted", "failed"},
                 task : {"none", "live", "complete", "short", "changed", "failed"}]
NoCandidate == [verdict |-> "none", admission |-> "none", task |-> "none"]

\* _ensure_data_admission_task
NewAdmission == [verdict |-> "awaiting", admission |-> "open", task |-> "live"]

NoCampaign == [status |-> "none", trials |-> 0, budget |-> 0]

TypeOK ==
  /\ mandate.status \in {"awaiting_approval", "active", "expired", "completed",
                         "paused_for_shadow_review", "superseded"}
  /\ mandate.cycles \in 0..MaxCycles /\ mandate.trials \in Nat
  /\ lapsed \in BOOLEAN
  /\ cycle \in [Cycles -> CycleRow]
  /\ \A c \in Cycles : (cycle[c].status # "absent") <=> (c <= mandate.cycles)
  /\ work \in Work
  /\ candidate \in [Cycles -> [Candidates -> CandidateRow]]
  /\ \A c \in Cycles :
       /\ campaign[c] # NoCampaign =>
            campaign[c].budget \in 1..MaxTrials /\ campaign[c].trials \in 0..campaign[c].budget
       /\ debit[c] = <<>> \/ debit[c][1] \in 0..MaxTrials
  /\ reopened \in 0..ReopenBound

\* register_mandate or renew_mandate.
Init ==
  /\ mandate = [status |-> "awaiting_approval", cycles |-> 0, trials |-> 0]
  /\ lapsed = FALSE
  /\ cycle = [c \in Cycles |-> NoCycle]
  /\ work = NoWork
  /\ candidate = [c \in Cycles |-> [i \in Candidates |-> NoCandidate]]
  /\ campaign = [c \in Cycles |-> NoCampaign]
  /\ debit = [c \in Cycles |-> <<>>]
  /\ reopened = 0

-----------------------------------------------------------------------------
(* The transaction's view.                                                 *)

View == [mandate |-> mandate, cycle |-> cycle, work |-> work, candidate |-> candidate,
         campaign |-> campaign, debit |-> debit]

Commit(views) ==
  \E s \in views :
    /\ mandate' = s.mandate /\ cycle' = s.cycle /\ work' = s.work
    /\ candidate' = s.candidate /\ campaign' = s.campaign /\ debit' = s.debit
    /\ UNCHANGED <<lapsed, reopened>>

Then(views, Op(_)) == UNION {Op(s) : s \in views}
Refused == {}
InForce == mandate.status = "active" /\ ~lapsed

\* mandate_counter_projection: one terminal event per cycle, the first.
Ledger(debits) == SumTo([c \in Cycles |-> IF debits[c] = <<>> THEN 0 ELSE debits[c][1]], MaxCycles)

Exhausted(s) == s.mandate.cycles >= MaxCycles \/ s.mandate.trials >= MaxTrials

\* _question_pipeline_state
InSlot(s) == {c \in Cycles : s.campaign[c].status = "running"}
Depth(s) ==
  Cardinality({q \in InSlot(s) \X Candidates :
                 s.candidate[q[1]][q[2]].verdict \in {"accepted", "awaiting"}})
Starved(s) == Depth(s) < LowWatermark /\ Cardinality(InSlot(s)) < MaxParallel

\* _task, for the first time, for a successor, and for an operator's retry
NewTask(s, c, k) ==
  [s EXCEPT !.work.stage[k] = [@ EXCEPT !.status = "live", !.valid = FALSE, !.resumed = FALSE],
            !.cycle[c].status = "running", !.cycle[c].phase = k, !.work.action = "none"]

\* _new_cycle
NewCycle(s) ==
  LET c == s.mandate.cycles + 1
  IN  NewTask([s EXCEPT !.work = NoWork, !.mandate.cycles = c], c, "intelligence")

-----------------------------------------------------------------------------
(* Campaigns of the mandate.                                               *)

EndOf == [shadow_candidate |-> "shadow_candidate", completed_no_candidate |-> "completed",
          cancelled |-> "rejected"]

\* The cycles whose campaign has ended and that do not say so yet.
Ended(s) ==
  {c \in Cycles : /\ s.campaign[c].status \in DOMAIN EndOf
                  /\ s.cycle[c].status # EndOf[s.campaign[c].status]}

EndedTrials(s) == SumTo([c \in Cycles |-> IF c \in Ended(s) THEN s.campaign[c].trials ELSE 0], MaxCycles)

\* Variant for mutation: a campaign ends its cycle without an event.
ReconcileUnrecorded(s) ==
  [s EXCEPT !.cycle = [c \in Cycles |->
     IF c \in Ended(s)
       THEN [@[c] EXCEPT !.status = EndOf[s.campaign[c].status], !.phase = "complete"] ELSE @[c]]]

\* _reconcile_campaign_cycle on every cycle with a campaign: an end is debited and recorded,
\* a candidate pauses the mandate, attention is passed on and withdrawn.
ReconcileCampaignCycles(s) ==
  LET reconciled(c) ==
        LET row == s.cycle[c]
            status == s.campaign[c].status
        IN  IF c \in Ended(s)
              THEN [row EXCEPT !.status = EndOf[status], !.phase = "complete"]
            ELSE IF status = "needs_attention"
              THEN [row EXCEPT !.status = "needs_attention", !.phase = "campaign"]
            ELSE IF status = "running" /\ row.status = "needs_attention"
              THEN [row EXCEPT !.status = "running", !.phase = "campaign"]
            ELSE row
  IN  [s EXCEPT
         !.cycle = [c \in Cycles |-> reconciled(c)],
         !.mandate.trials = @ + EndedTrials(s),
         !.mandate.status =
            IF \E c \in Ended(s) : s.campaign[c].status = "shadow_candidate"
              THEN "paused_for_shadow_review" ELSE @,
         !.debit = [c \in Cycles |-> IF c \in Ended(s) /\ @[c] = <<>>
                                       THEN <<s.campaign[c].trials>> ELSE @[c]]]

\* Variant for mutation: whatever was proposed is taken up.
PortfolioUnadmitted(s, c) ==
  {[s EXCEPT !.campaign[c] = [status |-> "running", trials |-> 0, budget |-> 1],
             !.cycle[c].status = "running", !.cycle[c].phase = "campaign"]}

\* _portfolio_and_campaign: no accepted candidate ends the cycle; a campaign gets what the
\* mandate has left, and its budget, at least 1, or its key, taken, may refuse it.
Portfolio(s, c) ==
  LET accepted == {i \in Candidates : s.candidate[c][i].verdict = "accepted"}
      budget == Min({MaxTrials - s.mandate.trials, Cardinality(accepted) * Variants})
  IN  IF accepted = {}
        THEN {[s EXCEPT !.cycle[c].status = "rejected", !.cycle[c].phase = "complete"]}
      ELSE IF budget < 1 \/ s.campaign[c] # NoCampaign THEN Refused
      ELSE {[s EXCEPT !.campaign[c] = [status |-> "running", trials |-> 0, budget |-> budget],
                      !.cycle[c].status = "running", !.cycle[c].phase = "campaign"]}

\* One candidate in _reconcile_data_admissions.
Admitted(row) ==
  IF row.verdict # "awaiting" \/ row.admission \in {"admitted", "failed"} THEN row
  ELSE CASE row.task = "failed" -> [row EXCEPT !.admission = "failed"]
         [] row.task = "short" -> [row EXCEPT !.admission = "failed", !.verdict = "rejected"]
         [] row.task = "complete" -> [row EXCEPT !.admission = "admitted", !.verdict = "accepted"]
         [] OTHER -> row

ReconcileAdmissions(s, c) ==
  LET rows == [i \in Candidates |-> Admitted(s.candidate[c][i])]
      open == {i \in Candidates : rows[i].verdict = "awaiting" /\ rows[i].admission = "open"}
      t == [s EXCEPT !.candidate[c] = rows]
  IN  IF \E i \in open : rows[i].task = "changed" THEN Refused
      ELSE IF open # {} THEN {t}
      ELSE Portfolio(t, c)

-----------------------------------------------------------------------------
(* The stages of the newest cycle.                                         *)

\* _automatically_retry_failed_discovery_stage, or the cycle needs attention.
StageFailed(s, c, k) ==
  LET t == [s EXCEPT !.work.stage[k].failed = TRUE, !.work.stage[k].resumed = FALSE]
  IN  IF s.work.retries < AutoRetries
        THEN [NewTask(t, c, k) EXCEPT !.work.retries = @ + 1]
        ELSE [t EXCEPT !.cycle[c].status = "needs_attention", !.work.action = "repair"]

\* _automatically_correct_invalid_representation, or the cycle needs attention.
StageInvalid(s, c, k) ==
  IF k = "representation" /\ s.work.corrections < AutoCorrections
    THEN [NewTask(s, c, k) EXCEPT !.work.corrections = @ + 1]
    ELSE [s EXCEPT !.cycle[c].status = "needs_attention", !.work.action = "review"]

\* _materialize_candidates, whatever the verdicts, and what follows from it.
Verdicts == [Candidates -> {"accepted", "awaiting", "rejected", "duplicate"}]
Judged(s, c, verdict) ==
  LET rows == [i \in Candidates |->
        CASE verdict[i] = "awaiting" -> NewAdmission
          [] verdict[i] = "duplicate" -> [NoCandidate EXCEPT !.verdict = "rejected"]
          [] OTHER -> [NoCandidate EXCEPT !.verdict = verdict[i]]]
      t == [s EXCEPT !.candidate[c] = rows,
                     !.work.duplicates = \A i \in Candidates : verdict[i] = "duplicate"]
  IN  IF \E i \in Candidates : verdict[i] = "awaiting"
        THEN {[t EXCEPT !.cycle[c].status = "awaiting_data_admission",
                        !.cycle[c].phase = "data_admission"]}
        ELSE Portfolio(t, c)
Materialize(s, c) == UNION {Judged(s, c, verdict) : verdict \in Verdicts}

NextStage == [intelligence |-> "hypothesis", hypothesis |-> "representation"]

\* The stage task of the phase decides; the phases before it have valid outputs.
AdvanceStage(s, c) ==
  LET k == s.cycle[c].phase
      row == s.work.stage[k]
  IN  CASE row.status = "live" -> {s}
        [] row.status = "failed" -> {StageFailed(s, c, k)}
        [] row.status = "succeeded" /\ ~row.valid -> {StageInvalid(s, c, k)}
        [] row.status = "succeeded" /\ row.valid ->
             IF k = "representation" THEN Materialize(s, c) ELSE {NewTask(s, c, NextStage[k])}

\* _recover_resumed_stage
RecoverResumed(s, c) ==
  IF /\ s.cycle[c].status = "needs_attention" /\ s.campaign[c] = NoCampaign
     /\ s.cycle[c].phase \in Stages
     /\ s.work.stage[s.cycle[c].phase].status \in {"live", "succeeded"}
     /\ s.work.stage[s.cycle[c].phase].resumed
    THEN [s EXCEPT !.cycle[c].status = "running", !.work.action = "none"]
    ELSE s

\* _retire_superseded_discovery_stalls
RetireStalls(s) ==
  [s EXCEPT !.cycle = [c \in Cycles |->
     IF /\ c < s.mandate.cycles /\ s.campaign[c] = NoCampaign
        /\ s.cycle[c].status = "needs_attention"
       THEN [@[c] EXCEPT !.status = "rejected", !.phase = "complete"]
       ELSE @[c]]]

-----------------------------------------------------------------------------
(* reconcile_mandate.                                                      *)

\* Variant for mutation: questions that run short are no reason for a new cycle.
ReplenishSlowly(s, c) ==
  IF Exhausted(s) THEN {[s EXCEPT !.mandate.status = "completed"]}
  ELSE IF s.campaign[c] = NoCampaign /\ s.work.duplicates THEN {NewCycle(s)} ELSE {s}

\* The newest cycle has ended: the mandate ends, or a new cycle starts, at once after
\* duplicates only or below the low watermark; else a queued founder idea, a new signal
\* receipt or the end of the cadence starts one.
Replenish(s, c) ==
  IF Exhausted(s) THEN {[s EXCEPT !.mandate.status = "completed"]}
  ELSE IF \/ s.cycle[c].status = "rejected" /\ s.campaign[c] = NoCampaign /\ s.work.duplicates
          \/ Starved(s)
    THEN {NewCycle(s)}
  ELSE {s, NewCycle(s)}

\* Below the low watermark a running campaign is no reason to wait.
ReplenishAlongside(s) ==
  IF ~Exhausted(s) /\ Starved(s) THEN NewCycle(s) ELSE s

DirectStage(s, c) ==
  IF s.cycle[c].status \in TerminalCycle THEN Replenish(s, c) ELSE AdvanceStage(s, c)

DirectCycle(s, c) ==
  IF s.campaign[c] # NoCampaign /\ s.cycle[c].status \notin TerminalCycle
    THEN {ReplenishAlongside(s)}
  ELSE IF s.cycle[c].status = "awaiting_data_admission" THEN ReconcileAdmissions(s, c)
  ELSE Then({RecoverResumed(s, c)}, LAMBDA t : DirectStage(t, c))

DirectNewest(s) ==
  IF s.mandate.status # "active" THEN {s}
  ELSE IF s.mandate.cycles = 0 THEN {NewCycle(s)}
  ELSE Then({RetireStalls(s)}, LAMBDA t : DirectCycle(t, s.mandate.cycles))

Reconciled(s) ==
  IF s.mandate.status # "active" THEN {s}
  ELSE IF lapsed THEN {[s EXCEPT !.mandate.status = "expired"]}
  ELSE Then({ReconcileCampaignCycles(s)}, DirectNewest)

-----------------------------------------------------------------------------
(* Requests.                                                               *)

ApproveMandate ==
  /\ mandate.status = "awaiting_approval" /\ ~lapsed
  /\ Commit({[View EXCEPT !.mandate.status = "active"]})

\* approve_mandate or canonicalize_mandates of another canonical mandate.
SupersedeMandate ==
  /\ mandate.status \in {"awaiting_approval", "active"}
  /\ Commit({[View EXCEPT !.mandate.status = "superseded"]})

\* Variant for mutation: the counters are left as they are.
RepairedNever(s) == s

\* reconstruct_mandate_counters
Repaired(s) == [s EXCEPT !.mandate.trials = Ledger(s.debit)]

\* One pass of the director: reconcile_all.
Director ==
  /\ mandate.status = "active"
  /\ Commit(Then({Repaired(View)}, Reconciled))

\* The reconcile route, without the repair of the counters.
ReconcileMandate ==
  /\ mandate.status = "active"
  /\ Commit(Reconciled(View))

\* retry_invalid_discovery_stage.  The next_action of a failed representation is not among
\* those the route knows.
RetryStage ==
  LET c == mandate.cycles
      k == cycle[c].phase
  IN  /\ InForce /\ c > 0
      /\ cycle[c].status = "needs_attention" /\ k \in Stages
      /\ \/ work.action = "review" /\ work.stage[k].status = "succeeded"
         \/ work.action = "repair" /\ work.stage[k].status = "failed" /\ k # "representation"
      /\ Commit({NewTask(View, c, k)})

\* Variant for mutation: without a look at the cycle's status.
RecoverGroundingAnyTime ==
  /\ InForce /\ mandate.cycles > 0 /\ ~Exhausted(View)
  /\ campaign[mandate.cycles] = NoCampaign
  /\ \A k \in Stages : work.stage[k].status # "live"
  /\ Commit({NewCycle(View)})

\* recover_discovery_grounding
RecoverGrounding ==
  LET c == mandate.cycles
  IN  /\ InForce /\ c > 0
      /\ cycle[c].status \in {"completed", "rejected", "needs_attention"}
      /\ campaign[c] = NoCampaign
      /\ \A k \in Stages : work.stage[k].status # "live"
      /\ ~Exhausted(View)
      /\ Commit({NewCycle(View)})

\* recover_data_admission, on any cycle of the mandate
RecoverAdmission(c, i) ==
  /\ InForce
  /\ cycle[c].status = "rejected" /\ candidate[c][i].admission = "failed"
  /\ candidate[c][i].task \in {"complete", "short", "changed"}
  /\ LET s == [View EXCEPT !.candidate[c][i].admission = "open",
                           !.candidate[c][i].verdict = "awaiting",
                           !.cycle[c].status = "awaiting_data_admission",
                           !.cycle[c].phase = "data_admission"]
     IN  Commit(ReconcileAdmissions(s, c))

-----------------------------------------------------------------------------
(* Workers, operators, campaigns and the clock.                            *)

\* Nobody reads the stages of an earlier cycle any more, and nobody anything of a mandate
\* that is no longer in force.  A valid output settles its stage: the events of its failures
\* are not read again.
StageEnds(k) ==
  /\ InForce /\ work.stage[k].status = "live"
  /\ \E status \in {"succeeded", "failed"}, valid \in BOOLEAN :
       /\ valid => status = "succeeded"
       /\ Commit({[View EXCEPT !.work.stage[k] =
                     [status |-> status, valid |-> valid,
                      failed |-> @.failed /\ ~valid, resumed |-> @.resumed /\ ~valid]]})

ResumeStage(k) ==
  /\ InForce /\ work.stage[k].status = "failed"
  /\ Commit({[View EXCEPT !.work.stage[k].status = "live",
                          !.work.stage[k].resumed = work.stage[k].failed]})

AdmissionEnds(c, i) ==
  /\ InForce /\ candidate[c][i].task = "live"
  /\ \E result \in {"complete", "short", "changed", "failed"} :
       Commit({[View EXCEPT !.candidate[c][i].task = result]})

ResumeAdmission(c, i) ==
  /\ InForce /\ candidate[c][i].task = "failed"
  /\ Commit({[View EXCEPT !.candidate[c][i].task = "live"]})

\* A campaign moves as its contract allows.
CampaignMoves(c) ==
  /\ InForce /\ campaign[c] # NoCampaign
  /\ \E status \in Contract(c)!Statuses, trials \in 0..campaign[c].budget :
       /\ Contract(c)!Step(campaign[c], [status |-> status, trials |-> trials], campaign[c].budget)
       /\ LET again == /\ campaign[c].status \in Contract(c)!Final
                       /\ <<campaign[c].status, campaign[c].trials>> # <<status, trials>>
          IN  /\ again => reopened < ReopenBound
              /\ reopened' = IF again THEN reopened + 1 ELSE reopened
       /\ campaign' = [campaign EXCEPT ![c].status = status, ![c].trials = trials]
  /\ UNCHANGED <<mandate, lapsed, cycle, work, candidate, debit>>

ValidityEnds ==
  /\ mandate.status \in {"awaiting_approval", "active"} /\ ~lapsed
  /\ lapsed' = TRUE
  /\ UNCHANGED <<mandate, cycle, work, candidate, campaign, debit, reopened>>

-----------------------------------------------------------------------------

Next ==
  \/ ApproveMandate
  \/ SupersedeMandate
  \/ Director
  \/ ReconcileMandate
  \/ RetryStage
  \/ RecoverGrounding
  \/ ValidityEnds
  \/ \E k \in Stages : StageEnds(k) \/ ResumeStage(k)
  \/ \E c \in Cycles :
       \/ CampaignMoves(c)
       \/ \E i \in Candidates : RecoverAdmission(c, i) \/ AdmissionEnds(c, i) \/ ResumeAdmission(c, i)

Spec == Init /\ [][Next]_vars

\* The director polls for ever; a pass that raises changes nothing and is tried again.
FairSpec == Spec /\ WF_vars(Director)

-----------------------------------------------------------------------------
(* Safety.                                                                 *)

\* The cycle tells that its campaign has ended.
CampaignEnded(c) ==
  campaign[c].status \in DOMAIN EndOf /\ cycle[c].status = EndOf[campaign[c].status]

\* "Completed, cancelled/invalid and shadow-candidate campaigns each debit their hypothesis
\* and trial counts exactly once": while no campaign has been reopened, every ended cycle of
\* a campaign has one event with all the trials the campaign used, and the counter is the sum
\* of the events, however many campaigns end in one pass and whichever request comes next.
\* After a reopening there is still an event of every end, and between the repairs the
\* counter never falls below the events; but what a reopened campaign uses may be in none,
\* because a second end in the same status is not debited.
EndsAreDebited ==
  /\ \A c \in Cycles :
       (campaign[c] # NoCampaign /\ cycle[c].status \in {"completed", "rejected", "shadow_candidate"})
         => debit[c] # <<>>
  /\ mandate.trials >= Ledger(debit)
  /\ reopened = 0 =>
       /\ \A c \in Cycles : debit[c] # <<>> => CampaignEnded(c) /\ debit[c] = <<campaign[c].trials>>
       /\ mandate.trials = Ledger(debit)

\* Discovery is never abandoned half-way: of all cycles without a campaign only the newest
\* is at work, also when an operator revives the data admission of an earlier one.
OneCycleInDiscovery ==
  \A c \in Cycles : (c < mandate.cycles /\ campaign[c] = NoCampaign)
                      => cycle[c].status \in TerminalCycle

\* A campaign stands on three valid stages and on candidates whose data were admitted when
\* they needed it, however often stages and admissions failed and were revived before.
CampaignGrounded ==
  \A c \in Cycles : campaign[c] # NoCampaign =>
    /\ c = mandate.cycles =>
         \A k \in Stages : work.stage[k].status = "succeeded" /\ work.stage[k].valid
    /\ \E i \in Candidates : candidate[c][i].verdict = "accepted"
    /\ \A i \in Candidates : candidate[c][i].verdict = "accepted" =>
         candidate[c][i].task = "none" \/ candidate[c][i].admission = "admitted"

-----------------------------------------------------------------------------
(* Liveness.                                                               *)

\* Every pass of the director would raise: a result that does not match its contract, or
\* a campaign for which another campaign has left no trial.
Wedged == InForce /\ Reconciled(Repaired(View)) = {}

\* An end counted twice, after a campaign was reopened, is put right by the next pass.
CountersRepaired ==
  (mandate.status = "active" /\ mandate.trials # Ledger(debit) /\ ~Wedged)
    ~> (mandate.trials = Ledger(debit) \/ mandate.status # "active" \/ Wedged)

\* The newest cycle stopped on a stage that was resumed and then answered with an invalid
\* output: every pass sets it running and stops it again.
Flips ==
  LET c == mandate.cycles
  IN  /\ c > 0 /\ cycle[c].phase \in Stages /\ campaign[c] = NoCampaign
      /\ work.stage[cycle[c].phase].resumed

\* "terminal negative, invalid, failed and duplicate-only cycles replenish immediately":
\* while questions run short and slots and budget are left, an ended cycle gets a successor,
\* with the exception above.
Thirsty ==
  LET c == mandate.cycles
  IN  /\ InForce /\ c > 0 /\ cycle[c].status \in TerminalCycle
      /\ campaign[c].status \in {"none", "needs_attention", "completed_no_candidate", "cancelled"}
      /\ ~Exhausted(View) /\ Starved(View) /\ ~Flips
Replenished == Thirsty ~> ~Thirsty

=============================================================================
