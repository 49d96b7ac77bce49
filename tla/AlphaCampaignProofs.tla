------------------------- MODULE AlphaCampaignProofs -------------------------
(***************************************************************************)
(* Machine-checked proofs about AlphaCampaign, for any queue, ladder,      *)
(* budget and set of protocols: its type invariant; that a campaign        *)
(* implements CampaignLedger, the contract its discovery mandate relies    *)
(* on; and the gates before an execution, the books, the budgets, who      *)
(* watches work in flight and what an invalid answer rests on.             *)
(*                                                                         *)
(* A request is a function of the transaction's view, so the proof follows *)
(* the code: a view that fits the tables (Fits) is taken to one that fits  *)
(* by every part of reconcile_campaign, and no part lowers the trials. The *)
(* second half adds what the other properties need to the views (Booked,   *)
(* Ordered, Watched) and takes it along the same parts.                    *)
(***************************************************************************)
EXTENDS AlphaCampaign, SumsProofs

\* The sets the type invariant speaks of.
CampaignRow ==
  [status : {"awaiting_activation", "running", "needs_attention"} \cup Final,
   why : Reasons, blame : Stages \cup {"none"},
   done : 0..Questions, failures : 0..Questions, trials : 0..MaxTrials]
Answers == {"none", "invalid"} \cup Outcomes
Reports == Answers \cup Results["E"]
Views ==
  [campaign : CampaignRow, task : [Queue -> [Stages -> Row]], route : [Queue -> Route],
   answer : [Queue -> Answers], at : Stages \cup {"none"}, ok : BOOLEAN, staffed : BOOLEAN]

\* What the rows of a question say beyond their types: the ladder and the variants are
\* bounded, a finished qualification reports something, and so does a finished execution
\* that has not been answered yet.
RowsFit(rows, answered) ==
  /\ rows["G"].n <= LastRung /\ rows["E"].n <= MaxVariants
  /\ rows["Q"].status = "succeeded" => rows["Q"].note \in Results["Q"]
  /\ rows["E"].status = "succeeded" => rows["E"].note \in Results["E"] \/ answered

\* A view of an activated campaign that was not cancelled, with at least b trials.
Fits(s, b) ==
  /\ s \in Views
  /\ s.campaign.failures <= s.campaign.done /\ s.campaign.trials >= b
  /\ s.campaign.status \in {"running", "needs_attention", "completed_no_candidate", "shadow_candidate"}
  /\ \A q \in Queue : RowsFit(s.task[q], q <= s.campaign.done)

-----------------------------------------------------------------------------
(* The changes to a view.                                                  *)

\* The row of a stage that does not exist yet.
LEMMA AbsentIsRow == AbsentRow \in Row /\ AbsentRow.n = 0 /\ AbsentRow.status = "absent"
BY DEF AbsentRow, Row, Notes, TaskStatuses

\* A change of the campaign row alone.
LEMMA CampaignFits ==
  ASSUME NEW b, NEW s, Fits(s, b), NEW c \in CampaignRow,
         c.done = s.campaign.done, c.failures = s.campaign.failures, c.trials = s.campaign.trials,
         c.status \in {"running", "needs_attention", "completed_no_candidate", "shadow_candidate"}
  PROVE  Fits([s EXCEPT !.campaign = c], b)
<1> QED BY DEF Fits, Views

\* Set running.
LEMMA RunningFits ==
  ASSUME NEW b, NEW s, Fits(s, b)
  PROVE  Fits(Running(s), b) /\ Running(s).campaign.status = "running"
<1> DEFINE c == [s.campaign EXCEPT !.status = "running", !.why = "none", !.blame = "none"]
<1>1. s.campaign \in CampaignRow /\ s \in Views
  BY DEF Fits, Views
<1>2. c \in CampaignRow /\ c.done = s.campaign.done /\ c.failures = s.campaign.failures
      /\ c.trials = s.campaign.trials /\ c.status = "running"
  BY <1>1 DEF CampaignRow, Reasons
<1>3. Running(s) = [s EXCEPT !.campaign = c]
  BY <1>1 DEF Running, Views, CampaignRow
<1>4. Running(s).campaign = c
  BY <1>1, <1>3 DEF Views
<1> HIDE DEF c
<1> QED BY <1>2, <1>3, <1>4, CampaignFits

\* A reason without a change of status.
LEMMA BecauseFits ==
  ASSUME NEW b, NEW s, Fits(s, b), NEW why \in Reasons
  PROVE  /\ Fits(Because(s, why), b) /\ Because(s, why).campaign.status = s.campaign.status
         /\ Because(s, why).campaign.done = s.campaign.done
         /\ Because(s, why).campaign.trials = s.campaign.trials
         /\ Because(s, why).task = s.task /\ Because(s, why).route = s.route
<1> DEFINE c == [s.campaign EXCEPT !.why = why, !.blame = "none"]
<1>1. s.campaign \in CampaignRow /\ s \in Views
  BY DEF Fits, Views
<1>2. c \in CampaignRow /\ c.done = s.campaign.done /\ c.failures = s.campaign.failures
      /\ c.trials = s.campaign.trials /\ c.status = s.campaign.status
  BY <1>1 DEF CampaignRow
<1>3. Because(s, why) = [s EXCEPT !.campaign = c]
  BY <1>1 DEF Because, Views, CampaignRow
<1>4. /\ Because(s, why).campaign = c /\ Because(s, why).task = s.task
      /\ Because(s, why).route = s.route
  BY <1>1, <1>3 DEF Views
<1>5. s.campaign.status \in {"running", "needs_attention", "completed_no_candidate", "shadow_candidate"}
  BY DEF Fits
<1> HIDE DEF c
<1> QED BY <1>2, <1>3, <1>4, <1>5, CampaignFits

\* Parked for attention.
LEMMA ParkFits ==
  ASSUME NEW b, NEW s, Fits(s, b), NEW why \in Reasons, NEW blame \in Stages \cup {"none"}
  PROVE  /\ Fits(Park(s, why, blame), b) /\ Park(s, why, blame).campaign.status = "needs_attention"
         /\ Park(s, why, blame).campaign.trials = s.campaign.trials
<1> DEFINE c == [s.campaign EXCEPT !.status = "needs_attention", !.why = why, !.blame = blame]
<1>1. s.campaign \in CampaignRow /\ s \in Views
  BY DEF Fits, Views
<1>2. c \in CampaignRow /\ c.done = s.campaign.done /\ c.failures = s.campaign.failures
      /\ c.trials = s.campaign.trials /\ c.status = "needs_attention"
  BY <1>1 DEF CampaignRow
<1>3. Park(s, why, blame) = [s EXCEPT !.campaign = c]
  BY <1>1 DEF Park, Views, CampaignRow
<1>4. Park(s, why, blame).campaign = c
  BY <1>1, <1>3 DEF Views
<1> HIDE DEF c
<1> QED BY <1>2, <1>3, <1>4, CampaignFits

\* The task the pipeline waits for.
LEMMA AtFits ==
  ASSUME NEW b, NEW s, Fits(s, b), NEW k \in Stages \cup {"none"}
  PROVE  Fits(At(s, k), b) /\ At(s, k).campaign = s.campaign /\ At(s, k).task = s.task
<1> QED BY DEF Fits, Views, At

\* A request that raised.
LEMMA RefusedFits ==
  ASSUME NEW b, NEW s, Fits(s, b)
  PROVE  Fits(Refused(s), b)
<1> QED BY DEF Fits, Views, Refused

\* A change of one row of the current question.
LEMMA RowFits ==
  ASSUME NEW b, NEW s, Fits(s, b), Open(s), NEW k \in Stages, NEW row \in Row,
         k = "G" => row.n <= LastRung, k = "E" => row.n <= MaxVariants,
         k \in {"Q", "E"} => row.status # "succeeded"
  PROVE  LET t == [s EXCEPT !.task[Current(s)][k] = row]
         IN  /\ Fits(t, b) /\ t.campaign = s.campaign /\ t.task[Current(s)][k] = row
             /\ \A j \in Stages \ {k} : t.task[Current(s)][j] = s.task[Current(s)][j]
<1> DEFINE q == Current(s)
           t == [s EXCEPT !.task[q][k] = row]
           table == [s.task EXCEPT ![q][k] = row]
<1>1. s \in Views /\ s.campaign \in CampaignRow /\ s.task \in [Queue -> [Stages -> Row]]
  BY DEF Fits, Views
<1>2. q \in Queue
  <2>1. s.campaign.done \in 0..Questions /\ s.campaign.done < Questions
    BY <1>1 DEF CampaignRow, Open
  <2> QED BY <2>1, CampaignAssumption DEF Current, Queue
<1> HIDE DEF q
<1>3. table \in [Queue -> [Stages -> Row]]
  BY <1>1, <1>2
<1>4. t = [s EXCEPT !.task = table]
  BY <1>1 DEF Views
<1>5. t \in Views /\ t.campaign = s.campaign /\ t.task = table
  <2> HIDE DEF table
  <2> QED BY <1>1, <1>3, <1>4 DEF Views
<1>6. ASSUME NEW p \in Queue PROVE RowsFit(t.task[p], p <= s.campaign.done)
  <2>1. RowsFit(s.task[p], p <= s.campaign.done)
    BY DEF Fits
  <2>2. CASE p # q
    BY <1>1, <1>2, <1>5, <2>1, <2>2
  <2>3. CASE p = q
    <3>1. t.task[p] = [s.task[p] EXCEPT ![k] = row] /\ s.task[p] \in [Stages -> Row]
      BY <1>1, <1>2, <1>5, <2>3
    <3> QED BY <3>1, <2>1 DEF RowsFit, Stages
  <2> QED BY <2>2, <2>3
<1>7. t.task[q][k] = row /\ \A j \in Stages \ {k} : t.task[q][j] = s.task[q][j]
  BY <1>1, <1>2, <1>5
<1> QED BY <1>5, <1>6, <1>7 DEF Fits, q

-----------------------------------------------------------------------------
(* Stages.                                                                 *)

\* The row a stage has, or the absent one.  Only an open question has one that is there.
LEMMA StageFits ==
  ASSUME NEW b, NEW s, Fits(s, b), NEW k \in Stages
  PROVE  /\ Stage(s, k) \in Row
         /\ Stage(s, k).status # "absent" => Open(s) /\ Stage(s, k) = s.task[Current(s)][k]
         /\ Stage(s, "G").n <= LastRung /\ Stage(s, "E").n <= MaxVariants
         /\ Stage(s, "Q").status = "succeeded" => Stage(s, "Q").note \in Results["Q"]
         /\ Stage(s, "E").status = "succeeded" => Stage(s, "E").note \in Results["E"]
<1>1. s.campaign.done \in 0..Questions /\ s.task \in [Queue -> [Stages -> Row]]
  BY DEF Fits, Views, CampaignRow
<1>2. CASE Open(s)
  <2>1. Current(s) \in Queue /\ ~(Current(s) <= s.campaign.done)
    BY <1>1, <1>2, CampaignAssumption DEF Open, Current, Queue
  <2>2. RowsFit(s.task[Current(s)], FALSE)
    BY <2>1 DEF Fits, RowsFit
  <2> QED BY <1>1, <1>2, <2>1, <2>2 DEF Stage, RowsFit
<1>3. CASE ~Open(s)
  BY <1>3, AbsentIsRow, CampaignAssumption DEF Stage
<1> QED BY <1>2, <1>3

\* A new stage task, gated or not.
LEMMA CreateStageFits ==
  ASSUME NEW b, NEW s, Fits(s, b), Open(s), NEW k \in Stages, NEW gated \in BOOLEAN
  PROVE  Fits(CreateStage(s, k, gated), b) /\ CreateStage(s, k, gated).campaign = s.campaign
<1> DEFINE row == [AbsentRow EXCEPT !.status = IF gated THEN "pending_approval" ELSE "queued",
                                    !.approval = IF gated THEN "pending" ELSE "none"]
           t == [s EXCEPT !.task[Current(s)][k] = row]
<1>1. row \in Row /\ row.n = 0 /\ row.status # "succeeded"
  BY DEF AbsentRow, Row, Notes, TaskStatuses, InFlight
<1>2. CreateStage(s, k, gated) = At(t, k)
  BY DEF CreateStage
<1> HIDE DEF row
<1>3. Fits(t, b) /\ t.campaign = s.campaign
  BY <1>1, RowFits, CampaignAssumption
<1> HIDE DEF t
<1> QED BY <1>2, <1>3, AtFits

\* A new rung of the ladder.
LEMMA CreateRungFits ==
  ASSUME NEW b, NEW s, Fits(s, b), Open(s), NEW rung \in Nat, rung <= LastRung
  PROVE  Fits(CreateRung(s, rung), b) /\ CreateRung(s, rung).campaign = s.campaign
<1> DEFINE row == [AbsentRow EXCEPT !.status = "queued", !.n = rung]
           t == [s EXCEPT !.task[Current(s)]["G"] = row]
<1>1. row \in Row /\ row.n = rung /\ row.status # "succeeded"
  BY DEF AbsentRow, Row, Notes, TaskStatuses, InFlight
<1>2. CreateRung(s, rung) = At(t, "G")
  BY DEF CreateRung
<1>s. "G" \in Stages
  BY DEF Stages
<1> HIDE DEF row
<1>3. Fits(t, b) /\ t.campaign = s.campaign
  BY <1>1, <1>s, RowFits
<1> HIDE DEF t
<1> QED BY <1>2, <1>3, <1>s, AtFits

\* The first task of a question, or a park when the mandate is gone; no trial is consumed.
LEMMA OpenQuestionFits ==
  ASSUME NEW b, NEW s, Fits(s, b), Open(s)
  PROVE  /\ Fits(OpenQuestion(s), b) /\ OpenQuestion(s).campaign.trials = s.campaign.trials
         /\ OpenQuestion(s).campaign.status \in {s.campaign.status, "needs_attention"}
<1>1. {"D", "E"} \subseteq Stages /\ {"none", "research_mandate_unavailable"} \subseteq Reasons
  BY DEF Stages, Reasons
<1>2. Fits(CreateStage(s, "E", FALSE), b) /\ CreateStage(s, "E", FALSE).campaign = s.campaign
  BY <1>1, CreateStageFits
<1> DEFINE t == Because(s, "none")
<1>3. /\ Fits(t, b) /\ Open(t) /\ t.campaign.status = s.campaign.status
      /\ t.campaign.trials = s.campaign.trials
  BY <1>1, BecauseFits DEF Open
<1> HIDE DEF t
<1>4. Fits(CreateStage(t, "D", FALSE), b) /\ CreateStage(t, "D", FALSE).campaign = t.campaign
  BY <1>1, <1>3, CreateStageFits
<1>5. LET p == Park(s, "research_mandate_unavailable", "none")
      IN  Fits(p, b) /\ p.campaign.status = "needs_attention" /\ p.campaign.trials = s.campaign.trials
  BY <1>1, ParkFits
<1> QED BY <1>2, <1>3, <1>4, <1>5 DEF OpenQuestion, t

-----------------------------------------------------------------------------
(* Budgets and retained attempts.                                          *)

\* Without a reason to close there is a question left.
LEMMA BudgetReasonFits ==
  ASSUME NEW s
  PROVE  BudgetReason(s) \in Reasons /\ (BudgetReason(s) = "none" => Open(s))
BY DEF BudgetReason, Reasons

\* The end of a budget closes or parks the campaign.
LEMMA CloseFits ==
  ASSUME NEW b, NEW s, Fits(s, b), NEW why \in Reasons
  PROVE  Fits(Close(s, why), b)
<1>1. CASE why = "consecutive_failure_limit"
  BY <1>1, ParkFits DEF Close
<1>2. CASE why # "consecutive_failure_limit"
  <2> DEFINE t == Because(s, why)
             c == [t.campaign EXCEPT !.status = "completed_no_candidate"]
  <2>1. Fits(t, b) /\ t \in Views /\ t.campaign \in CampaignRow
    BY BecauseFits DEF Fits, Views
  <2>2. c \in CampaignRow /\ c.done = t.campaign.done /\ c.failures = t.campaign.failures
        /\ c.trials = t.campaign.trials /\ c.status = "completed_no_candidate"
    BY <2>1 DEF CampaignRow, Final
  <2>3. Close(s, why) = [t EXCEPT !.campaign = c]
    BY <1>2, <2>1 DEF Close, Views
  <2> HIDE DEF t, c
  <2> QED BY <2>1, <2>2, <2>3, CampaignFits
<1> QED BY <1>1, <1>2

\* What follows a retained attempt.
LEMMA AfterAnswerFits ==
  ASSUME NEW b, NEW s, Fits(s, b)
  PROVE  Fits(AfterAnswer(s), b)
BY BudgetReasonFits, CloseFits, OpenQuestionFits DEF AfterAnswer

\* What record_attempt writes when it does not refuse, table by table.
RecordedRow(s, outcome, cost) ==
  [s.campaign EXCEPT
     !.status = IF outcome = "candidate" THEN "shadow_candidate" ELSE s.campaign.status,
     !.why = "none", !.blame = "none",
     !.done = s.campaign.done + 1, !.trials = s.campaign.trials + cost,
     !.failures = IF outcome = "failed" THEN s.campaign.failures + 1 ELSE 0]
RecordedAnswer(s, outcome) == [s.answer EXCEPT ![Current(s)] = outcome]

LEMMA RecordWrites ==
  ASSUME NEW s \in Views, NEW outcome, NEW cost, ~Unrecordable(s, outcome, cost)
  PROVE  Record(s, outcome, cost) =
           AfterAnswer([s EXCEPT !.campaign = RecordedRow(s, outcome, cost),
                                 !.answer = RecordedAnswer(s, outcome)])
<1>1. s.campaign \in CampaignRow /\ s.answer \in [Queue -> Answers] BY DEF Views
<1> QED BY <1>1 DEF Record, RecordedRow, RecordedAnswer, Views, CampaignRow

\* record_attempt refuses, or moves to the next question within the trial budget, whatever
\* the execution of the answered question says.
LEMMA RecordFits ==
  ASSUME NEW b, NEW s \in Views, Open(s), NEW outcome \in Reports, NEW cost \in Nat,
         s.campaign.failures <= s.campaign.done, s.campaign.trials >= b, b \in Nat,
         \A q \in Queue : RowsFit(s.task[q], q <= s.campaign.done + 1)
  PROVE  \/ Record(s, outcome, cost) = Refused(s)
         \/ Fits(Record(s, outcome, cost), b)
<1> SUFFICES ASSUME ~Unrecordable(s, outcome, cost)
             PROVE  Fits(Record(s, outcome, cost), b)
  BY DEF Record
<1>0. s.campaign.status = "running" /\ outcome \in Answers
      /\ ~(s.campaign.trials + cost > MaxTrials)
  BY DEF Unrecordable, Reports, Answers, Results
<1> DEFINE status == IF outcome = "candidate" THEN "shadow_candidate" ELSE s.campaign.status
           failures == IF outcome = "failed" THEN s.campaign.failures + 1 ELSE 0
           c == [s.campaign EXCEPT !.status = status, !.why = "none", !.blame = "none",
                   !.done = s.campaign.done + 1, !.trials = s.campaign.trials + cost,
                   !.failures = failures]
           a == [s.answer EXCEPT ![Current(s)] = outcome]
           t == [s EXCEPT !.campaign = c, !.answer = a]
<1>1. s.campaign \in CampaignRow /\ s.answer \in [Queue -> Answers]
  BY DEF Views
<1>2. s.campaign.done \in 0..Questions /\ s.campaign.done < Questions /\ s.campaign.trials \in Nat
      /\ s.campaign.failures \in Nat
  BY <1>1 DEF CampaignRow, Open
<1>3. status \in {"running", "shadow_candidate"} /\ failures \in 0..(s.campaign.done + 1)
  BY <1>0, <1>2
<1>4. /\ c \in CampaignRow
      /\ c.status = status /\ c.failures = failures /\ c.done = s.campaign.done + 1
      /\ c.trials = s.campaign.trials + cost
  <2>1. s.campaign.done + 1 \in 0..Questions /\ failures \in 0..Questions
        /\ s.campaign.trials + cost \in 0..MaxTrials
    BY <1>0, <1>2, <1>3, CampaignAssumption
  <2> HIDE DEF status, failures
  <2> QED BY <1>1, <1>3, <2>1 DEF CampaignRow, Reasons, Final
<1>5. a \in [Queue -> Answers]
  BY <1>0, <1>1
<1>6. Record(s, outcome, cost) = AfterAnswer(t)
  BY RecordWrites DEF RecordedRow, RecordedAnswer
<1> HIDE DEF c, a, status, failures
<1>7. t \in Views /\ t.campaign = c /\ t.task = s.task
  BY <1>4, <1>5 DEF Views
<1>8. Fits(t, b)
  <2>1. c.failures <= c.done /\ c.trials >= b
    BY <1>2, <1>3, <1>4
  <2> QED BY <1>3, <1>4, <1>7, <2>1 DEF Fits
<1> HIDE DEF t
<1> QED BY <1>6, <1>8, AfterAnswerFits

\* record_attempt on a view that fits.
LEMMA RecordKeeps ==
  ASSUME NEW b \in Nat, NEW s, Fits(s, b), Open(s), NEW outcome \in Reports, NEW cost \in Nat
  PROVE  Fits(Record(s, outcome, cost), b)
<1>1. \A q \in Queue : RowsFit(s.task[q], q <= s.campaign.done + 1)
  <2>1. s.campaign.done \in Nat
    BY DEF Fits, Views, CampaignRow
  <2> QED BY <2>1 DEF Fits, RowsFit, Queue
<1> QED BY <1>1, RecordFits, RefusedFits DEF Fits

\* Whatever is retained as invalid costs no trial.
LEMMA RetainFits ==
  ASSUME NEW b \in Nat, NEW s, Fits(s, b), Open(s)
  PROVE  Fits(RetainReviewRejection(s), b) /\ Fits(RetainExhaustedEngineering(s), b)
         /\ Fits(RetainInvalidRepresentation(s), b)
<1>1. "invalid" \in Reports
  BY DEF Reports, Answers
<1>2. Fits(Record(s, "invalid", 0), b)
  BY <1>1, RecordKeeps
<1>3. Fits(Running(s), b) /\ Open(Running(s))
  <2>1. Running(s).campaign.done = s.campaign.done
    BY DEF Running, Fits, Views, CampaignRow
  <2> QED BY <2>1, RunningFits DEF Open
<1>4. Fits(Record(Running(s), "invalid", 0), b)
  BY <1>1, <1>3, RecordKeeps
<1> QED BY <1>2, <1>4, AtFits
        DEF RetainReviewRejection, RetainExhaustedEngineering, RetainInvalidRepresentation

-----------------------------------------------------------------------------
(* The pipeline.                                                           *)

\* The route the director continues with is a route.
LEMMA RoutedFits ==
  ASSUME NEW r \in Route, NEW staffed \in BOOLEAN
  PROVE  Routed(r, staffed) \in Route
BY DEF Routed, NewRoute, NoRoute, Route

\* Independent review.
LEMMA AdvanceReviewFits ==
  ASSUME NEW b \in Nat, NEW s, Fits(s, b), Open(s)
  PROVE  Fits(AdvanceReview(s), b)
<1> DEFINE q == Current(s)
           t == [s EXCEPT !.route[q] = Routed(@, s.staffed)]
           routes == [s.route EXCEPT ![q] = Routed(@, s.staffed)]
<1>1. s \in Views /\ s.campaign \in CampaignRow /\ s.route \in [Queue -> Route] /\ s.staffed \in BOOLEAN
  BY DEF Fits, Views
<1>2. q \in Queue
  <2>1. s.campaign.done \in 0..Questions /\ s.campaign.done < Questions
    BY <1>1 DEF CampaignRow, Open
  <2> QED BY <2>1, CampaignAssumption DEF Current, Queue
<1>3. routes \in [Queue -> Route]
  BY <1>1, <1>2, RoutedFits
<1>4. t = [s EXCEPT !.route = routes]
  BY <1>1 DEF Views
<1>5. t \in Views /\ t.campaign = s.campaign /\ t.task = s.task
  <2> HIDE DEF routes, q
  <2> QED BY <1>1, <1>3, <1>4 DEF Views
<1>6. Fits(t, b) /\ Open(t)
  BY <1>5 DEF Fits, Open
<1>s. {"Q", "E"} \subseteq Stages /\ "independent_strategy_review_pending" \in Reasons
      /\ (protocol = "governed") \in BOOLEAN
  BY DEF Stages, Reasons
<1>7. AdvanceReview(s) \in {RetainReviewRejection(t),
                            At(Because(t, "independent_strategy_review_pending"), "Q"),
                            CreateStage(t, "E", protocol = "governed"), At(t, "E")}
  BY DEF AdvanceReview
<1> HIDE DEF t
<1>8. Fits(RetainReviewRejection(t), b) /\ Fits(CreateStage(t, "E", protocol = "governed"), b)
      /\ Fits(At(t, "E"), b)
  BY <1>6, <1>s, RetainFits, CreateStageFits, AtFits
<1>9. Fits(At(Because(t, "independent_strategy_review_pending"), "Q"), b)
  BY <1>6, <1>s, BecauseFits, AtFits
<1> QED BY <1>7, <1>8, <1>9

\* The ladder: the next rung is never beyond the last one.
LEMMA AdvanceEngineeringFits ==
  ASSUME NEW b \in Nat, NEW s, Fits(s, b), Open(s)
  PROVE  Fits(AdvanceEngineering(s), b)
<1> DEFINE g == Stage(s, "G")
           t == IF g.status = "absent" THEN CreateRung(s, 1)
                ELSE IF NextRung(g) THEN CreateRung(s, g.n + 1)
                ELSE At(s, "G")
<1>1. "G" \in Stages /\ {"strategy_engineering_completed", "strategy_engineering_failed"} \subseteq Reasons
  BY DEF Stages, Reasons
<1>2. g.n \in Nat
  BY <1>1, StageFits DEF Row
<1>3. Fits(t, b)
  <2>1. CASE g.status = "absent"
    BY <2>1, CreateRungFits, CampaignAssumption
  <2>2. CASE g.status # "absent" /\ NextRung(g)
    <3>1. g.n + 1 \in Nat /\ g.n + 1 <= LastRung
      BY <1>2, <2>2, CampaignAssumption DEF NextRung
    <3> HIDE DEF g
    <3> QED BY <2>2, <3>1, CreateRungFits
  <2>3. CASE g.status # "absent" /\ ~NextRung(g)
    BY <1>1, <2>3, AtFits
  <2> QED BY <2>1, <2>2, <2>3
<1>4. AdvanceEngineering(s) \in {t, Park(t, "strategy_engineering_completed", "G"),
                                 Park(t, "strategy_engineering_failed", "G")}
  BY DEF AdvanceEngineering
<1> HIDE DEF t
<1> QED BY <1>1, <1>3, <1>4, ParkFits

\* From the confirmed card to the review.
LEMMA AdvanceQualificationFits ==
  ASSUME NEW b \in Nat, NEW s, Fits(s, b), Open(s)
  PROVE  Fits(AdvanceQualification(s), b)
<1> DEFINE row == Stage(s, "Q")
<1>1. "Q" \in Stages
      /\ {"strategy_not_qualified", "qualification_differs_from_approved_card",
          "qualification_dataset_binding_mismatch", "strategy_producer_identity_missing"} \subseteq Reasons
  BY DEF Stages, Reasons
<1>2. CASE row.status = "absent"
  BY <1>1, <1>2, CreateStageFits DEF AdvanceQualification
<1>3. CASE row.status \notin {"absent", "succeeded"}
  BY <1>1, <1>3, AtFits DEF AdvanceQualification
<1>4. CASE row.status = "succeeded"
  <2>1. row.note \in {"ready", "unready", "differs", "unbound", "unattributed"}
    BY <1>1, <1>4, StageFits DEF Results
  <2>2. AdvanceQualification(s) \in
          {At(Park(s, "strategy_not_qualified", "none"), "Q"),
           At(Park(s, "qualification_differs_from_approved_card", "none"), "Q"),
           At(Park(s, "qualification_dataset_binding_mismatch", "none"), "Q"),
           At(Because(s, "strategy_producer_identity_missing"), "Q"), AdvanceReview(s)}
    <3> HIDE DEF row
    <3> QED BY <1>4, <2>1 DEF AdvanceQualification, row
  <2>3. \A why \in Reasons : Fits(At(Park(s, why, "none"), "Q"), b) /\ Fits(At(Because(s, why), "Q"), b)
    BY <1>1, ParkFits, BecauseFits, AtFits
  <2> QED BY <1>1, <2>2, <2>3, AdvanceReviewFits
<1> QED BY <1>2, <1>3, <1>4

\* The founder's confirmation.
LEMMA AdvanceConfirmationFits ==
  ASSUME NEW b \in Nat, NEW s, Fits(s, b), Open(s)
  PROVE  Fits(AdvanceConfirmation(s), b)
<1> DEFINE row == Stage(s, "C")
           new == [s.task[Current(s)]["C"] EXCEPT !.status = "succeeded", !.approval = "closed"]
           t == [s EXCEPT !.task[Current(s)]["C"] = new]
           confirmed == [s EXCEPT !.task[Current(s)]["C"].status = "succeeded",
                                  !.task[Current(s)]["C"].approval = "closed"]
<1>1. "C" \in Stages /\ TRUE \in BOOLEAN
  BY DEF Stages
<1>2. s \in Views /\ s.campaign \in CampaignRow /\ s.task \in [Queue -> [Stages -> Row]]
  BY DEF Fits, Views
<1>3. Current(s) \in Queue
  <2>1. s.campaign.done \in 0..Questions /\ s.campaign.done < Questions
    BY <1>2 DEF CampaignRow, Open
  <2> QED BY <2>1, CampaignAssumption DEF Current, Queue
<1>4. new \in Row
  <2>1. s.task[Current(s)]["C"] \in Row
    BY <1>1, <1>2, <1>3
  <2> QED BY <2>1 DEF Row, TaskStatuses, Ended
<1>5. confirmed = t
  <2> DEFINE q == Current(s)
  <2> HIDE DEF q
  <2>1. [s EXCEPT !.task[q]["C"].status = "succeeded", !.task[q]["C"].approval = "closed"]
          = [s EXCEPT !.task[q]["C"] =
               [s.task[q]["C"] EXCEPT !.status = "succeeded", !.approval = "closed"]]
    BY <1>1, <1>2, <1>3 DEF Views, q
  <2> QED BY <2>1 DEF q
<1> HIDE DEF new
<1>6. Fits(t, b) /\ t.campaign = s.campaign
  BY <1>1, <1>4, RowFits
<1>7. AdvanceConfirmation(s) \in {CreateStage(s, "C", TRUE), AdvanceQualification(s),
                                  AdvanceQualification(confirmed), Refused(s), At(s, "C")}
  BY DEF AdvanceConfirmation
<1>8. Fits(AdvanceQualification(t), b)
  <2> HIDE DEF t
  <2> QED BY <1>6, AdvanceQualificationFits DEF Open
<1>9. Fits(AdvanceQualification(confirmed), b)
  BY <1>5, <1>8
<1> HIDE DEF t, confirmed
<1>10. Fits(CreateStage(s, "C", TRUE), b) /\ Fits(At(s, "C"), b)
  BY <1>1, CreateStageFits, AtFits
<1>11. Fits(AdvanceQualification(s), b) /\ Fits(Refused(s), b)
  BY AdvanceQualificationFits, RefusedFits
<1> QED BY <1>7, <1>9, <1>10, <1>11

\* _ensure_execution_task.
LEMMA AdvanceFits ==
  ASSUME NEW b \in Nat, NEW s, Fits(s, b), Open(s)
  PROVE  Fits(Advance(s), b)
<1> DEFINE t == Because(s, "none")
<1>1. {"D", "E"} \subseteq Stages /\ "none" \in Reasons
  BY DEF Stages, Reasons
<1>2. Fits(t, b) /\ Open(t)
  BY <1>1, BecauseFits DEF Open
<1>3. AdvancePipeline(s) \in {OpenQuestion(t), At(t, "D"), AdvanceEngineering(t),
                              AdvanceConfirmation(t), AdvanceQualification(t)}
  BY DEF AdvancePipeline
<1> HIDE DEF t
<1>4. Fits(AdvancePipeline(s), b)
  BY <1>1, <1>2, <1>3, OpenQuestionFits, AtFits, AdvanceEngineeringFits,
     AdvanceConfirmationFits, AdvanceQualificationFits
<1> QED BY <1>1, <1>4, OpenQuestionFits, AtFits DEF Advance

\* The end of reconcile_campaign.
LEMMA ParkOnFailureFits ==
  ASSUME NEW b \in Nat, NEW s, Fits(s, b)
  PROVE  Fits(ParkOnFailure(s), b)
<1>1. s.at \in Stages \cup {"none"} /\ "E" \in Stages
  BY DEF Fits, Views, Stages
<1>2. {"execution_task_failed", "execution_task_cancelled", "governed_pipeline_task_failed",
       "governed_pipeline_task_cancelled"} \subseteq Reasons
  BY DEF Reasons
<1>3. ParkOnFailure(s) \in {Park(s, "execution_task_failed", "E"), Park(s, "execution_task_cancelled", "E"),
                            Park(s, "governed_pipeline_task_failed", s.at),
                            Park(s, "governed_pipeline_task_cancelled", s.at), s}
  BY DEF ParkOnFailure
<1> QED BY <1>1, <1>2, <1>3, ParkFits

-----------------------------------------------------------------------------
(* reconcile_campaign.                                                     *)

\* What a running campaign does next.
LEMMA ProceedFits ==
  ASSUME NEW b \in Nat, NEW s, Fits(s, b)
  PROVE  Fits(Proceed(s), b)
<1>1. "E" \in Stages
  BY DEF Stages
<1>2. Stage(s, "E").status = "succeeded" => Fits(ConsumeExecution(s), b)
  <2> SUFFICES ASSUME Stage(s, "E").status = "succeeded" PROVE Fits(ConsumeExecution(s), b)
    OBVIOUS
  <2>1. Open(s) /\ Stage(s, "E").note \in Reports /\ Stage(s, "E").n \in Nat
    BY <1>1, StageFits DEF Reports, Row
  <2> QED BY <2>1, RecordKeeps DEF ConsumeExecution
<1>3. BudgetReason(s) # "none" => Fits(Close(s, BudgetReason(s)), b)
  BY BudgetReasonFits, CloseFits
<1>4. BudgetReason(s) = "none" => Fits(ParkOnFailure(Advance(s)), b)
  BY BudgetReasonFits, AdvanceFits, ParkOnFailureFits
<1> QED BY <1>2, <1>3, <1>4 DEF Proceed

\* Every pass over an activated campaign that was not cancelled leaves one, with no fewer
\* trials; a cancelled campaign is left alone.
LEMMA ReconciledFits ==
  ASSUME NEW b \in Nat, NEW s, Fits(s, b)
  PROVE  Fits(Reconciled(s), b)
<1>1. "G" \in Stages
  BY DEF Stages
<1>2. Stage(s, "G").status = "failed" => Open(s)
  BY <1>1, StageFits
<1>3. Fits(ReopenExecution(s), b)
  BY RunningFits DEF ReopenExecution
<1>4. ASSUME NEW t, Fits(t, b) PROVE Fits(RecoverEngineering(t), b)
  <2>1. Stage(t, "G").status = "failed" => Open(t)
    BY <1>1, <1>4, StageFits
  <2> QED BY <1>4, <2>1, RetainFits, RunningFits DEF RecoverEngineering
<1>5. Fits(Proceed(RecoverEngineering(ReopenExecution(s))), b)
  BY <1>3, <1>4, ProceedFits
<1>6. InvalidPlan(s) => Fits(RetainInvalidRepresentation(s), b)
  BY <1>2, RetainFits DEF InvalidPlan
<1> QED BY <1>5, <1>6, RunningFits DEF Reconciled

\* A cancelled campaign is left alone.
LEMMA ReconciledCancelled ==
  ASSUME NEW s, s.campaign.status = "cancelled"
  PROVE  Reconciled(s) = s
BY DEF Reconciled, Resumable, InvalidPlan, ParkedFor, ReopenExecution, RecoverEngineering, Proceed

-----------------------------------------------------------------------------
(* The inductive invariant.                                                *)

\* A campaign that was never activated has done nothing yet.
Dormant ==
  campaign.status = "awaiting_activation" =>
    /\ campaign.trials = 0 /\ campaign.done = 0
    /\ \A q \in Queue, k \in Stages : task[q][k] = AbsentRow

\* Dormant makes activation start at zero; the rows' facts keep every CASE of the pipeline
\* within the outcomes a stage can report.
IInv ==
  /\ TypeOK /\ Dormant
  /\ campaign.failures <= campaign.done
  /\ \A q \in Queue : RowsFit(task[q], q <= campaign.done)

\* What the contract asks of a request that neither activates nor cancels.
LEMMA LedgerMoves ==
  ASSUME campaign \in CampaignRow, campaign' \in CampaignRow, campaign'.trials >= campaign.trials,
         campaign'.status \in {"running", "needs_attention", "completed_no_candidate", "shadow_candidate"},
         campaign.status = "awaiting_activation" =>
           campaign'.trials = 0 /\ campaign'.status \in {"running", "needs_attention"}
  PROVE  Ledger!Next
<1> DEFINE old == [status |-> campaign.status, trials |-> campaign.trials]
           new == [status |-> campaign'.status, trials |-> campaign'.trials]
<1>1. new \in Ledger!Ledger /\ campaign.trials \in Nat
  BY CampaignAssumption DEF Ledger!Ledger, Ledger!Statuses, Ledger!Final, CampaignRow
<1>2. new.trials \in old.trials..MaxTrials
  BY <1>1, CampaignAssumption DEF CampaignRow
<1>3. Ledger!Step(old, new, MaxTrials)
  BY <1>2 DEF Ledger!Step
<1> QED BY <1>1, <1>3 DEF Ledger!Next

\* The committed view of a request that fits keeps the invariant and the contract.
LEMMA CommitFits ==
  ASSUME IInv, NEW t, Fits(t, campaign.trials), Commit(t), UNCHANGED Environment,
         campaign.status = "awaiting_activation" =>
           t.campaign.trials = 0 /\ t.campaign.status \in {"running", "needs_attention"}
  PROVE  IInv' /\ Ledger!Next
<1>1. campaign' = t.campaign /\ task' = t.task /\ route' = t.route /\ answer' = t.answer
  BY DEF Commit
<1>2. /\ campaign' \in CampaignRow /\ task' \in [Queue -> [Stages -> Row]]
      /\ route' \in [Queue -> Route] /\ answer' \in [Queue -> Answers]
  BY <1>1 DEF Fits, Views
<1>3. /\ campaign'.failures <= campaign'.done /\ campaign'.trials >= campaign.trials
      /\ campaign'.status \in {"running", "needs_attention", "completed_no_candidate", "shadow_candidate"}
      /\ \A q \in Queue : RowsFit(task'[q], q <= campaign'.done)
  BY <1>1 DEF Fits
<1>4. \A q \in Queue : task'[q]["G"].n <= LastRung /\ task'[q]["E"].n <= MaxVariants
  BY <1>3 DEF RowsFit
<1>5. TypeOK'
  BY <1>2, <1>4 DEF IInv, TypeOK, Environment, CampaignRow, Answers
<1>6. Dormant'
  BY <1>3 DEF Dormant
<1>7. campaign \in CampaignRow
  BY DEF IInv, TypeOK, CampaignRow
<1> QED BY <1>1, <1>2, <1>3, <1>5, <1>6, <1>7, LedgerMoves DEF IInv

\* The view a request starts from.
LEMMA ViewFits ==
  ASSUME IInv, NEW staffed \in BOOLEAN
  PROVE  /\ campaign.status \notin {"awaiting_activation", "cancelled"} =>
              Fits(ViewWhen(staffed), campaign.trials)
         /\ Fits(Running(ViewWhen(staffed)), campaign.trials)
         /\ Running(ViewWhen(staffed)).campaign.trials = campaign.trials
         /\ Running(ViewWhen(staffed)).campaign.done = campaign.done
         /\ Running(ViewWhen(staffed)).campaign.status = "running"
         /\ Running(ViewWhen(staffed)).task = task
<1> DEFINE s == ViewWhen(staffed)
           c == [campaign EXCEPT !.status = "running", !.why = "none", !.blame = "none"]
           t == [s EXCEPT !.campaign = c]
<1>1. campaign \in CampaignRow /\ task \in [Queue -> [Stages -> Row]]
      /\ route \in [Queue -> Route] /\ answer \in [Queue -> Answers]
  BY DEF IInv, TypeOK, CampaignRow, Answers
<1>2. s \in Views /\ s.campaign = campaign /\ s.task = task
  BY <1>1 DEF ViewWhen, Views
<1>3. c \in CampaignRow /\ c.done = campaign.done /\ c.failures = campaign.failures
      /\ c.trials = campaign.trials /\ c.status = "running"
  BY <1>1 DEF CampaignRow, Reasons
<1>4. Running(s) = t
  BY <1>1 DEF Running, ViewWhen, CampaignRow
<1>5. campaign.status \notin {"awaiting_activation", "cancelled"} => Fits(s, campaign.trials)
  <2> HIDE DEF s
  <2> QED BY <1>1, <1>2 DEF Fits, IInv, CampaignRow, Final
<1>6. t \in Views /\ t.campaign = c /\ t.task = task
  <2> HIDE DEF s, c
  <2> QED BY <1>2, <1>3 DEF Views
<1>7. Fits(t, campaign.trials)
  <2>1. campaign.trials \in Nat
    BY <1>1 DEF CampaignRow
  <2> HIDE DEF t, c
  <2> QED BY <1>3, <1>6, <2>1 DEF Fits, IInv
<1> HIDE DEF t, c
<1> QED BY <1>3, <1>4, <1>5, <1>6, <1>7

\* The counters are numbers.
LEMMA TrialsAreNat == IInv => campaign.trials \in Nat /\ campaign.done \in 0..Questions
BY DEF IInv, TypeOK

\* A step that changes one task row.
LEMMA SetRowInv ==
  ASSUME IInv, NEW q \in Queue, NEW k \in Stages, NEW row \in Row, SetRow(q, k, row),
         task[q][k] # AbsentRow,
         k = "G" => row.n <= LastRung, k = "E" => row.n <= MaxVariants,
         row.status = "succeeded" =>
           row.note \in Results[k] \/ (task[q][k].status = row.status /\ task[q][k].note = row.note)
  PROVE  IInv' /\ UNCHANGED campaign
<1>1. task' = [task EXCEPT ![q][k] = row] /\ UNCHANGED <<campaign, route, answer, protocol, overdue, mandate>>
  BY DEF SetRow, Environment
<1>2. task \in [Queue -> [Stages -> Row]]
  BY DEF IInv, TypeOK
<1>3. task' \in [Queue -> [Stages -> Row]]
  BY <1>1, <1>2
<1>4. ASSUME NEW p \in Queue PROVE RowsFit(task'[p], p <= campaign.done)
  <2>1. RowsFit(task[p], p <= campaign.done)
    BY DEF IInv
  <2>2. CASE p # q
    BY <1>1, <1>2, <2>1, <2>2
  <2>3. CASE p = q
    <3>1. task'[p] = [task[p] EXCEPT ![k] = row] /\ task[p] \in [Stages -> Row]
      BY <1>1, <1>2, <2>3
    <3>2. /\ task'[p][k] = row
          /\ \A j \in Stages \ {k} : task'[p][j] = task[p][j]
      BY <3>1
    <3>4. CASE k = "Q"
      BY <2>1, <2>3, <3>2, <3>4 DEF RowsFit, Stages
    <3>5. CASE k = "E"
      BY <2>1, <2>3, <3>2, <3>5 DEF RowsFit, Stages
    <3>6. CASE k \notin {"Q", "E"}
      BY <2>1, <2>3, <3>2, <3>6 DEF RowsFit, Stages
    <3> QED BY <3>4, <3>5, <3>6
  <2> QED BY <2>2, <2>3
<1>5. \A p \in Queue : task'[p]["G"].n <= LastRung /\ task'[p]["E"].n <= MaxVariants
  BY <1>4 DEF RowsFit
<1>6. TypeOK'
  BY <1>1, <1>3, <1>5 DEF IInv, TypeOK
<1>7. campaign.status # "awaiting_activation"
  BY DEF IInv, Dormant
<1> QED BY <1>1, <1>4, <1>6, <1>7 DEF IInv, Dormant

\* Workers, the founder and the sweep keep the rows in order.
LEMMA TaskStepInv ==
  ASSUME IInv, NEW q \in Queue, NEW k \in Stages, TaskStep(q, k)
  PROVE  IInv' /\ UNCHANGED campaign
<1> DEFINE r == task[q][k]
<1>1. r \in Row /\ (k = "G" => r.n <= LastRung) /\ (k = "E" => r.n <= MaxVariants)
  BY DEF IInv, TypeOK
<1>2. AbsentRow.status = "absent" /\ AbsentRow.approval = "none"
  BY DEF AbsentRow
<1>3. Results[k] \subseteq Notes /\ Failures[k] \subseteq Notes
  BY DEF Notes
<1> HIDE DEF r
<1>4. ASSUME NEW row \in Row, SetRow(q, k, row), r # AbsentRow, row.n = r.n, row.status # "succeeded"
      PROVE  IInv' /\ UNCHANGED campaign
  BY <1>1, <1>4, SetRowInv DEF r
<1>5. CASE Lease(q, k)
  <2> DEFINE row == [r EXCEPT !.status = "leased", !.approval = IF @ = "none" THEN @ ELSE "closed"]
  <2>1. row \in Row /\ row.n = r.n /\ row.status # "succeeded"
    BY <1>1 DEF Row, TaskStatuses, InFlight
  <2>2. SetRow(q, k, row) /\ r # AbsentRow
    BY <1>2, <1>5 DEF Lease, r
  <2> HIDE DEF row
  <2> QED BY <1>4, <2>1, <2>2
<1>6. CASE Start(q, k)
  <2> DEFINE row == [r EXCEPT !.status = "running"]
  <2>1. row \in Row /\ row.n = r.n /\ row.status # "succeeded"
    BY <1>1 DEF Row, TaskStatuses, InFlight
  <2>2. SetRow(q, k, row) /\ r # AbsentRow
    BY <1>2, <1>6 DEF Start, r
  <2> HIDE DEF row
  <2> QED BY <1>4, <2>1, <2>2
<1>7. CASE Succeed(q, k)
  <2>1. PICK note \in Results[k], n \in IF k = "E" THEN 0..MaxVariants ELSE {r.n} :
          SetRow(q, k, [r EXCEPT !.status = "succeeded", !.note = note, !.n = n])
    BY <1>7 DEF Succeed, r
  <2> DEFINE row == [r EXCEPT !.status = "succeeded", !.note = note, !.n = n]
  <2>2. n \in Nat /\ (k = "E" => n <= MaxVariants) /\ (k # "E" => n = r.n)
    BY <1>1, CampaignAssumption DEF Row
  <2>3. row \in Row /\ row.n = n /\ row.note = note
    BY <1>1, <1>3, <2>2 DEF Row, TaskStatuses, Ended
  <2>4. r # AbsentRow
    BY <1>2, <1>7 DEF Succeed, r
  <2> HIDE DEF row
  <2>5. SetRow(q, k, row)
    BY <2>1 DEF row
  <2>6. k = "G" => row.n <= LastRung
    BY <1>1, <2>2, <2>3
  <2> QED BY <2>2, <2>3, <2>4, <2>5, <2>6, SetRowInv DEF r
<1>8. CASE Fail(q, k)
  <2>1. PICK note \in Failures[k] : SetRow(q, k, [r EXCEPT !.status = "failed", !.note = note])
    BY <1>8 DEF Fail, r
  <2> DEFINE row == [r EXCEPT !.status = "failed", !.note = note]
  <2>2. row \in Row /\ row.n = r.n /\ row.status # "succeeded"
    BY <1>1, <1>3 DEF Row, TaskStatuses, Ended
  <2>3. r # AbsentRow
    BY <1>2, <1>8 DEF Fail, r
  <2> HIDE DEF row
  <2> QED BY <1>4, <2>1, <2>2, <2>3 DEF row
<1>9. CASE Requeue(q, k)
  <2> DEFINE row == [r EXCEPT
               !.status = IF r.cancel THEN "cancelled"
                          ELSE IF r.approval = "none" THEN "queued" ELSE "pending_approval",
               !.approval = IF @ = "none" \/ r.cancel THEN @ ELSE "pending"]
  <2>1. row \in Row /\ row.n = r.n /\ row.status # "succeeded"
    BY <1>1 DEF Row, TaskStatuses, InFlight, Ended
  <2>2. SetRow(q, k, row) /\ r # AbsentRow
    BY <1>2, <1>9 DEF Requeue, r
  <2> HIDE DEF row
  <2> QED BY <1>4, <2>1, <2>2
<1>10. CASE ResumeTask(q, k)
  <2> DEFINE row == [r EXCEPT !.note = "none",
               !.status = IF r.approval = "none" THEN "queued" ELSE "pending_approval",
               !.approval = IF @ = "none" THEN @ ELSE "pending"]
  <2>1. row \in Row /\ row.n = r.n /\ row.status # "succeeded"
    BY <1>1 DEF Row, TaskStatuses, InFlight, Notes
  <2>2. SetRow(q, k, row) /\ r # AbsentRow
    BY <1>2, <1>10 DEF ResumeTask, r
  <2> HIDE DEF row
  <2> QED BY <1>4, <2>1, <2>2
<1>11. CASE Approve(q, k) \/ ApprovalAskedAgain(q, k)
  <2>1. PICK approval \in {"approved", "pending"}, status \in {"queued", "pending_approval"} :
          SetRow(q, k, [r EXCEPT !.approval = approval, !.status = status])
    BY <1>11 DEF Approve, ApprovalAskedAgain, r
  <2> DEFINE row == [r EXCEPT !.approval = approval, !.status = status]
  <2>2. row \in Row /\ row.n = r.n /\ row.status # "succeeded"
    BY <1>1 DEF Row, TaskStatuses, InFlight
  <2>3. r # AbsentRow
    BY <1>2, <1>11 DEF Approve, ApprovalAskedAgain, r
  <2> HIDE DEF row
  <2> QED BY <1>4, <2>1, <2>2, <2>3 DEF row
<1>12. CASE Reject(q, k)
  <2> DEFINE row == [r EXCEPT !.approval = "closed", !.status = "cancelled"]
  <2>1. row \in Row /\ row.n = r.n /\ row.status # "succeeded"
    BY <1>1 DEF Row, TaskStatuses, Ended
  <2>2. SetRow(q, k, row) /\ r # AbsentRow
    BY <1>2, <1>12 DEF Reject, r
  <2> HIDE DEF row
  <2> QED BY <1>4, <2>1, <2>2
<1>13. CASE ApprovalLapses(q, k)
  <2> DEFINE row == [r EXCEPT !.approval = "lapsed"]
  <2>1. row \in Row /\ row.n = r.n /\ row.status = r.status /\ row.note = r.note
    BY <1>1 DEF Row
  <2>2. SetRow(q, k, row) /\ r # AbsentRow
    BY <1>2, <1>13 DEF ApprovalLapses, r
  <2> HIDE DEF row
  <2> QED BY <1>1, <2>1, <2>2, SetRowInv DEF r
<1> QED BY <1>5, <1>6, <1>7, <1>8, <1>9, <1>10, <1>11, <1>12, <1>13 DEF TaskStep

\* A step on a route, the clock or the mandate.
LEMMA OutsideInv ==
  ASSUME IInv, UNCHANGED <<campaign, task, answer, protocol>>,
         route' \in [Queue -> Route], overdue' \in BOOLEAN, mandate' \in {"active", "lapsed", "closed"}
  PROVE  IInv'
BY DEF IInv, TypeOK, Dormant

\* Reviewers and the evaluator catalog change routes only.
LEMMA RouteStepInv ==
  ASSUME IInv, NEW q \in Queue,
         EvaluatorStale(q) \/ \E k \in Kinds : ReviewVerdict(q, k) \/ ReviewLost(q, k)
  PROVE  IInv' /\ UNCHANGED campaign
<1>1. route[q] \in Route /\ route \in [Queue -> Route]
      /\ overdue \in BOOLEAN /\ mandate \in {"active", "lapsed", "closed"}
  BY DEF IInv, TypeOK
<1>2. ASSUME NEW r \in Route, SetRoute(q, r) PROVE IInv' /\ UNCHANGED campaign
  <2>1. route' \in [Queue -> Route]
    BY <1>1, <1>2 DEF SetRoute
  <2> QED BY <1>1, <1>2, <2>1, OutsideInv DEF SetRoute, Environment
<1>3. CASE EvaluatorStale(q)
  <2>1. [route[q] EXCEPT !.stale = TRUE] \in Route
    BY <1>1 DEF Route
  <2> QED BY <1>2, <1>3, <2>1 DEF EvaluatorStale
<1>4. ASSUME NEW k \in Kinds, ReviewLost(q, k) PROVE IInv' /\ UNCHANGED campaign
  <2>1. [route[q] EXCEPT !.review[k] = "lost"] \in Route
    BY <1>1 DEF Route
  <2> QED BY <1>2, <1>4, <2>1 DEF ReviewLost
<1>5. ASSUME NEW k \in Kinds, ReviewVerdict(q, k) PROVE IInv' /\ UNCHANGED campaign
  <2>1. PICK verdict \in {"approve", "reject"} :
          LET review == [route[q].review EXCEPT ![k] = verdict]
          IN  SetRoute(q, [route[q] EXCEPT !.review = review,
                !.status = IF \A l \in Kinds : review[l] \in {"approve", "reject"} THEN "completed" ELSE @])
    BY <1>5 DEF ReviewVerdict
  <2> DEFINE review == [route[q].review EXCEPT ![k] = verdict]
             done == \A l \in Kinds : review[l] \in {"approve", "reject"}
  <2>2. review \in [Kinds -> {"none", "assigned", "lost", "approve", "reject"}]
    BY <1>1 DEF Route
  <2>3. [route[q] EXCEPT !.review = review, !.status = IF done THEN "completed" ELSE @] \in Route
    <3> HIDE DEF review, done
    <3> QED BY <1>1, <2>2 DEF Route
  <2> QED BY <1>2, <2>1, <2>3
<1> QED BY <1>3, <1>4, <1>5

\* cancel_campaign.
LEMMA CancelInv ==
  ASSUME IInv, CancelCampaign
  PROVE  IInv' /\ Ledger!Next
<1> DEFINE c == [campaign EXCEPT !.status = "cancelled", !.why = "operator_cancelled", !.blame = "none"]
<1>1. campaign \in CampaignRow /\ task \in [Queue -> [Stages -> Row]]
  BY DEF IInv, TypeOK, CampaignRow
<1>2. c \in CampaignRow /\ c.status = "cancelled" /\ c.done = campaign.done
      /\ c.trials = campaign.trials /\ c.failures = campaign.failures
  BY <1>1 DEF CampaignRow, Reasons, Final
<1>3. campaign' = c /\ UNCHANGED <<route, answer, protocol, overdue, mandate>>
  BY DEF CancelCampaign, Environment
<1>4. task' = [q \in Queue |-> [k \in Stages |->
                 IF <<q, k>> \in Newest THEN CancelledRow(task[q][k]) ELSE task[q][k]]]
  BY DEF CancelCampaign
<1>5. ASSUME NEW r \in Row
      PROVE  /\ CancelledRow(r) \in Row /\ CancelledRow(r).n = r.n
             /\ CancelledRow(r).status = "succeeded" => CancelledRow(r) = r
  BY DEF CancelledRow, Row, TaskStatuses, Ended, InFlight
<1>6. ASSUME NEW q \in Queue, NEW k \in Stages
      PROVE  /\ task'[q][k] \in Row /\ task'[q][k].n = task[q][k].n
             /\ task'[q][k].status = "succeeded" => task'[q][k] = task[q][k]
  BY <1>1, <1>4, <1>5
<1>7. task' \in [Queue -> [Stages -> Row]]
  BY <1>4, <1>6
<1>8. \A q \in Queue : RowsFit(task'[q], q <= campaign.done)
  <2>1. {"G", "Q", "E"} \subseteq Stages
    BY DEF Stages
  <2> QED BY <1>6, <2>1 DEF IInv, RowsFit
<1>9. \A q \in Queue : task'[q]["G"].n <= LastRung /\ task'[q]["E"].n <= MaxVariants
  BY <1>8 DEF RowsFit
<1> HIDE DEF c
<1>10. TypeOK'
  BY <1>2, <1>3, <1>7, <1>9 DEF IInv, TypeOK, CampaignRow
<1>11. IInv'
  BY <1>2, <1>3, <1>8, <1>10 DEF IInv, Dormant
<1>12. Ledger!Next
  <2> DEFINE old == [status |-> campaign.status, trials |-> campaign.trials]
             new == [status |-> campaign'.status, trials |-> campaign'.trials]
  <2>1. campaign.status \notin Final /\ (campaign.status = "awaiting_activation" => campaign.trials = 0)
    BY DEF CancelCampaign, IInv, Dormant
  <2>2. campaign.trials \in 0..MaxTrials
    BY <1>1 DEF CampaignRow
  <2>3. new \in Ledger!Ledger
    BY <1>2, <1>3, <2>2 DEF Ledger!Ledger, Ledger!Statuses, Ledger!Final
  <2>4. new.trials \in old.trials..MaxTrials
    BY <1>2, <1>3, <2>2, CampaignAssumption
  <2>5. Ledger!Step(old, new, MaxTrials)
    BY <1>2, <1>3, <2>1, <2>4 DEF Ledger!Step, Final
  <2> QED BY <2>3, <2>5 DEF Ledger!Next
<1> QED BY <1>11, <1>12

\* recover_completed_execution: whatever the campaign's status was, it runs and retains.
LEMMA RecoverInv ==
  ASSUME IInv, NEW q \in Queue, NEW outcome \in Results["E"], NEW cost \in 0..MaxVariants,
         RecoverCompletedExecution(q, outcome, cost)
  PROVE  IInv' /\ Ledger!Next
<1> DEFINE v == Running(View)
           row == [task[q]["E"] EXCEPT !.status = "succeeded", !.note = "recovered", !.n = cost]
           table == [task EXCEPT ![q]["E"] = row]
           s == [v EXCEPT !.task = table]
<1>1. "E" \in Stages /\ outcome \in Reports /\ cost \in Nat /\ cost <= MaxVariants
  BY CampaignAssumption DEF Stages, Reports
<1>2. task \in [Queue -> [Stages -> Row]] /\ task[q]["E"] \in Row
  BY <1>1 DEF IInv, TypeOK
<1>3. /\ Fits(v, campaign.trials) /\ v.task = task /\ v.campaign.done = campaign.done
      /\ v.campaign.trials = campaign.trials /\ v.campaign.status = "running"
  BY ViewFits DEF View
<1>4. campaign.trials \in Nat /\ campaign.done \in 0..Questions /\ q = campaign.done + 1
  BY TrialsAreNat DEF RecoverCompletedExecution
<1>5. row \in Row /\ row.n = cost
  BY <1>1, <1>2 DEF Row, TaskStatuses, Ended, Notes
<1>6. Commit(Record(s, outcome, cost)) /\ UNCHANGED Environment
  <2>1. v \in Views
    BY <1>3 DEF Fits
  <2>2. [v EXCEPT !.task[q]["E"].status = "succeeded", !.task[q]["E"].note = "recovered",
                  !.task[q]["E"].n = cost] = s
    <3> HIDE DEF v
    <3>1. [v.task EXCEPT ![q]["E"].status = "succeeded", ![q]["E"].note = "recovered",
                         ![q]["E"].n = cost] = table
      BY <1>1, <1>2, <1>3
    <3> QED BY <2>1, <3>1 DEF Views
  <2> QED BY <2>2 DEF RecoverCompletedExecution
<1> HIDE DEF row
<1>7. table \in [Queue -> [Stages -> Row]]
  BY <1>1, <1>2, <1>5
<1>8. ASSUME NEW p \in Queue PROVE RowsFit(table[p], p <= campaign.done + 1)
  <2>1. RowsFit(task[p], p <= campaign.done)
    BY DEF IInv
  <2>2. CASE p # q
    <3>1. table[p] = task[p]
      BY <1>2, <2>2
    <3>2. p <= campaign.done => p <= campaign.done + 1
      BY <1>4 DEF Queue
    <3> QED BY <2>1, <3>1, <3>2 DEF RowsFit
  <2>3. CASE p = q
    <3>1. table[p]["E"] = row /\ \A j \in Stages \ {"E"} : table[p][j] = task[p][j]
      BY <1>1, <1>2, <2>3
    <3>2. p <= campaign.done + 1
      BY <1>4, <2>3
    <3> QED BY <1>1, <1>5, <2>1, <3>1, <3>2 DEF RowsFit, Stages
  <2> QED BY <2>2, <2>3
<1> HIDE DEF v, table
<1>9. s \in Views /\ s.campaign = v.campaign /\ s.task = table
  BY <1>3, <1>7 DEF Fits, Views
<1> HIDE DEF s
<1>10. Open(s) /\ s.campaign.failures <= s.campaign.done /\ s.campaign.trials >= campaign.trials
  <2>1. campaign.done < Questions
    BY <1>4, CampaignAssumption DEF Queue
  <2>2. v.campaign.failures <= v.campaign.done /\ v.campaign.trials >= campaign.trials
    BY <1>3 DEF Fits
  <2> QED BY <1>3, <1>9, <2>1, <2>2 DEF Open
<1>11. Fits(Record(s, outcome, cost), campaign.trials)
  <2>1. Record(s, outcome, cost).ok
    BY <1>6 DEF Commit
  <2>2. ~Refused(s).ok
    BY <1>9 DEF Refused, Views
  <2>3. \A p \in Queue : RowsFit(s.task[p], p <= s.campaign.done + 1)
    BY <1>3, <1>8, <1>9
  <2> QED BY <1>1, <1>4, <1>9, <1>10, <2>1, <2>2, <2>3, RecordFits
<1>12. campaign.status # "awaiting_activation"
  <2>1. AbsentRow.status = "absent" /\ task[q]["E"].status = "failed"
    BY DEF AbsentRow, RecoverCompletedExecution
  <2> QED BY <1>1, <2>1 DEF IInv, Dormant
<1> QED BY <1>6, <1>11, <1>12, CommitFits

\* A pass over the campaign, whoever asks for it.
LEMMA ReconcileInv ==
  ASSUME IInv, campaign.status # "awaiting_activation", NEW staffed \in BOOLEAN,
         Commit(Reconciled(ViewWhen(staffed))) \/ Commit(Reconciled(Running(ViewWhen(staffed)))),
         UNCHANGED Environment
  PROVE  IInv' /\ (Ledger!Next \/ UNCHANGED campaign)
<1>1. campaign.trials \in Nat
  BY TrialsAreNat
<1>2. CASE Commit(Reconciled(Running(ViewWhen(staffed))))
  <2>1. Fits(Reconciled(Running(ViewWhen(staffed))), campaign.trials)
    BY <1>1, ViewFits, ReconciledFits
  <2> QED BY <1>2, <2>1, CommitFits
<1>3. CASE campaign.status # "cancelled" /\ Commit(Reconciled(ViewWhen(staffed)))
  <2>1. Fits(Reconciled(ViewWhen(staffed)), campaign.trials)
    BY <1>1, <1>3, ViewFits, ReconciledFits
  <2> QED BY <1>3, <2>1, CommitFits
<1>4. CASE campaign.status = "cancelled" /\ Commit(Reconciled(ViewWhen(staffed)))
  <2>1. ViewWhen(staffed).campaign = campaign /\ ViewWhen(staffed).task = task
        /\ ViewWhen(staffed).route = route /\ ViewWhen(staffed).answer = answer
    BY DEF ViewWhen
  <2>2. Commit(ViewWhen(staffed))
    BY <1>4, <2>1, ReconciledCancelled
  <2>3. UNCHANGED <<campaign, task, route, answer>>
    BY <2>1, <2>2 DEF Commit
  <2> QED BY <2>3 DEF IInv, TypeOK, Dormant, Environment
<1> QED BY <1>2, <1>3, <1>4

\* activate_campaign: the first question is opened, or the campaign parks.
LEMMA ActivateInv ==
  ASSUME IInv, ActivateCampaign
  PROVE  IInv' /\ Ledger!Next
<1> DEFINE s == Running(View)
<1>1. /\ Fits(s, campaign.trials) /\ s.task = task /\ s.campaign.done = campaign.done
      /\ s.campaign.trials = campaign.trials /\ s.campaign.status = "running"
  BY ViewFits DEF View
<1>2. campaign.trials = 0 /\ campaign.done = 0 /\ \A q \in Queue, k \in Stages : task[q][k] = AbsentRow
  BY DEF ActivateCampaign, IInv, Dormant
<1> HIDE DEF s
<1>3. Open(s)
  BY <1>1, <1>2, CampaignAssumption DEF Open
<1>4. ASSUME NEW t, Fits(t, 0), Open(t), t.campaign.done = 0, t.task = task, NEW k \in Stages
      PROVE  Stage(t, k).status = "absent"
  <2>1. Current(t) = 1 /\ 1 \in Queue
    BY <1>4, CampaignAssumption DEF Current, Queue
  <2> QED BY <1>2, <1>4, <2>1 DEF Stage, AbsentRow
<1>5. {"D", "E"} \subseteq Stages /\ "none" \in Reasons
  BY DEF Stages, Reasons
<1> DEFINE t == Because(s, "none")
<1>6. /\ Fits(t, 0) /\ Open(t) /\ t.campaign.done = 0 /\ t.task = task
      /\ t.campaign.trials = 0 /\ t.campaign.status = "running"
  BY <1>1, <1>2, <1>3, <1>5, BecauseFits DEF Open
<1>7. Stage(t, "D").status = "absent" /\ Stage(s, "E").status = "absent"
  <2> HIDE DEF t
  <2> QED BY <1>1, <1>2, <1>3, <1>4, <1>5, <1>6
<1>8. Advance(s) \in {OpenQuestion(t), OpenQuestion(s)}
  BY <1>7 DEF Advance, AdvancePipeline
<1> HIDE DEF t
<1>9. \A v \in {OpenQuestion(t), OpenQuestion(s)} :
        Fits(v, 0) /\ v.campaign.trials = 0 /\ v.campaign.status \in {"running", "needs_attention"}
  BY <1>1, <1>2, <1>3, <1>6, OpenQuestionFits
<1>10. Commit(Advance(s)) /\ UNCHANGED Environment
  BY DEF ActivateCampaign, s
<1> QED BY <1>2, <1>8, <1>9, <1>10, CommitFits

\* repeated recover_completed_execution: the campaign runs again.
LEMMA RepeatInv ==
  ASSUME IInv, NEW q \in Queue, RepeatRecovery(q)
  PROVE  IInv' /\ Ledger!Next
<1>1. Fits(Running(View), campaign.trials) /\ Commit(Running(View)) /\ UNCHANGED Environment
  BY ViewFits DEF View, RepeatRecovery
<1>2. campaign.status # "awaiting_activation"
  <2>1. "E" \in Stages /\ AbsentRow.status = "absent" /\ task[q]["E"].status = "succeeded"
    BY DEF Stages, AbsentRow, RepeatRecovery
  <2> QED BY <2>1 DEF IInv, Dormant
<1> QED BY <1>1, <1>2, CommitFits

\* Every step keeps the invariant, and is a step of the contract or leaves the campaign row
\* alone.
LEMMA NextInv ==
  ASSUME IInv, [Next]_vars
  PROVE  IInv' /\ (Ledger!Next \/ UNCHANGED campaign)
<1>1. CASE ActivateCampaign
  BY <1>1, ActivateInv
<1>2. CASE Director
  <2>1. campaign.status # "awaiting_activation"
    BY <1>2 DEF Director, ParkedFor, View, ViewWhen
  <2> QED BY <1>2, <2>1, ReconcileInv DEF Director
<1>3. CASE ReconcileCampaign
  BY <1>3, ReconcileInv DEF ReconcileCampaign
<1>4. CASE ResumeCampaign
  <2>1. campaign.status # "awaiting_activation"
    BY <1>4 DEF ResumeCampaign, ParkedFor, View, ViewWhen
  <2> QED BY <1>4, <2>1, ReconcileInv DEF ResumeCampaign
<1>5. CASE CancelCampaign
  BY <1>5, CancelInv
<1>6. ASSUME NEW q \in Queue, NEW outcome \in Results["E"], NEW cost \in 0..MaxVariants,
             RecoverCompletedExecution(q, outcome, cost)
      PROVE  IInv' /\ Ledger!Next
  BY <1>6, RecoverInv
<1>7. ASSUME NEW q \in Queue, RepeatRecovery(q) PROVE IInv' /\ Ledger!Next
  BY <1>7, RepeatInv
<1>8. ASSUME NEW q \in Queue, NEW k \in Stages, TaskStep(q, k) PROVE IInv' /\ UNCHANGED campaign
  BY <1>8, TaskStepInv
<1>9. ASSUME NEW q \in Queue,
             EvaluatorStale(q) \/ \E k \in Kinds : ReviewVerdict(q, k) \/ ReviewLost(q, k)
      PROVE  IInv' /\ UNCHANGED campaign
  BY <1>9, RouteStepInv
<1>10. CASE DeadlinePasses \/ MandateEnds \/ UNCHANGED vars
  <2>1. route \in [Queue -> Route] /\ overdue \in BOOLEAN /\ mandate \in {"active", "lapsed", "closed"}
    BY DEF IInv, TypeOK
  <2>2. UNCHANGED <<campaign, task, answer, protocol, route>>
    BY <1>10 DEF DeadlinePasses, MandateEnds, vars
  <2>3. overdue' \in BOOLEAN /\ mandate' \in {"active", "lapsed", "closed"}
    BY <1>10, <2>1 DEF DeadlinePasses, MandateEnds, vars
  <2> QED BY <2>1, <2>2, <2>3, OutsideInv
<1> QED BY <1>1, <1>2, <1>3, <1>4, <1>5, <1>6, <1>7, <1>8, <1>9, <1>10 DEF Next

\* A registered campaign has done nothing.
LEMMA InitInv == Init => IInv
<1> SUFFICES ASSUME Init PROVE IInv
  OBVIOUS
<1>1. campaign \in CampaignRow /\ campaign.trials = 0 /\ campaign.done = 0 /\ campaign.failures = 0
  BY CampaignAssumption DEF Init, CampaignRow, Reasons
<1>2. task \in [Queue -> [Stages -> Row]] /\ \A q \in Queue, k \in Stages : task[q][k] = AbsentRow
  BY AbsentIsRow DEF Init
<1>3. route \in [Queue -> Route]
  BY DEF Init, NoRoute, Route
<1>4. answer \in [Queue -> Answers]
  BY DEF Init, Answers
<1>5. \A q \in Queue : RowsFit(task[q], q <= campaign.done)
  BY <1>2, AbsentIsRow, CampaignAssumption DEF RowsFit, Stages
<1>6. \A q \in Queue : task[q]["G"].n <= LastRung /\ task[q]["E"].n <= MaxVariants
  BY <1>5 DEF RowsFit
<1>7. TypeOK
  BY <1>1, <1>2, <1>3, <1>4, <1>6 DEF Init, TypeOK, CampaignRow, Answers
<1> QED BY <1>1, <1>2, <1>5, <1>7 DEF IInv, Dormant

-----------------------------------------------------------------------------

\* The campaign, its tasks and its routes stay well typed: in particular the trials stay
\* within max_total_trials and the ladder within its rungs, whatever fails or is repeated.
THEOREM TypeCorrect == Spec => []TypeOK
<1>1. IInv /\ [Next]_vars => IInv'
  BY NextInv
<1>2. IInv => TypeOK
  BY DEF IInv
<1> QED BY <1>1, <1>2, InitInv, PTL DEF Spec

\* A campaign implements the contract its mandate relies on: activated once, trials only
\* grow and stay within max_total_trials, only an open campaign is cancelled.
THEOREM ImplementsLedger == Spec => KeepsLedger
<1>1. Init => Ledger!Init
  BY DEF Init, Ledger!Init
<1>2. IInv /\ [Next]_vars => IInv' /\ [Ledger!Next]_[status |-> campaign.status, trials |-> campaign.trials]
  BY NextInv
<1> QED BY <1>1, <1>2, InitInv, PTL DEF Spec, KeepsLedger, Ledger!Spec

-----------------------------------------------------------------------------
(* The tables of a campaign beyond their types.                            *)

\* A row: one that does not exist says nothing, only a governed campaign asks the founder,
\* and what a worker holds or has ended has no decision open.
Settled(row, k) ==
  /\ row.status = "absent" => row = AbsentRow
  /\ k \in {"D", "G", "Q"} \/ protocol # "governed" => row.approval = "none"
  /\ row.status \in {"leased", "running", "succeeded", "failed"} => row.approval \in {"none", "closed"}

\* What must stand before stage k of a question exists.
Needs(rows, r, k) ==
  /\ k = "D" => protocol # "native"
  /\ k = "G" => rows["D"].status = "succeeded" /\ rows["D"].note # "card"
  /\ k = "C" => protocol = "governed"
  /\ k = "Q" => /\ rows["D"].status = "succeeded" /\ rows["D"].note = "card"
                /\ protocol = "governed" => rows["C"].status = "succeeded"
  /\ k = "E" => \/ protocol = "native"
                \/ /\ rows["Q"].status = "succeeded" /\ rows["Q"].note = "ready"
                   /\ \A j \in Kinds : r.review[j] = "approve"
Ordered(rows, r) == \A k \in Stages : rows[k].status # "absent" => Needs(rows, r, k)

\* Two approving reviews have completed their route: nobody reviews it again.
Approved(r) == \A k \in Kinds : r.review[k] = "approve"
Sound(tasks, routes) ==
  \A q \in Queue :
    /\ \A k \in Stages : Settled(tasks[q][k], k)
    /\ Ordered(tasks[q], routes[q])
    /\ Approved(routes[q]) => routes[q].status = "completed"

\* The books: answers, trials and failures, and the budget each question was opened with.
Opened(rows) == \E k \in Stages : rows[k].status # "absent"
Spent(tasks, n) == SumTo([i \in Queue |-> tasks[i]["E"].n], n)
Affordable(tasks, answers, q) ==
  /\ Spent(tasks, q - 1) < MaxTrials
  /\ q > MaxFailures => \E i \in (q - MaxFailures)..(q - 1) : answers[i] # "failed"
Booked(c, tasks, answers) ==
  /\ \A q \in Queue : (answers[q] # "none") <=> (q <= c.done)
  /\ \A q \in Queue : q <= c.done => tasks[q]["E"].status \in {"absent", "succeeded"}
  /\ c.trials = Spent(tasks, c.done)
  /\ c.failures < c.done => answers[c.done - c.failures] # "failed"
  /\ \A q \in Queue : Opened(tasks[q]) =>
       /\ q <= c.done + 1 /\ Affordable(tasks, answers, q)
       /\ q = c.done + 1 => c.failures < MaxFailures

\* Where a delegated campaign is parked out of the director's sight, nothing is at work and
\* nothing can be put back to work.
Quiet(rows) == \A k \in Stages : rows[k].status \in {"absent", "succeeded", "cancelled"}
Watched(c, tasks) ==
  (/\ protocol = "delegated" /\ c.status = "needs_attention" /\ c.done < Questions
   /\ c.why \notin AutoRecoverable)
  => IF c.why = "research_mandate_unavailable" THEN mandate # "active" ELSE Quiet(tasks[c.done + 1])

\* A row moves: only one that exists, is not succeeded, and is not cancelled for good.
Moved(old, new) ==
  /\ old.status \notin {"absent", "succeeded"} /\ new.status # "absent"
  /\ old.status = "cancelled" => old.approval # "none"

-----------------------------------------------------------------------------
(* Changes to the tables.                                                  *)

\* A stage that has what it needs may be created or changed, unless it succeeded before.
LEMMA OrderedRow ==
  ASSUME NEW rows \in [Stages -> Row], NEW r, NEW k \in Stages, NEW row,
         Ordered(rows, r), rows[k].status # "succeeded", Needs(rows, r, k)
  PROVE  Ordered([rows EXCEPT ![k] = row], r)
<1> DEFINE new == [rows EXCEPT ![k] = row]
<1>1. \A j \in Stages : j # k => new[j] = rows[j]
  OBVIOUS
<1> HIDE DEF new
<1>2. ASSUME NEW j \in Stages, new[j].status # "absent" PROVE Needs(new, r, j)
  <2>1. Needs(rows, r, j)
    BY <1>1, <1>2 DEF Ordered
  <2>2. CASE k = "D"
    BY <1>1, <2>1, <2>2 DEF Needs, Stages
  <2>3. CASE k = "G"
    BY <1>1, <2>1, <2>3 DEF Needs, Stages
  <2>4. CASE k = "C"
    BY <1>1, <2>1, <2>4 DEF Needs, Stages
  <2>5. CASE k = "Q"
    BY <1>1, <2>1, <2>5 DEF Needs, Stages
  <2>6. CASE k = "E"
    BY <1>1, <2>1, <2>6 DEF Needs, Stages
  <2> QED BY <2>2, <2>3, <2>4, <2>5, <2>6 DEF Stages
<1> QED BY <1>2 DEF Ordered, new

\* Rows that move keep the order of their stages.
LEMMA OrderedMoves ==
  ASSUME NEW rows, NEW new, NEW r, Ordered(rows, r),
         \A k \in Stages : new[k] = rows[k] \/ Moved(rows[k], new[k])
  PROVE  Ordered(new, r)
<1>1. \A k \in Stages : new[k].status # "absent" => rows[k].status # "absent"
  BY DEF Moved
<1>2. \A k \in Stages : rows[k].status = "succeeded" => new[k] = rows[k]
  BY DEF Moved
<1>3. {"D", "C", "Q"} \subseteq Stages
  BY DEF Stages
<1>4. ASSUME NEW k \in Stages, new[k].status # "absent" PROVE Needs(new, r, k)
  <2>1. Needs(rows, r, k)
    BY <1>1, <1>4 DEF Ordered
  <2> QED BY <1>2, <1>3, <2>1 DEF Needs
<1> QED BY <1>4 DEF Ordered

\* The trials spent up to a question do not depend on the questions after it.
LEMMA SpentSame ==
  ASSUME NEW tasks, NEW new, NEW n \in Nat, n <= Questions,
         \A q \in Queue : q <= n => new[q]["E"].n = tasks[q]["E"].n
  PROVE  Spent(new, n) = Spent(tasks, n)
<1> DEFINE f == [i \in Queue |-> tasks[i]["E"].n]
           g == [i \in Queue |-> new[i]["E"].n]
<1>1. \A i \in 1..n : g[i] = f[i]
  BY CampaignAssumption DEF Queue
<1> HIDE DEF f, g
<1>2. SumTo(g, n) = SumTo(f, n)
  BY <1>1, SumSame
<1> QED BY <1>2 DEF Spent, f, g

\* The trials spent up to a question are those before it and its own.
LEMMA SpentUnfolds ==
  ASSUME NEW tasks, NEW n \in Nat, n + 1 \in Queue
  PROVE  Spent(tasks, 0) = 0 /\ Spent(tasks, n + 1) = Spent(tasks, n) + tasks[n + 1]["E"].n
<1> DEFINE f == [i \in Queue |-> tasks[i]["E"].n]
<1>1. f[n + 1] = tasks[n + 1]["E"].n
  OBVIOUS
<1> HIDE DEF f
<1>2. SumTo(f, 0) = 0 /\ SumTo(f, n + 1) = SumTo(f, n) + f[n + 1]
  BY SumUnfolds
<1> QED BY <1>1, <1>2 DEF Spent, f

\* A question is affordable whatever happens to it and to those after it.
LEMMA AffordableSame ==
  ASSUME NEW tasks, NEW new, NEW answers \in [Queue -> Answers], NEW p \in Queue, NEW a, NEW q \in Queue, q <= p,
         \A i \in Queue : i < p => new[i]["E"].n = tasks[i]["E"].n,
         Affordable(tasks, answers, q)
  PROVE  Affordable(new, answers, q) /\ Affordable(new, [answers EXCEPT ![p] = a], q)
<1>1. q - 1 \in Nat /\ q - 1 <= Questions /\ \A i \in Queue : i <= q - 1 => i < p
  BY CampaignAssumption DEF Queue
<1>2. Spent(new, q - 1) = Spent(tasks, q - 1)
  BY <1>1, SpentSame
<1>3. ASSUME q > MaxFailures, NEW i \in (q - MaxFailures)..(q - 1)
      PROVE  [answers EXCEPT ![p] = a][i] = answers[i]
  <2>1. i \in Queue /\ i # p
    BY <1>3, CampaignAssumption DEF Queue
  <2> QED BY <2>1
<1> QED BY <1>2, <1>3 DEF Affordable

\* Rows that move change no book.
LEMMA BookedMoves ==
  ASSUME NEW c \in CampaignRow, NEW tasks, NEW new, NEW answers \in [Queue -> Answers],
         Booked(c, tasks, answers),
         \A q \in Queue, k \in Stages : new[q][k] = tasks[q][k] \/ Moved(tasks[q][k], new[q][k])
  PROVE  Booked(c, new, answers)
<1>1. c.done \in 0..Questions /\ c.trials \in Nat /\ c.failures \in Nat
  BY DEF CampaignRow
<1>2. "E" \in Stages
  BY DEF Stages
<1>3. \A q \in Queue : q <= c.done => new[q]["E"] = tasks[q]["E"]
  BY <1>2 DEF Booked, Moved
<1>4. Spent(new, c.done) = Spent(tasks, c.done)
  BY <1>1, <1>3, SpentSame, CampaignAssumption
<1>5. \A q \in Queue : Opened(new[q]) => Opened(tasks[q])
  BY DEF Opened, Moved
<1>6. ASSUME NEW q \in Queue, Opened(new[q])
      PROVE  /\ q <= c.done + 1 /\ Affordable(new, answers, q)
             /\ q = c.done + 1 => c.failures < MaxFailures
  <2>1. /\ q <= c.done + 1 /\ Affordable(tasks, answers, q)
        /\ q = c.done + 1 => c.failures < MaxFailures
    BY <1>5, <1>6 DEF Booked
  <2>2. \A i \in Queue : i < q => new[i]["E"].n = tasks[i]["E"].n
    BY <1>1, <1>3, <2>1 DEF Queue
  <2>3. q <= q
    BY DEF Queue
  <2> QED BY <2>1, <2>2, <2>3, AffordableSame
<1> QED BY <1>3, <1>4, <1>6 DEF Booked

\* The current question may be worked on while a failure and a trial are left.
LEMMA BookedOpens ==
  ASSUME NEW c \in CampaignRow, NEW tasks, NEW new, NEW answers \in [Queue -> Answers],
         Booked(c, tasks, answers), c.failures <= c.done, c.done < Questions,
         c.failures < MaxFailures, c.trials < MaxTrials,
         \A q \in Queue : q # c.done + 1 => new[q] = tasks[q]
  PROVE  Booked(c, new, answers)
<1>1. c.done \in 0..Questions /\ c.trials \in Nat /\ c.failures \in Nat
  BY DEF CampaignRow
<1> DEFINE p == c.done + 1
<1>2. p \in Queue
  BY <1>1, CampaignAssumption DEF Queue
<1>3. \A q \in Queue : q <= c.done => new[q] = tasks[q]
  BY <1>1 DEF Queue
<1>4. Spent(new, c.done) = Spent(tasks, c.done)
  BY <1>1, <1>3, SpentSame, CampaignAssumption
<1>5. Affordable(new, answers, p)
  <2>1. Spent(new, p - 1) < MaxTrials
    BY <1>1, <1>4 DEF Booked
  <2>2. ASSUME p > MaxFailures PROVE \E i \in (p - MaxFailures)..(p - 1) : answers[i] # "failed"
    <3>1. c.failures < c.done /\ c.done - c.failures \in (p - MaxFailures)..(p - 1)
      BY <1>1, <2>2, CampaignAssumption
    <3> QED BY <3>1 DEF Booked
  <2> QED BY <2>1, <2>2 DEF Affordable
<1>6. ASSUME NEW q \in Queue, Opened(new[q]), q # p
      PROVE  q <= c.done + 1 /\ Affordable(new, answers, q)
  <2>1. q <= c.done + 1 /\ Affordable(tasks, answers, q)
    BY <1>6 DEF Booked
  <2>2. \A i \in Queue : i < q => new[i]["E"].n = tasks[i]["E"].n
    BY <1>1, <1>3, <2>1 DEF Queue
  <2>3. q <= q
    BY DEF Queue
  <2> QED BY <2>1, <2>2, <2>3, AffordableSame
<1>7. p <= c.done + 1
  BY <1>1
<1> QED BY <1>3, <1>4, <1>5, <1>6, <1>7 DEF Booked

\* An attempt is retained: the current question is answered, at the cost of its execution.
LEMMA BookedRecords ==
  ASSUME NEW c \in CampaignRow, NEW tasks \in [Queue -> [Stages -> Row]],
         NEW answers \in [Queue -> Answers], Booked(c, tasks, answers),
         c.failures <= c.done, c.done < Questions, NEW d, NEW outcome \in Answers, outcome # "none",
         tasks[c.done + 1]["E"].status \in {"absent", "succeeded"},
         d.done = c.done + 1, d.trials = c.trials + tasks[c.done + 1]["E"].n,
         d.failures = IF outcome = "failed" THEN c.failures + 1 ELSE 0
  PROVE  Booked(d, tasks, [answers EXCEPT ![c.done + 1] = outcome])
<1>1. c.done \in 0..Questions /\ c.trials \in Nat /\ c.failures \in Nat
  BY DEF CampaignRow
<1> DEFINE p == c.done + 1
           new == [answers EXCEPT ![p] = outcome]
<1>2. p \in Queue
  BY <1>1, CampaignAssumption DEF Queue
<1>3. new[p] = outcome /\ \A q \in Queue : q # p => new[q] = answers[q]
  BY <1>2
<1>4. \A q \in Queue : (new[q] # "none") <=> (q <= d.done)
  <2>1. \A q \in Queue : q # p => (q <= d.done <=> q <= c.done)
    BY <1>1 DEF Queue
  <2>2. p <= d.done
    BY <1>1
  <2> HIDE DEF new, p
  <2> QED BY <1>2, <1>3, <2>1, <2>2 DEF Booked
<1>5. ASSUME NEW q \in Queue, q <= d.done PROVE tasks[q]["E"].status \in {"absent", "succeeded"}
  <2>1. q = p \/ q <= c.done
    BY <1>1, <1>5 DEF Queue
  <2> QED BY <2>1 DEF Booked
<1>6. d.trials = Spent(tasks, d.done)
  BY <1>1, <1>2, SpentUnfolds DEF Booked
<1>7. ASSUME d.failures < d.done PROVE new[d.done - d.failures] # "failed"
  <2>1. CASE outcome = "failed"
    <3>1. d.done - d.failures = c.done - c.failures /\ c.failures < c.done
      BY <1>1, <1>7, <2>1
    <3>2. c.done - c.failures \in Queue /\ c.done - c.failures # p
      BY <1>1, <3>1, CampaignAssumption DEF Queue
    <3> HIDE DEF new, p
    <3> QED BY <1>3, <3>1, <3>2 DEF Booked
  <2>2. CASE outcome # "failed"
    <3>1. d.done - d.failures = p
      BY <1>1, <2>2
    <3> QED BY <1>3, <2>2, <3>1
  <2> QED BY <2>1, <2>2
<1>8. ASSUME NEW q \in Queue, Opened(tasks[q])
      PROVE  q <= d.done + 1 /\ q # d.done + 1 /\ Affordable(tasks, new, q)
  <2>1. q <= p /\ Affordable(tasks, answers, q)
    BY <1>8 DEF Booked
  <2>2. q <= d.done + 1 /\ q # d.done + 1
    BY <1>1, <2>1 DEF Queue
  <2> QED BY <1>2, <2>1, <2>2, AffordableSame
<1> HIDE DEF new
<1>9. Booked(d, tasks, new)
  BY <1>4, <1>5, <1>6, <1>7, <1>8 DEF Booked
<1> QED BY <1>9 DEF new

\* Rows that move keep the tables sound, and a parked campaign that is quiet stays quiet.
LEMMA SoundMoves ==
  ASSUME NEW tasks, NEW new, NEW routes, Sound(tasks, routes),
         \A q \in Queue, k \in Stages :
           new[q][k] = tasks[q][k] \/ (Moved(tasks[q][k], new[q][k]) /\ Settled(new[q][k], k))
  PROVE  Sound(new, routes)
<1>1. ASSUME NEW q \in Queue PROVE Ordered(new[q], routes[q])
  BY OrderedMoves DEF Sound
<1> QED BY <1>1 DEF Sound

LEMMA WatchedMoves ==
  ASSUME NEW c \in CampaignRow, NEW tasks, NEW new, NEW routes, Sound(tasks, routes), Watched(c, tasks),
         \A q \in Queue, k \in Stages : new[q][k] = tasks[q][k] \/ Moved(tasks[q][k], new[q][k])
  PROVE  Watched(c, new)
<1> SUFFICES ASSUME protocol = "delegated", c.status = "needs_attention", c.done < Questions,
                    c.why \notin AutoRecoverable, c.why # "research_mandate_unavailable"
             PROVE  Quiet(new[c.done + 1])
  BY DEF Watched
<1> DEFINE p == c.done + 1
<1>1. p \in Queue
  BY CampaignAssumption DEF CampaignRow, Queue
<1>2. Quiet(tasks[p])
  BY DEF Watched
<1>3. \A k \in Stages : tasks[p][k].approval = "none"
  BY <1>1 DEF Sound, Settled
<1> HIDE DEF p
<1>4. \A k \in Stages : new[p][k] = tasks[p][k]
  BY <1>1, <1>2, <1>3 DEF Quiet, Moved
<1> QED BY <1>2, <1>4 DEF Quiet, p

-----------------------------------------------------------------------------
(* What a request keeps.  The variables are the tables it started from.    *)

\* What gives a question up: a rejecting review, or a ladder that led nowhere.
Rejected(q) ==
  \/ ReviewsReject(route[q])
  \/ /\ task[q]["G"].status = "failed"
     /\ task[q]["G"].note = "plan" \/ (task[q]["G"].note = "review" /\ task[q]["G"].n = LastRung)
Earned(answers) == \A q \in Queue : answers[q] = "invalid" => answer[q] = "invalid" \/ Rejected(q)
Echoed(routes) == \A q \in Queue : ReviewsReject(routes[q]) => ReviewsReject(route[q])

Typed(s) == s \in Views /\ s.campaign.failures <= s.campaign.done
Holds(s) ==
  /\ Sound(s.task, s.route) /\ Booked(s.campaign, s.task, s.answer)
  /\ Watched(s.campaign, s.task) /\ Earned(s.answer) /\ Echoed(s.route)

\* A running campaign whose budget is not used up: the view _ensure_execution_task gets.
Ready(s) ==
  /\ s.campaign.status = "running" /\ Open(s)
  /\ s.campaign.failures < MaxFailures /\ s.campaign.trials < MaxTrials

LEMMA FitsTyped == ASSUME NEW b, NEW s, Fits(s, b) PROVE Typed(s)
BY DEF Fits, Typed

\* The current question of an open campaign.
LEMMA CurrentInQueue ==
  ASSUME NEW s \in Views, Open(s)
  PROVE  /\ Current(s) \in Queue /\ Current(s) = s.campaign.done + 1 /\ s.campaign.done \in Nat
         /\ s.campaign.done < Questions
<1>1. s.campaign.done \in 0..Questions /\ s.campaign.done < Questions
  BY DEF Views, CampaignRow, Open
<1> QED BY <1>1, CampaignAssumption DEF Current, Queue

\* A change of the status and the reason alone.
LEMMA CampaignHolds ==
  ASSUME NEW s \in Views, Holds(s), NEW c, Watched(c, s.task),
         c.done = s.campaign.done, c.failures = s.campaign.failures, c.trials = s.campaign.trials
  PROVE  Holds([s EXCEPT !.campaign = c])
<1> DEFINE t == [s EXCEPT !.campaign = c]
<1>1. t.campaign = c /\ t.task = s.task /\ t.route = s.route /\ t.answer = s.answer
  BY DEF Views
<1>2. Booked(c, s.task, s.answer)
  BY DEF Holds, Booked
<1> HIDE DEF t
<1>3. Holds(t)
  BY <1>1, <1>2 DEF Holds
<1> QED BY <1>3 DEF t

\* Set running: nothing is out of sight.
LEMMA RunningHolds ==
  ASSUME NEW s \in Views, Holds(s)
  PROVE  /\ Holds(Running(s)) /\ Running(s).task = s.task
         /\ Running(s).campaign.done = s.campaign.done
<1> DEFINE c == [s.campaign EXCEPT !.status = "running", !.why = "none", !.blame = "none"]
<1>1. s.campaign \in CampaignRow
  BY DEF Views
<1>2. c.done = s.campaign.done /\ c.failures = s.campaign.failures
      /\ c.trials = s.campaign.trials /\ c.status = "running"
  BY <1>1 DEF CampaignRow
<1>3. Running(s) = [s EXCEPT !.campaign = c]
  BY <1>1 DEF Running, Views, CampaignRow
<1> HIDE DEF c
<1>4. Watched(c, s.task)
  BY <1>2 DEF Watched
<1>5. Running(s).campaign = c /\ Running(s).task = s.task
  BY <1>3 DEF Views
<1> QED BY <1>2, <1>3, <1>4, <1>5, CampaignHolds

\* A reason on a campaign that runs.
LEMMA BecauseHolds ==
  ASSUME NEW s \in Views, Holds(s), NEW why, s.campaign.status = "running"
  PROVE  /\ Holds(Because(s, why)) /\ Because(s, why).task = s.task
         /\ Because(s, why).campaign.done = s.campaign.done
         /\ Because(s, why).route = s.route
         /\ Ready(s) => Ready(Because(s, why))
<1> DEFINE c == [s.campaign EXCEPT !.why = why, !.blame = "none"]
<1>1. s.campaign \in CampaignRow
  BY DEF Views
<1>2. c.done = s.campaign.done /\ c.failures = s.campaign.failures
      /\ c.trials = s.campaign.trials /\ c.status = "running"
  BY <1>1 DEF CampaignRow
<1>3. Because(s, why) = [s EXCEPT !.campaign = c]
  BY <1>1 DEF Because, Views, CampaignRow
<1> HIDE DEF c
<1>4. Watched(c, s.task)
  BY <1>2 DEF Watched
<1>5. /\ Because(s, why).campaign = c /\ Because(s, why).task = s.task
      /\ Because(s, why).route = s.route
  BY <1>3 DEF Views
<1>6. Ready(s) => Ready(Because(s, why))
  BY <1>2, <1>5 DEF Ready, Open
<1> QED BY <1>2, <1>3, <1>4, <1>5, <1>6, CampaignHolds

\* Parked where the director looks again, after the mandate, or with nothing at work.
LEMMA ParkHolds ==
  ASSUME NEW s \in Views, Holds(s), NEW why, NEW blame,
         \/ protocol # "delegated" \/ why \in AutoRecoverable
         \/ why = "research_mandate_unavailable" /\ mandate # "active"
         \/ /\ why # "research_mandate_unavailable"
            /\ Open(s) => Quiet(s.task[Current(s)])
  PROVE  Holds(Park(s, why, blame)) /\ Park(s, why, blame).task = s.task
<1> DEFINE c == [s.campaign EXCEPT !.status = "needs_attention", !.why = why, !.blame = blame]
<1>1. s.campaign \in CampaignRow
  BY DEF Views
<1>2. c.done = s.campaign.done /\ c.failures = s.campaign.failures
      /\ c.trials = s.campaign.trials /\ c.why = why
  BY <1>1 DEF CampaignRow
<1>3. Park(s, why, blame) = [s EXCEPT !.campaign = c]
  BY <1>1 DEF Park, Views, CampaignRow
<1> HIDE DEF c
<1>4. Watched(c, s.task)
  BY <1>2 DEF Watched, Open, Current
<1>5. Park(s, why, blame).task = s.task
  BY <1>3 DEF Views
<1> QED BY <1>2, <1>3, <1>4, <1>5, CampaignHolds

\* The task the pipeline waits for, and a request that raised, are no part of the tables.
LEMMA AtHolds ==
  ASSUME NEW s \in Views, Holds(s), NEW k
  PROVE  Holds(At(s, k)) /\ Holds(Refused(s))
<1>1. /\ At(s, k).campaign = s.campaign /\ At(s, k).task = s.task
      /\ At(s, k).route = s.route /\ At(s, k).answer = s.answer
  BY DEF At, Views
<1>2. /\ Refused(s).campaign = s.campaign /\ Refused(s).task = s.task
      /\ Refused(s).route = s.route /\ Refused(s).answer = s.answer
  BY DEF Refused, Views
<1> QED BY <1>1, <1>2 DEF Holds

\* A stage of the current question that has what it needs.
LEMMA RowHolds ==
  ASSUME NEW s, Typed(s), Holds(s), Ready(s), NEW k \in Stages, NEW row \in Row, Settled(row, k),
         s.task[Current(s)][k].status # "succeeded",
         Needs(s.task[Current(s)], s.route[Current(s)], k)
  PROVE  Holds([s EXCEPT !.task[Current(s)][k] = row]) /\ [s EXCEPT !.task[Current(s)][k] = row] \in Views
<1> DEFINE q == Current(s)
           t == [s EXCEPT !.task[q][k] = row]
           table == [s.task EXCEPT ![q][k] = row]
<1>1. s \in Views /\ s.campaign \in CampaignRow /\ s.task \in [Queue -> [Stages -> Row]]
      /\ s.answer \in [Queue -> Answers]
  BY DEF Typed, Views
<1>2. q \in Queue /\ q = s.campaign.done + 1 /\ s.campaign.done < Questions
  BY <1>1, CurrentInQueue DEF Ready
<1>3. t.campaign = s.campaign /\ t.task = table /\ t.route = s.route /\ t.answer = s.answer
  BY <1>1 DEF Views
<1>11. t \in Views
  <2>1. table \in [Queue -> [Stages -> Row]] /\ t = [s EXCEPT !.task = table]
    BY <1>1, <1>2 DEF Views
  <2> HIDE DEF table, t
  <2> QED BY <1>1, <2>1 DEF Views
<1>4. /\ table[q] = [s.task[q] EXCEPT ![k] = row] /\ s.task[q] \in [Stages -> Row]
      /\ \A p \in Queue : p # q => table[p] = s.task[p]
  BY <1>1, <1>2
<1>5. Ordered(table[q], s.route[q])
  <2>1. Ordered(s.task[q], s.route[q])
    BY <1>2 DEF Holds, Sound
  <2>2. s.task[q][k].status # "succeeded" /\ Needs(s.task[q], s.route[q], k)
    OBVIOUS
  <2>3. Ordered([s.task[q] EXCEPT ![k] = row], s.route[q])
    <3> HIDE DEF q, table, t
    <3> QED BY <1>4, <2>1, <2>2, OrderedRow
  <2> QED BY <1>4, <2>3
<1>6. \A j \in Stages : Settled(table[q][j], j)
  <2>1. \A j \in Stages : Settled(s.task[q][j], j)
    BY <1>2 DEF Holds, Sound
  <2> QED BY <1>4, <2>1
<1> HIDE DEF table, t
<1>7. Sound(table, s.route)
  BY <1>4, <1>5, <1>6 DEF Holds, Sound
<1>8. Booked(s.campaign, table, s.answer)
  BY <1>1, <1>2, <1>4, BookedOpens DEF Holds, Typed, Ready
<1>9. Watched(s.campaign, table)
  BY DEF Watched, Ready
<1>10. Holds(t)
  BY <1>3, <1>7, <1>8, <1>9 DEF Holds
<1> QED BY <1>10, <1>11 DEF t, q

-----------------------------------------------------------------------------
(* Questions are opened and answered.                                      *)

LEMMA CreateStageHolds ==
  ASSUME NEW s, Typed(s), Holds(s), Ready(s), NEW k \in Stages, NEW gated \in BOOLEAN,
         gated => protocol = "governed" /\ k \in {"C", "E"},
         s.task[Current(s)][k].status # "succeeded",
         Needs(s.task[Current(s)], s.route[Current(s)], k)
  PROVE  Holds(CreateStage(s, k, gated))
<1> DEFINE row == [AbsentRow EXCEPT !.status = IF gated THEN "pending_approval" ELSE "queued",
                                    !.approval = IF gated THEN "pending" ELSE "none"]
           t == [s EXCEPT !.task[Current(s)][k] = row]
<1>1. row \in Row /\ Settled(row, k)
  BY DEF AbsentRow, Row, Notes, TaskStatuses, InFlight, Settled
<1>2. CreateStage(s, k, gated) = At(t, k)
  BY DEF CreateStage
<1> HIDE DEF row
<1>3. Holds(t) /\ t \in Views
  BY <1>1, RowHolds
<1> HIDE DEF t
<1> QED BY <1>2, <1>3, AtHolds

LEMMA CreateRungHolds ==
  ASSUME NEW s, Typed(s), Holds(s), Ready(s), NEW rung \in Nat,
         s.task[Current(s)]["G"].status # "succeeded",
         Needs(s.task[Current(s)], s.route[Current(s)], "G")
  PROVE  /\ Holds(CreateRung(s, rung)) /\ CreateRung(s, rung) \in Views
         /\ Stage(CreateRung(s, rung), "G").status = "queued"
<1> DEFINE row == [AbsentRow EXCEPT !.status = "queued", !.n = rung]
           t == [s EXCEPT !.task[Current(s)]["G"] = row]
<1>1. row \in Row /\ Settled(row, "G")
  BY DEF AbsentRow, Row, Notes, TaskStatuses, InFlight, Settled
<1>2. CreateRung(s, rung) = At(t, "G") /\ "G" \in Stages
  BY DEF CreateRung, Stages
<1> HIDE DEF row
<1>3. Holds(t) /\ t \in Views
  BY <1>1, <1>2, RowHolds
<1> HIDE DEF t
<1>4. At(t, "G") \in Views /\ At(t, "G").task = t.task /\ At(t, "G").campaign = t.campaign
  BY <1>2, <1>3 DEF At, Views
<1>5. t.campaign = s.campaign /\ t.task[Current(s)]["G"] = row
  <2>1. s \in Views /\ Current(s) \in Queue /\ s.task \in [Queue -> [Stages -> Row]]
    BY CurrentInQueue DEF Typed, Ready, Views
  <2> QED BY <1>2, <2>1 DEF t, Views
<1>6. row.status = "queued"
  BY DEF row, AbsentRow
<1>7. Stage(At(t, "G"), "G") = row
  BY <1>4, <1>5 DEF Stage, Current, Open, Ready
<1> QED BY <1>2, <1>3, <1>4, <1>6, <1>7, AtHolds

\* A question is opened where it has no task yet.
LEMMA OpenQuestionHolds ==
  ASSUME NEW s, Typed(s), Holds(s), Ready(s),
         protocol = "native" => s.task[Current(s)]["E"].status = "absent",
         protocol # "native" =>
           s.task[Current(s)]["D"].status = "absent" \/ (protocol = "delegated" /\ mandate # "active")
  PROVE  Holds(OpenQuestion(s))
<1>1. {"D", "E"} \subseteq Stages /\ s \in Views /\ s.campaign.status = "running" /\ FALSE \in BOOLEAN
  BY DEF Stages, Typed, Ready
<1>2. CASE protocol = "native"
  <2>1. Needs(s.task[Current(s)], s.route[Current(s)], "E")
    BY <1>2 DEF Needs
  <2> QED BY <1>1, <1>2, <2>1, CreateStageHolds DEF OpenQuestion
<1>3. CASE protocol = "delegated" /\ mandate # "active"
  BY <1>1, <1>3, ParkHolds DEF OpenQuestion
<1>4. CASE protocol # "native" /\ ~(protocol = "delegated" /\ mandate # "active")
  <2> DEFINE t == Because(s, "none")
  <2>1. Holds(t) /\ Ready(t) /\ t.task = s.task /\ t.route = s.route /\ Current(t) = Current(s)
    BY <1>1, BecauseHolds DEF Current
  <2>2. Typed(t)
    BY <1>1 DEF Typed, Views, CampaignRow, Because, Reasons
  <2>3. OpenQuestion(s) = CreateStage(t, "D", FALSE)
    BY <1>4 DEF OpenQuestion
  <2> HIDE DEF t
  <2>4. Needs(t.task[Current(t)], t.route[Current(t)], "D")
    BY <1>4 DEF Needs
  <2> QED BY <1>1, <1>4, <2>1, <2>2, <2>3, <2>4, CreateStageHolds
<1> QED BY <1>2, <1>3, <1>4

\* Where no budget is used up the campaign is ready.
LEMMA BudgetLeft ==
  ASSUME NEW s \in Views, s.campaign.status = "running", BudgetReason(s) = "none"
  PROVE  Ready(s)
<1>1. s.campaign.failures \in Nat /\ s.campaign.trials \in Nat
  BY DEF Views, CampaignRow
<1> QED BY <1>1, CampaignAssumption DEF BudgetReason, Ready

\* The end of a budget: too many failures park the campaign before its next question.
LEMMA CloseHolds ==
  ASSUME NEW s \in Views, Holds(s), s.campaign.status = "running", BudgetReason(s) # "none"
  PROVE  Holds(Close(s, BudgetReason(s)))
<1> DEFINE why == BudgetReason(s)
<1>1. CASE why = "consecutive_failure_limit"
  <2>1. s.campaign.failures >= MaxFailures
    BY <1>1 DEF BudgetReason
  <2>2. s.campaign.failures \in Nat
    BY DEF Views, CampaignRow
  <2>3. Open(s) => Quiet(s.task[Current(s)])
    <3> SUFFICES ASSUME Open(s) PROVE Quiet(s.task[Current(s)])
      OBVIOUS
    <3>1. Current(s) \in Queue /\ Current(s) = s.campaign.done + 1
      BY CurrentInQueue
    <3>2. ~Opened(s.task[Current(s)])
      BY <2>1, <2>2, <3>1, CampaignAssumption DEF Holds, Booked
    <3> QED BY <3>2 DEF Opened, Quiet
  <2> QED BY <1>1, <2>3, ParkHolds DEF Close
<1>2. CASE why # "consecutive_failure_limit"
  <2> DEFINE t == Because(s, why)
             c == [t.campaign EXCEPT !.status = "completed_no_candidate"]
  <2>1. Holds(t)
    BY BecauseHolds
  <2>2. t \in Views
    BY BudgetReasonFits DEF Views, CampaignRow, Because
  <2>3. c.done = t.campaign.done /\ c.failures = t.campaign.failures
        /\ c.trials = t.campaign.trials /\ c.status = "completed_no_candidate"
    BY <2>2 DEF Views, CampaignRow
  <2>4. Close(s, why) = [t EXCEPT !.campaign = c]
    BY <1>2, <2>2 DEF Close, Views
  <2> HIDE DEF t, c, why
  <2>5. Watched(c, t.task)
    BY <2>3 DEF Watched
  <2> QED BY <2>1, <2>2, <2>3, <2>4, <2>5, CampaignHolds DEF why
<1> QED BY <1>1, <1>2

\* What follows an answer: the question after it has no task.
LEMMA AfterAnswerHolds ==
  ASSUME NEW s, Typed(s), Holds(s), Open(s) => ~Opened(s.task[Current(s)])
  PROVE  Holds(AfterAnswer(s))
<1>1. s \in Views /\ {"D", "E"} \subseteq Stages
  BY DEF Typed, Stages
<1>2. CASE s.campaign.status # "running"
  BY <1>2 DEF AfterAnswer
<1>3. CASE s.campaign.status = "running" /\ BudgetReason(s) # "none"
  BY <1>1, <1>3, CloseHolds DEF AfterAnswer
<1>4. CASE s.campaign.status = "running" /\ BudgetReason(s) = "none"
  <2>1. Ready(s)
    BY <1>1, <1>4, BudgetLeft
  <2>2. s.task[Current(s)]["D"].status = "absent" /\ s.task[Current(s)]["E"].status = "absent"
    BY <1>1, <2>1 DEF Ready, Opened
  <2> QED BY <1>4, <2>1, <2>2, OpenQuestionHolds DEF AfterAnswer
<1> QED BY <1>2, <1>3, <1>4

\* record_attempt: the books stay right, and an invalid answer is earned.
LEMMA RecordHolds ==
  ASSUME NEW s, Typed(s), Holds(s), Open(s), NEW outcome \in Reports, outcome # "none",
         s.task[Current(s)]["E"].status \in {"absent", "succeeded"},
         outcome = "invalid" => Rejected(Current(s)),
         NEW cost, cost = s.task[Current(s)]["E"].n
  PROVE  Holds(Record(s, outcome, cost))
<1>0. s \in Views /\ s.campaign \in CampaignRow /\ s.answer \in [Queue -> Answers]
      /\ s.task \in [Queue -> [Stages -> Row]]
  BY DEF Typed, Views
<1> DEFINE q == Current(s)
<1>1. q \in Queue /\ q = s.campaign.done + 1 /\ s.campaign.done \in Nat /\ s.campaign.done < Questions
  BY <1>0, CurrentInQueue
<1>2. s.campaign.trials \in Nat /\ s.campaign.failures \in Nat /\ cost \in Nat
  <2>1. "E" \in Stages
    BY DEF Stages
  <2> QED BY <1>0, <1>1, <2>1 DEF CampaignRow, Row
<1> SUFFICES ASSUME ~Unrecordable(s, outcome, cost)
             PROVE  Holds(Record(s, outcome, cost))
  BY <1>0, AtHolds DEF Record
<1>20. s.campaign.status = "running" /\ outcome \in Answers
      /\ ~(s.campaign.trials + cost > MaxTrials)
  BY DEF Unrecordable, Reports, Answers, Results
<1> DEFINE status == IF outcome = "candidate" THEN "shadow_candidate" ELSE s.campaign.status
           failures == IF outcome = "failed" THEN s.campaign.failures + 1 ELSE 0
           c == [s.campaign EXCEPT !.status = status, !.why = "none", !.blame = "none",
                   !.done = s.campaign.done + 1, !.trials = s.campaign.trials + cost,
                   !.failures = failures]
           a == [s.answer EXCEPT ![q] = outcome]
           t == [s EXCEPT !.campaign = c, !.answer = a]
<1>3. Record(s, outcome, cost) = AfterAnswer(t)
  BY <1>0, RecordWrites DEF RecordedRow, RecordedAnswer
<1>4. status \in {"running", "shadow_candidate"} /\ failures \in 0..(s.campaign.done + 1)
  BY <1>1, <1>2, <1>20 DEF Typed
<1>5. /\ c \in CampaignRow
      /\ c.status = status /\ c.failures = failures /\ c.done = s.campaign.done + 1
      /\ c.trials = s.campaign.trials + cost
  <2>1. s.campaign.done + 1 \in 0..Questions /\ failures \in 0..Questions
        /\ s.campaign.trials + cost \in 0..MaxTrials
    BY <1>1, <1>2, <1>4, <1>20, CampaignAssumption
  <2> HIDE DEF status, failures
  <2> QED BY <1>0, <1>4, <2>1 DEF CampaignRow, Reasons, Final
<1>6. a \in [Queue -> Answers] /\ a[q] = outcome /\ \A p \in Queue : p # q => a[p] = s.answer[p]
  BY <1>0, <1>1, <1>20
<1>7. Booked(c, s.task, a)
  <2>1. Booked(c, s.task, [s.answer EXCEPT ![s.campaign.done + 1] = outcome])
    <3> HIDE DEF c, status
    <3> QED BY <1>0, <1>1, <1>5, <1>20, BookedRecords DEF Holds, Typed
  <2> QED BY <1>1, <2>1
<1>8. Earned(a)
  <2> HIDE DEF a
  <2> QED BY <1>1, <1>6 DEF Holds, Earned
<1> HIDE DEF c, a, status, failures
<1>9. t \in Views /\ t.campaign = c /\ t.answer = a /\ t.task = s.task /\ t.route = s.route
  BY <1>0, <1>5, <1>6 DEF Views
<1>10. Watched(c, s.task)
  BY <1>4, <1>5 DEF Watched
<1>11. Typed(t)
  <2>1. c.failures <= c.done
    BY <1>1, <1>4, <1>5
  <2> QED BY <1>9, <2>1 DEF Typed
<1> HIDE DEF t
<1>12. Holds(t)
  BY <1>7, <1>8, <1>9, <1>10 DEF Holds
<1>13. Open(t) => ~Opened(t.task[Current(t)])
  <2> SUFFICES ASSUME Open(t) PROVE ~Opened(t.task[Current(t)])
    OBVIOUS
  <2>1. Current(t) \in Queue /\ Current(t) = s.campaign.done + 2
    BY <1>1, <1>5, <1>9, CurrentInQueue
  <2>2. ~(Current(t) <= s.campaign.done + 1)
    BY <1>1, <2>1
  <2> QED BY <1>9, <2>1, <2>2 DEF Holds, Booked
<1> QED BY <1>3, <1>11, <1>12, <1>13, AfterAnswerHolds

-----------------------------------------------------------------------------
(* The pipeline keeps its gates.                                           *)

\* Behind a stage that ended without a successor nothing is at work.
LEMMA QuietAfter ==
  ASSUME NEW rows, NEW r, Ordered(rows, r), protocol = "delegated", NEW k \in Stages,
         \/ rows[k].status = "cancelled"
         \/ k = "G" /\ rows[k].status = "succeeded"
         \/ k = "Q" /\ rows[k].status = "succeeded" /\ rows[k].note # "ready"
  PROVE  Quiet(rows)
<1>1. \A j \in Stages : rows[j].status # "absent" => Needs(rows, r, j)
  BY DEF Ordered
<1>2. rows["C"].status = "absent"
  BY <1>1 DEF Needs, Stages
<1>3. rows["G"].status # "absent" => rows["D"].status = "succeeded" /\ rows["D"].note # "card"
  BY <1>1 DEF Needs, Stages
<1>4. rows["Q"].status # "absent" => rows["D"].status = "succeeded" /\ rows["D"].note = "card"
  BY <1>1 DEF Needs, Stages
<1>5. rows["E"].status # "absent" => rows["Q"].status = "succeeded" /\ rows["Q"].note = "ready"
  BY <1>1 DEF Needs, Stages
<1>6. k \in {"D", "G", "C", "Q", "E"}
  BY DEF Stages
<1> QED BY <1>2, <1>3, <1>4, <1>5, <1>6 DEF Quiet, Stages

\* The route the director continues with: one that is approved or rejected is kept.
LEMMA RoutedSound ==
  ASSUME NEW r, NEW staffed, Approved(r) => r.status = "completed"
  PROVE  LET new == Routed(r, staffed)
         IN  /\ Approved(r) => new = r
             /\ Approved(new) => new = r
             /\ ReviewsReject(new) => new = r
BY DEF Routed, NewRoute, NoRoute, Approved, ReviewsReject, Superseded, Kinds

\* Independent review opens the execution, waits, or gives the question up.
LEMMA AdvanceReviewHolds ==
  ASSUME NEW b \in Nat, NEW s, Fits(s, b), Holds(s), Ready(s), protocol # "native",
         s.task[Current(s)]["Q"].status = "succeeded", s.task[Current(s)]["Q"].note = "ready"
  PROVE  Holds(AdvanceReview(s))
<1> DEFINE q == Current(s)
           t == [s EXCEPT !.route[q] = Routed(@, s.staffed)]
           routes == [s.route EXCEPT ![q] = Routed(@, s.staffed)]
<1>1. s \in Views /\ s.route \in [Queue -> Route] /\ s.staffed \in BOOLEAN /\ Typed(s) /\ Open(s)
  BY FitsTyped DEF Fits, Views, Ready
<1>2. q \in Queue
  BY <1>1, CurrentInQueue
<1>3. routes \in [Queue -> Route]
  BY <1>1, <1>2, RoutedFits
<1>4. t = [s EXCEPT !.route = routes]
  BY <1>1 DEF Views
<1>5. /\ t \in Views /\ t.campaign = s.campaign /\ t.task = s.task
      /\ t.route = routes /\ t.answer = s.answer
  <2> HIDE DEF routes, q
  <2> QED BY <1>1, <1>3, <1>4 DEF Views
<1>6. Fits(t, b) /\ Typed(t) /\ Ready(t) /\ Open(t) /\ Current(t) = q
  <2> HIDE DEF t
  <2> QED BY <1>1, <1>5 DEF Fits, Typed, Ready, Open, Current
<1>7. /\ routes[q] = Routed(s.route[q], s.staffed)
      /\ \A p \in Queue : p # q => routes[p] = s.route[p]
  BY <1>1, <1>2
<1>8. Approved(s.route[q]) => s.route[q].status = "completed"
  BY <1>2 DEF Holds, Sound
<1>9. /\ Approved(s.route[q]) => routes[q] = s.route[q]
      /\ Approved(routes[q]) => routes[q] = s.route[q]
      /\ ReviewsReject(routes[q]) => routes[q] = s.route[q]
  BY <1>7, <1>8, RoutedSound
<1> HIDE DEF routes, q
<1>10. Ordered(s.task[q], routes[q])
  <2>1. Ordered(s.task[q], s.route[q])
    BY <1>2 DEF Holds, Sound
  <2> QED BY <1>9, <2>1 DEF Ordered, Needs, Approved
<1>11. Sound(s.task, routes)
  BY <1>2, <1>7, <1>8, <1>9, <1>10 DEF Holds, Sound
<1>12. Echoed(routes)
  BY <1>2, <1>7, <1>9 DEF Holds, Echoed
<1>13. AdvanceReview(s) =
         IF ReviewsReject(t.route[q]) THEN RetainReviewRejection(t)
         ELSE IF ~ReviewsApprove(t.route[q]) THEN At(Because(t, "independent_strategy_review_pending"), "Q")
         ELSE IF t.task[q]["E"].status = "absent" THEN CreateStage(t, "E", protocol = "governed")
         ELSE At(t, "E")
  BY DEF AdvanceReview, q
<1> HIDE DEF t
<1>14. Holds(t)
  BY <1>5, <1>11, <1>12 DEF Holds
<1>15. "E" \in Stages /\ "invalid" \in Reports /\ "independent_strategy_review_pending" \in Reasons
       /\ t.campaign.status = "running" /\ (protocol = "governed") \in BOOLEAN
  BY <1>6 DEF Stages, Reports, Answers, Reasons, Ready
<1>16. ASSUME ReviewsReject(routes[q]) PROVE Holds(RetainReviewRejection(t))
  <2>1. ~Approved(routes[q])
    BY <1>16 DEF ReviewsReject, Approved
  <2>2. t.task[q]["E"].status = "absent"
    BY <1>5, <1>10, <1>15, <2>1 DEF Ordered, Needs, Approved
  <2>3. t.task[q]["E"] = AbsentRow
    BY <1>2, <1>14, <1>15, <2>2 DEF Holds, Sound, Settled
  <2>4. Rejected(q)
    BY <1>2, <1>12, <1>16 DEF Echoed, Rejected
  <2>5. t.task[Current(t)]["E"].n = 0
    BY <1>6, <2>3 DEF AbsentRow
  <2>6. Holds(Record(t, "invalid", 0))
    BY <1>6, <1>14, <1>15, <2>2, <2>4, <2>5, RecordHolds
  <2>7. Record(t, "invalid", 0) \in Views
    BY <1>6, <1>15, RecordKeeps DEF Fits
  <2> QED BY <2>6, <2>7, AtHolds DEF RetainReviewRejection
<1>17. Holds(At(Because(t, "independent_strategy_review_pending"), "Q"))
  <2>1. Because(t, "independent_strategy_review_pending") \in Views
    BY <1>6, <1>15, BecauseFits DEF Fits
  <2> QED BY <1>5, <1>14, <1>15, <2>1, BecauseHolds, AtHolds
<1>18. ASSUME ReviewsApprove(routes[q]), t.task[q]["E"].status = "absent"
       PROVE  Holds(CreateStage(t, "E", protocol = "governed"))
  <2>1. Needs(t.task[q], t.route[q], "E")
    BY <1>5, <1>18 DEF Needs, ReviewsApprove, q
  <2> QED BY <1>6, <1>14, <1>15, <1>18, <2>1, CreateStageHolds
<1>19. Holds(At(t, "E"))
  BY <1>5, <1>14, AtHolds
<1> QED BY <1>5, <1>13, <1>16, <1>17, <1>18, <1>19

\* The ladder: a patch parks the campaign with nothing else at work.
LEMMA AdvanceEngineeringHolds ==
  ASSUME NEW b \in Nat, NEW s, Fits(s, b), Holds(s), Ready(s), protocol # "native",
         s.task[Current(s)]["D"].status = "succeeded", s.task[Current(s)]["D"].note # "card"
  PROVE  Holds(AdvanceEngineering(s))
<1> DEFINE g == Stage(s, "G")
           t == IF g.status = "absent" THEN CreateRung(s, 1)
                ELSE IF NextRung(g) THEN CreateRung(s, g.n + 1)
                ELSE At(s, "G")
<1>1. "G" \in Stages /\ s \in Views /\ Typed(s) /\ Open(s) /\ 1 \in Nat
  BY FitsTyped DEF Stages, Fits, Ready
<1>2. g.n \in Nat /\ g = s.task[Current(s)]["G"]
  BY <1>1, StageFits DEF Row, Stage
<1>3. Needs(s.task[Current(s)], s.route[Current(s)], "G")
  BY DEF Needs
<1>4. AdvanceEngineering(s) =
        LET status == Stage(t, "G").status
        IN  CASE status \in {"queued", "running"} -> t
              [] status = "succeeded" -> Park(t, "strategy_engineering_completed", "G")
              [] OTHER -> Park(t, "strategy_engineering_failed", "G")
  BY DEF AdvanceEngineering
<1>5. CASE g.status = "absent" \/ NextRung(g)
  <2>1. PICK rung \in Nat : t = CreateRung(s, rung)
    BY <1>1, <1>2, <1>5
  <2>2. s.task[Current(s)]["G"].status # "succeeded"
    BY <1>2, <1>5 DEF NextRung
  <2>3. Holds(t) /\ Stage(t, "G").status = "queued"
    BY <1>1, <1>3, <2>1, <2>2, CreateRungHolds
  <2> HIDE DEF t
  <2> QED BY <1>4, <2>3
<1>6. CASE g.status # "absent" /\ ~NextRung(g)
  <2>1. t = At(s, "G")
    BY <1>6
  <2>2. Holds(t) /\ t \in Views /\ Open(t) /\ Current(t) = Current(s) /\ t.task = s.task
    <3>1. t \in Views /\ t.campaign = s.campaign /\ t.task = s.task
      BY <1>1, <2>1 DEF At, Views
    <3> HIDE DEF t
    <3> QED BY <1>1, <2>1, <3>1, AtHolds DEF Open, Current
  <2>3. Stage(t, "G") = g
    BY <1>2, <2>2 DEF Stage
  <2> HIDE DEF t
  <2>4. Holds(Park(t, "strategy_engineering_failed", "G"))
    BY <2>2, ParkHolds DEF AutoRecoverable
  <2>5. ASSUME g.status = "succeeded" PROVE Holds(Park(t, "strategy_engineering_completed", "G"))
    <3>1. Ordered(s.task[Current(s)], s.route[Current(s)])
      BY <1>1, CurrentInQueue DEF Holds, Sound
    <3>2. protocol = "delegated" => Quiet(s.task[Current(s)])
      BY <1>1, <1>2, <2>5, <3>1, QuietAfter
    <3> QED BY <2>2, <3>2, ParkHolds
  <2> QED BY <1>4, <2>2, <2>3, <2>4, <2>5
<1> QED BY <1>5, <1>6

\* From the card to the review.
LEMMA AdvanceQualificationHolds ==
  ASSUME NEW b \in Nat, NEW s, Fits(s, b), Holds(s), Ready(s), protocol # "native",
         s.task[Current(s)]["D"].status = "succeeded", s.task[Current(s)]["D"].note = "card",
         protocol = "governed" => s.task[Current(s)]["C"].status = "succeeded"
  PROVE  Holds(AdvanceQualification(s))
<1> DEFINE row == Stage(s, "Q")
<1>1. /\ "Q" \in Stages /\ s \in Views /\ Typed(s) /\ Open(s) /\ s.campaign.status = "running"
      /\ FALSE \in BOOLEAN
  BY FitsTyped DEF Stages, Fits, Ready
<1>2. row = s.task[Current(s)]["Q"] /\ row \in Row
  BY <1>1, StageFits DEF Stage
<1>r. {"strategy_not_qualified", "qualification_differs_from_approved_card",
       "qualification_dataset_binding_mismatch", "strategy_producer_identity_missing"} \subseteq Reasons
  BY DEF Reasons
<1>3. CASE row.status = "absent"
  <2>1. Needs(s.task[Current(s)], s.route[Current(s)], "Q")
    BY DEF Needs
  <2>2. Holds(CreateStage(s, "Q", FALSE))
    BY <1>1, <1>2, <1>3, <2>1, CreateStageHolds
  <2> QED BY <1>3, <2>2 DEF AdvanceQualification
<1>4. CASE row.status \notin {"absent", "succeeded"}
  BY <1>1, <1>4, AtHolds DEF AdvanceQualification
<1>5. CASE row.status = "succeeded"
  <2>1. row.note \in {"ready", "unready", "differs", "unbound", "unattributed"}
    BY <1>1, <1>5, StageFits DEF Results
  <2>2. CASE row.note = "ready"
    <3>1. AdvanceQualification(s) = AdvanceReview(s)
      <4> HIDE DEF row
      <4> QED BY <1>5, <2>2 DEF AdvanceQualification, row
    <3> QED BY <1>2, <1>5, <2>2, <3>1, AdvanceReviewHolds
  <2>3. CASE row.note # "ready"
    <3>1. \/ AdvanceQualification(s) = At(Park(s, "strategy_not_qualified", "none"), "Q")
          \/ AdvanceQualification(s) = At(Park(s, "qualification_differs_from_approved_card", "none"), "Q")
          \/ AdvanceQualification(s) = At(Park(s, "qualification_dataset_binding_mismatch", "none"), "Q")
          \/ AdvanceQualification(s) = At(Because(s, "strategy_producer_identity_missing"), "Q")
      <4> HIDE DEF row
      <4> QED BY <1>5, <2>1, <2>3 DEF AdvanceQualification, row
    <3>2. \A why \in Reasons : Park(s, why, "none") \in Views /\ Because(s, why) \in Views
      BY ParkFits, BecauseFits DEF Fits
    <3>3. protocol = "delegated" => Quiet(s.task[Current(s)])
      <4>1. Ordered(s.task[Current(s)], s.route[Current(s)])
        BY <1>1, CurrentInQueue DEF Holds, Sound
      <4> QED BY <1>1, <1>2, <1>5, <2>3, <4>1, QuietAfter
    <3>4. ASSUME NEW why \in Reasons, why # "research_mandate_unavailable"
          PROVE  Holds(At(Park(s, why, "none"), "Q")) /\ Holds(At(Because(s, why), "Q"))
      <4>1. Holds(Park(s, why, "none"))
        BY <1>1, <3>3, <3>4, ParkHolds
      <4>2. Holds(Because(s, why))
        BY <1>1, BecauseHolds
      <4> QED BY <3>2, <4>1, <4>2, AtHolds
    <3> QED BY <1>r, <3>1, <3>4
  <2> QED BY <2>2, <2>3
<1> QED BY <1>3, <1>4, <1>5

\* The founder's confirmation closes its approval.
LEMMA AdvanceConfirmationHolds ==
  ASSUME NEW b \in Nat, NEW s, Fits(s, b), Holds(s), Ready(s), protocol = "governed",
         s.task[Current(s)]["D"].status = "succeeded", s.task[Current(s)]["D"].note = "card"
  PROVE  Holds(AdvanceConfirmation(s))
<1> DEFINE row == Stage(s, "C")
           q == Current(s)
           new == [s.task[q]["C"] EXCEPT !.status = "succeeded", !.approval = "closed"]
           t == [s EXCEPT !.task[q]["C"] = new]
           confirmed == [s EXCEPT !.task[q]["C"].status = "succeeded",
                                  !.task[q]["C"].approval = "closed"]
<1>1. /\ {"C", "D"} \subseteq Stages /\ s \in Views /\ Typed(s) /\ Open(s)
      /\ s.task \in [Queue -> [Stages -> Row]] /\ TRUE \in BOOLEAN
  BY FitsTyped DEF Stages, Fits, Ready, Views
<1>2. q \in Queue /\ row = s.task[q]["C"] /\ row \in Row
  BY <1>1, StageFits, CurrentInQueue DEF Stage
<1>3. Needs(s.task[q], s.route[q], "C")
  BY DEF Needs
<1>4. CASE row.status = "absent"
  <2>1. Holds(CreateStage(s, "C", TRUE))
    BY <1>1, <1>2, <1>3, <1>4, CreateStageHolds
  <2> QED BY <1>4, <2>1 DEF AdvanceConfirmation
<1>5. CASE row.status = "succeeded"
  <2>1. AdvanceConfirmation(s) = AdvanceQualification(s)
    BY <1>5 DEF AdvanceConfirmation
  <2>2. s.task[Current(s)]["C"].status = "succeeded" /\ protocol # "native"
    BY <1>2, <1>5
  <2> QED BY <2>1, <2>2, AdvanceQualificationHolds
<1>6. CASE row.status \notin {"absent", "succeeded"}
  <2>1. new \in Row /\ Settled(new, "C") /\ new.status = "succeeded"
    BY <1>2 DEF Row, TaskStatuses, Ended, Settled
  <2>2. confirmed = t
    <3> HIDE DEF q
    <3>1. [s EXCEPT !.task[q]["C"].status = "succeeded", !.task[q]["C"].approval = "closed"]
            = [s EXCEPT !.task[q]["C"] =
                 [s.task[q]["C"] EXCEPT !.status = "succeeded", !.approval = "closed"]]
      BY <1>1, <1>2 DEF Views
    <3> QED BY <3>1
  <2>3. AdvanceConfirmation(s) \in {AdvanceQualification(confirmed), Refused(s), At(s, "C")}
    BY <1>6 DEF AdvanceConfirmation
  <2> HIDE DEF new
  <2>4. /\ Fits(t, b) /\ t.campaign = s.campaign /\ t.task[q]["C"] = new
        /\ \A j \in Stages \ {"C"} : t.task[q][j] = s.task[q][j]
    BY <1>1, <2>1, RowFits
  <2>5. Holds(t)
    BY <1>1, <1>2, <1>3, <1>6, <2>1, RowHolds
  <2> HIDE DEF t
  <2>6. Ready(t) /\ Current(t) = q
    BY <2>4 DEF Ready, Open, Current
  <2>7. /\ t.task[Current(t)]["D"] = s.task[q]["D"] /\ t.task[Current(t)]["C"].status = "succeeded"
        /\ protocol # "native"
    BY <1>1, <2>1, <2>4, <2>6
  <2>8. Holds(AdvanceQualification(t))
    BY <2>4, <2>5, <2>6, <2>7, AdvanceQualificationHolds
  <2>9. Holds(Refused(s)) /\ Holds(At(s, "C"))
    BY <1>1, AtHolds
  <2> HIDE DEF confirmed
  <2> QED BY <2>2, <2>3, <2>8, <2>9
<1> QED BY <1>4, <1>5, <1>6

\* _ensure_execution_task.
LEMMA AdvanceHolds ==
  ASSUME NEW b \in Nat, NEW s, Fits(s, b), Holds(s), Ready(s)
  PROVE  Holds(Advance(s))
<1> DEFINE t == Because(s, "none")
<1>1. /\ {"D", "E"} \subseteq Stages /\ "none" \in Reasons /\ s \in Views /\ Typed(s) /\ Open(s)
      /\ s.campaign.status = "running"
  BY FitsTyped DEF Stages, Reasons, Fits, Ready
<1>2. Fits(t, b) /\ Holds(t) /\ Ready(t) /\ Typed(t) /\ t \in Views /\ Open(t)
  <2>1. Fits(t, b)
    BY <1>1, BecauseFits
  <2>2. Holds(t) /\ Ready(t)
    BY <1>1, BecauseHolds
  <2> QED BY <2>1, <2>2, FitsTyped DEF Fits, Ready
<1>3. CASE protocol = "native"
  <2>1. Stage(s, "E") = s.task[Current(s)]["E"]
    BY <1>1 DEF Stage
  <2> QED BY <1>1, <1>3, <2>1, OpenQuestionHolds, AtHolds DEF Advance
<1>4. CASE protocol # "native"
  <2> DEFINE draft == Stage(t, "D")
  <2>1. Advance(s) =
          IF draft.status = "absent" \/ (protocol = "delegated" /\ mandate # "active") THEN OpenQuestion(t)
          ELSE IF draft.status # "succeeded" THEN At(t, "D")
          ELSE IF draft.note # "card" THEN AdvanceEngineering(t)
          ELSE IF protocol = "governed" THEN AdvanceConfirmation(t)
          ELSE AdvanceQualification(t)
    BY <1>4 DEF Advance, AdvancePipeline
  <2>2. draft = t.task[Current(t)]["D"]
    BY <1>2 DEF Stage
  <2> HIDE DEF t, draft
  <2>3. draft.status = "absent" \/ (protocol = "delegated" /\ mandate # "active") => Holds(OpenQuestion(t))
    BY <1>2, <1>4, <2>2, OpenQuestionHolds
  <2>4. Holds(At(t, "D"))
    BY <1>2, AtHolds
  <2>5. ASSUME draft.status = "succeeded", draft.note # "card" PROVE Holds(AdvanceEngineering(t))
    BY <1>2, <1>4, <2>2, <2>5, AdvanceEngineeringHolds
  <2>6. ASSUME draft.status = "succeeded", draft.note = "card", protocol = "governed"
        PROVE  Holds(AdvanceConfirmation(t))
    BY <1>2, <2>2, <2>6, AdvanceConfirmationHolds
  <2>7. ASSUME draft.status = "succeeded", draft.note = "card", protocol # "governed"
        PROVE  Holds(AdvanceQualification(t))
    BY <1>2, <1>4, <2>2, <2>7, AdvanceQualificationHolds
  <2> QED BY <2>1, <2>3, <2>4, <2>5, <2>6, <2>7
<1> QED BY <1>3, <1>4

\* The end of reconcile_campaign: a cancelled stage parks a campaign that has nothing at work.
LEMMA ParkOnFailureHolds ==
  ASSUME NEW b \in Nat, NEW s, Fits(s, b), Holds(s)
  PROVE  Holds(ParkOnFailure(s))
<1> DEFINE status == IF s.at = "none" THEN "none" ELSE Stage(s, s.at).status
<1>1. s.at \in Stages \cup {"none"} /\ s \in Views
  BY DEF Fits, Views
<1>2. CASE status = "failed"
  <2>1. protocol # "delegated" => Holds(Park(s, "execution_task_failed", "E"))
    BY <1>1, ParkHolds
  <2>2. Holds(Park(s, "governed_pipeline_task_failed", s.at))
    BY <1>1, ParkHolds DEF AutoRecoverable
  <2>3. ParkOnFailure(s) = IF protocol = "native" THEN Park(s, "execution_task_failed", "E")
                           ELSE Park(s, "governed_pipeline_task_failed", s.at)
    BY <1>2 DEF ParkOnFailure
  <2> QED BY <2>1, <2>2, <2>3
<1>3. CASE status = "cancelled"
  <2>1. s.at \in Stages /\ Stage(s, s.at).status = "cancelled"
    BY <1>1, <1>3
  <2>2. Open(s) /\ Stage(s, s.at) = s.task[Current(s)][s.at]
    BY <2>1, StageFits
  <2>3. protocol = "delegated" => Quiet(s.task[Current(s)])
    <3>1. Ordered(s.task[Current(s)], s.route[Current(s)])
      BY <1>1, <2>2, CurrentInQueue DEF Holds, Sound
    <3> QED BY <2>1, <2>2, <3>1, QuietAfter
  <2>4. \A why, blame : why # "research_mandate_unavailable" => Holds(Park(s, why, blame))
    BY <1>1, <2>3, ParkHolds
  <2>5. ParkOnFailure(s) = IF protocol = "native" THEN Park(s, "execution_task_cancelled", "E")
                           ELSE Park(s, "governed_pipeline_task_cancelled", s.at)
    BY <1>3 DEF ParkOnFailure
  <2> QED BY <2>4, <2>5
<1>4. CASE status \notin {"failed", "cancelled"}
  BY <1>4 DEF ParkOnFailure
<1> QED BY <1>2, <1>3, <1>4

-----------------------------------------------------------------------------
(* reconcile_campaign keeps the books and the gates.                       *)

\* What a running campaign does next; an execution is consumed at the cost it reported.
LEMMA ProceedHolds ==
  ASSUME NEW b \in Nat, NEW s, Fits(s, b), Holds(s)
  PROVE  Holds(Proceed(s))
<1>1. "E" \in Stages /\ s \in Views /\ Typed(s)
  BY FitsTyped DEF Stages, Fits
<1>2. ASSUME Stage(s, "E").status = "succeeded" PROVE Holds(ConsumeExecution(s))
  <2>1. Open(s) /\ Stage(s, "E") = s.task[Current(s)]["E"] /\ Stage(s, "E").note \in Results["E"]
    BY <1>1, <1>2, StageFits
  <2>2. Stage(s, "E").note \in Reports /\ Stage(s, "E").note \notin {"none", "invalid"}
    BY <2>1 DEF Reports, Results, Outcomes
  <2> QED BY <1>1, <1>2, <2>1, <2>2, RecordHolds DEF ConsumeExecution
<1>3. ASSUME s.campaign.status = "running", BudgetReason(s) # "none"
      PROVE  Holds(Close(s, BudgetReason(s)))
  BY <1>1, <1>3, CloseHolds
<1>4. ASSUME s.campaign.status = "running", BudgetReason(s) = "none"
      PROVE  Holds(ParkOnFailure(Advance(s)))
  <2>1. Ready(s) /\ Open(s)
    BY <1>1, <1>4, BudgetLeft DEF Ready
  <2>2. Fits(Advance(s), b) /\ Holds(Advance(s))
    BY <2>1, AdvanceFits, AdvanceHolds
  <2> QED BY <2>2, ParkOnFailureHolds
<1> QED BY <1>2, <1>3, <1>4 DEF Proceed

\* A question whose ladder failed has no execution: it is given up at no cost.
LEMMA GivenUp ==
  ASSUME NEW b \in Nat, NEW s, Fits(s, b), Holds(s), s.task = task,
         Stage(s, "G").status = "failed",
         Stage(s, "G").note = "plan" \/ (Stage(s, "G").note = "review" /\ Stage(s, "G").n = LastRung)
  PROVE  Holds(Record(Running(s), "invalid", 0))
<1> DEFINE q == Current(s)
           t == Running(s)
<1>1. {"D", "G", "Q", "E"} \subseteq Stages /\ s \in Views /\ "invalid" \in Reports
  BY DEF Stages, Fits, Reports, Answers
<1>2. Open(s) /\ Stage(s, "G") = s.task[q]["G"]
  BY <1>1, StageFits
<1>3. q \in Queue
  BY <1>1, <1>2, CurrentInQueue
<1>4. Holds(t) /\ t.task = s.task /\ Current(t) = q /\ Typed(t) /\ Open(t)
  <2>1. Holds(t) /\ t.task = s.task /\ t.campaign.done = s.campaign.done
    BY <1>1, RunningHolds
  <2>2. Typed(t)
    BY RunningFits, FitsTyped
  <2> HIDE DEF t
  <2> QED BY <1>2, <2>1, <2>2 DEF Current, Open
<1> HIDE DEF t, q
<1>5. s.task[q]["E"] = AbsentRow
  <2>1. Ordered(s.task[q], s.route[q]) /\ Settled(s.task[q]["E"], "E")
    BY <1>1, <1>3 DEF Holds, Sound
  <2>2. s.task[q]["D"].status = "succeeded" /\ s.task[q]["D"].note # "card"
    BY <1>1, <1>2, <2>1 DEF Ordered, Needs
  <2>3. protocol # "native" /\ s.task[q]["Q"].status = "absent"
    BY <1>1, <2>1, <2>2 DEF Ordered, Needs
  <2>4. s.task[q]["E"].status = "absent"
    BY <1>1, <2>1, <2>3 DEF Ordered, Needs
  <2> QED BY <2>1, <2>4 DEF Settled
<1>6. Rejected(q)
  BY <1>2 DEF Rejected
<1> QED BY <1>1, <1>4, <1>5, <1>6, RecordHolds DEF AbsentRow, t

\* A pass over the campaign, from the tables it started with.
LEMMA ReconciledHolds ==
  ASSUME NEW b \in Nat, NEW s, Fits(s, b), Holds(s), s.task = task
  PROVE  Holds(Reconciled(s))
<1>1. "G" \in Stages /\ s \in Views
  BY DEF Stages, Fits
<1>2. Holds(Running(s))
  BY <1>1, RunningHolds
<1>3. InvalidPlan(s) => Holds(RetainInvalidRepresentation(s))
  BY GivenUp DEF InvalidPlan, RetainInvalidRepresentation
<1> DEFINE t == ReopenExecution(s)
           u == RecoverEngineering(t)
<1>4. Fits(t, b) /\ Holds(t) /\ t.task = task
  BY <1>1, <1>2, RunningFits, RunningHolds DEF ReopenExecution
<1> HIDE DEF t
<1>5. Fits(u, b) /\ Holds(u)
  <2>1. Stage(t, "G").status = "failed" => Open(t)
    BY <1>1, <1>4, StageFits
  <2>2. Fits(u, b)
    BY <1>4, <2>1, RetainFits, RunningFits DEF RecoverEngineering
  <2>3. t \in Views
    BY <1>4 DEF Fits
  <2>4. Holds(Running(t))
    BY <1>4, <2>3, RunningHolds
  <2>5. ASSUME Stage(t, "G").status = "failed", Stage(t, "G").note = "review", Stage(t, "G").n = LastRung
        PROVE  Holds(RetainExhaustedEngineering(t))
    BY <1>4, <2>5, GivenUp DEF RetainExhaustedEngineering
  <2> QED BY <1>4, <2>2, <2>4, <2>5 DEF RecoverEngineering
<1> HIDE DEF u
<1>6. Holds(Proceed(u))
  BY <1>5, ProceedHolds
<1> QED BY <1>2, <1>3, <1>6 DEF Reconciled, t, u

-----------------------------------------------------------------------------
(* The steps.                                                              *)

\* The invariant behind the books, the gates and the parks.
FullInv ==
  /\ IInv /\ Sound(task, route) /\ Booked(campaign, task, answer) /\ Watched(campaign, task)

EarnedStep ==
  \A q \in Queue : (answer'[q] = "invalid" /\ answer[q] # "invalid") => Rejected(q)

\* The view a request starts from.
LEMMA ViewHolds ==
  ASSUME FullInv, NEW staffed \in BOOLEAN
  PROVE  /\ Holds(ViewWhen(staffed)) /\ ViewWhen(staffed).task = task
         /\ Holds(Running(ViewWhen(staffed))) /\ Running(ViewWhen(staffed)).task = task
         /\ Running(ViewWhen(staffed)).route = route /\ Running(ViewWhen(staffed)).answer = answer
<1> DEFINE s == ViewWhen(staffed)
<1>1. s.campaign = campaign /\ s.task = task /\ s.route = route /\ s.answer = answer
  BY DEF ViewWhen
<1>2. s \in Views
  BY DEF FullInv, IInv, TypeOK, ViewWhen, Views, CampaignRow, Answers
<1>4. Running(s).route = s.route /\ Running(s).answer = s.answer
  BY DEF ViewWhen, Running
<1> HIDE DEF s
<1>3. Holds(s)
  BY <1>1 DEF FullInv, Holds, Earned, Echoed
<1> QED BY <1>1, <1>2, <1>3, <1>4, RunningHolds DEF s

\* What a request that keeps everything commits.
LEMMA CommitHolds ==
  ASSUME IInv', NEW t, Holds(t), Commit(t), UNCHANGED Environment
  PROVE  FullInv' /\ EarnedStep
<1>1. /\ campaign' = t.campaign /\ task' = t.task /\ route' = t.route /\ answer' = t.answer
      /\ protocol' = protocol /\ mandate' = mandate
  BY DEF Commit, Environment
<1>2. Sound(task, route)'
  BY <1>1 DEF Holds, Sound, Settled, Ordered, Needs
<1>3. Booked(campaign, task, answer)'
  BY <1>1 DEF Holds
<1>4. Watched(campaign, task)'
  BY <1>1 DEF Holds, Watched
<1>5. EarnedStep
  BY <1>1 DEF Holds, Earned, EarnedStep
<1> QED BY <1>2, <1>3, <1>4, <1>5 DEF FullInv

\* Rows that move while the campaign stands still.
LEMMA MovesInv ==
  ASSUME FullInv, IInv', UNCHANGED <<protocol, campaign, route, answer, mandate>>,
         \A q \in Queue, k \in Stages :
           task'[q][k] = task[q][k] \/ (Moved(task[q][k], task'[q][k]) /\ Settled(task'[q][k], k))
  PROVE  FullInv' /\ EarnedStep
<1>1. campaign \in CampaignRow /\ answer \in [Queue -> Answers]
  BY DEF FullInv, IInv, TypeOK, CampaignRow, Answers
<1>2. Sound(task', route)
  BY SoundMoves DEF FullInv
<1>3. Booked(campaign, task', answer)
  BY <1>1, BookedMoves DEF FullInv
<1>4. Watched(campaign, task')
  BY <1>1, WatchedMoves DEF FullInv
<1>5. Sound(task, route)'
  BY <1>2 DEF Sound, Settled, Ordered, Needs
<1>6. Booked(campaign, task, answer)' /\ Watched(campaign, task)'
  BY <1>3, <1>4 DEF Watched
<1> QED BY <1>5, <1>6 DEF FullInv, EarnedStep

\* A step of a worker, an operator or the founder moves one row.
LEMMA TaskStepMoves ==
  ASSUME FullInv, NEW q \in Queue, NEW k \in Stages, TaskStep(q, k)
  PROVE  \E row : SetRow(q, k, row) /\ Moved(task[q][k], row) /\ Settled(row, k)
<1> DEFINE r == task[q][k]
<1>1. r \in Row /\ Settled(r, k)
  BY DEF FullInv, IInv, TypeOK, Sound
<1>2. r.status = "absent" => r.approval = "none"
  BY <1>1 DEF Settled, AbsentRow
<1>3. ASSUME NEW row, SetRow(q, k, row), r.status \in {"queued", "leased", "running", "failed"},
             row.status # "absent", row.approval = r.approval \/ r.approval # "none",
             row.status \in {"leased", "running", "succeeded", "failed"} => row.approval \in {"none", "closed"}
      PROVE  SetRow(q, k, row) /\ Moved(r, row) /\ Settled(row, k)
  BY <1>1, <1>3 DEF Moved, Settled
<1>4. CASE Lease(q, k)
  <2> DEFINE row == [r EXCEPT !.status = "leased", !.approval = IF @ = "none" THEN @ ELSE "closed"]
  <2>1. row.status = "leased" /\ row.approval = IF r.approval = "none" THEN "none" ELSE "closed"
    BY <1>1 DEF Row
  <2>2. SetRow(q, k, row) /\ r.status = "queued"
    BY <1>4 DEF Lease
  <2> HIDE DEF row
  <2> QED BY <1>3, <2>1, <2>2
<1>5. CASE Start(q, k)
  <2> DEFINE row == [r EXCEPT !.status = "running"]
  <2>1. row.status = "running" /\ row.approval = r.approval
    BY <1>1 DEF Row
  <2>2. SetRow(q, k, row) /\ r.status = "leased"
    BY <1>5 DEF Start
  <2>3. r.approval \in {"none", "closed"}
    BY <1>1, <2>2 DEF Settled
  <2> HIDE DEF row
  <2> QED BY <1>3, <2>1, <2>2, <2>3
<1>6. CASE Succeed(q, k) \/ Fail(q, k)
  <2>1. r.status \in {"leased", "running"} /\ r.approval \in {"none", "closed"}
    BY <1>1, <1>6 DEF Succeed, Fail, Settled
  <2>2. CASE Succeed(q, k)
    <3>1. PICK note \in Results[k], n \in IF k = "E" THEN 0..MaxVariants ELSE {r.n} :
            SetRow(q, k, [r EXCEPT !.status = "succeeded", !.note = note, !.n = n])
      BY <2>2 DEF Succeed
    <3> DEFINE row == [r EXCEPT !.status = "succeeded", !.note = note, !.n = n]
    <3>2. row.status = "succeeded" /\ row.approval = r.approval
      BY <1>1 DEF Row
    <3>3. SetRow(q, k, row)
      BY <3>1
    <3> HIDE DEF row
    <3> QED BY <1>3, <2>1, <3>2, <3>3
  <2>3. CASE Fail(q, k)
    <3>1. PICK note \in Failures[k] : SetRow(q, k, [r EXCEPT !.status = "failed", !.note = note])
      BY <2>3 DEF Fail
    <3> DEFINE row == [r EXCEPT !.status = "failed", !.note = note]
    <3>2. row.status = "failed" /\ row.approval = r.approval
      BY <1>1 DEF Row
    <3>3. SetRow(q, k, row)
      BY <3>1
    <3> HIDE DEF row
    <3> QED BY <1>3, <2>1, <3>2, <3>3
  <2> QED BY <1>6, <2>2, <2>3
<1>7. CASE Requeue(q, k)
  <2> DEFINE row == [r EXCEPT
               !.status = IF r.cancel THEN "cancelled"
                          ELSE IF r.approval = "none" THEN "queued" ELSE "pending_approval",
               !.approval = IF @ = "none" \/ r.cancel THEN @ ELSE "pending"]
  <2>1. row.status \in {"cancelled", "queued", "pending_approval"}
        /\ row.approval = IF r.approval = "none" \/ r.cancel THEN r.approval ELSE "pending"
    BY <1>1 DEF Row
  <2>2. SetRow(q, k, row) /\ r.status \in {"leased", "running"}
    BY <1>7 DEF Requeue
  <2> HIDE DEF row
  <2> QED BY <1>3, <2>1, <2>2
<1>8. CASE ResumeTask(q, k)
  <2> DEFINE row == [r EXCEPT !.note = "none",
               !.status = IF r.approval = "none" THEN "queued" ELSE "pending_approval",
               !.approval = IF @ = "none" THEN @ ELSE "pending"]
  <2>1. row.status \in {"queued", "pending_approval"}
        /\ row.approval = IF r.approval = "none" THEN r.approval ELSE "pending"
    BY <1>1 DEF Row
  <2>2. SetRow(q, k, row) /\ r.status = "failed"
    BY <1>8 DEF ResumeTask
  <2> HIDE DEF row
  <2> QED BY <1>3, <2>1, <2>2
<1>9. CASE Approve(q, k) \/ Reject(q, k) \/ ApprovalLapses(q, k) \/ ApprovalAskedAgain(q, k)
  <2>1. r.approval \in {"pending", "approved", "lapsed"}
    BY <1>9 DEF Approve, Reject, ApprovalLapses, ApprovalAskedAgain
  <2>2. r.status \notin {"absent", "leased", "running", "succeeded", "failed"}
        /\ ~(k \in {"D", "G", "Q"} \/ protocol # "governed")
    BY <1>1, <1>2, <2>1 DEF Settled
  <2>3. \/ SetRow(q, k, [r EXCEPT !.approval = "approved", !.status = "queued"])
        \/ SetRow(q, k, [r EXCEPT !.approval = "closed", !.status = "cancelled"])
        \/ SetRow(q, k, [r EXCEPT !.approval = "lapsed"])
        \/ SetRow(q, k, [r EXCEPT !.approval = "pending", !.status = "pending_approval"])
    BY <1>9 DEF Approve, Reject, ApprovalLapses, ApprovalAskedAgain
  <2>4. /\ [r EXCEPT !.approval = "approved", !.status = "queued"].status = "queued"
        /\ [r EXCEPT !.approval = "closed", !.status = "cancelled"].status = "cancelled"
        /\ [r EXCEPT !.approval = "lapsed"].status = r.status
        /\ [r EXCEPT !.approval = "pending", !.status = "pending_approval"].status = "pending_approval"
    BY <1>1 DEF Row
  <2>5. PICK row : SetRow(q, k, row) /\ row.status \in {"queued", "cancelled", "pending_approval", r.status}
    BY <2>3, <2>4
  <2>6. Moved(r, row) /\ Settled(row, k)
    BY <2>1, <2>2, <2>5 DEF Moved, Settled
  <2> QED BY <2>5, <2>6
<1> QED BY <1>4, <1>5, <1>6, <1>7, <1>8, <1>9 DEF TaskStep

LEMMA TaskStepHolds ==
  ASSUME FullInv, NEW q \in Queue, NEW k \in Stages, TaskStep(q, k)
  PROVE  FullInv' /\ EarnedStep
<1>1. PICK row : SetRow(q, k, row) /\ Moved(task[q][k], row) /\ Settled(row, k)
  BY TaskStepMoves
<1>2. IInv'
  BY TaskStepInv DEF FullInv
<1>3. task \in [Queue -> [Stages -> Row]]
  BY DEF FullInv, IInv, TypeOK
<1>4. /\ task'[q][k] = row
      /\ \A p \in Queue, j \in Stages : p # q \/ j # k => task'[p][j] = task[p][j]
  BY <1>1, <1>3 DEF SetRow
<1>5. UNCHANGED <<protocol, campaign, route, answer, mandate>>
  BY <1>1 DEF SetRow, Environment
<1>6. \A p \in Queue, j \in Stages :
        task'[p][j] = task[p][j] \/ (Moved(task[p][j], task'[p][j]) /\ Settled(task'[p][j], j))
  BY <1>1, <1>4
<1> QED BY <1>2, <1>5, <1>6, MovesInv

\* A reviewer or the catalog changes a route that is not completed, so not an approved one.
LEMMA RouteStepHolds ==
  ASSUME FullInv, NEW q \in Queue,
         EvaluatorStale(q) \/ \E k \in Kinds : ReviewVerdict(q, k) \/ ReviewLost(q, k)
  PROVE  FullInv' /\ EarnedStep
<1>1. IInv'
  BY RouteStepInv DEF FullInv
<1>2. route \in [Queue -> Route] /\ route[q] \in Route
  BY DEF FullInv, IInv, TypeOK
<1>3. PICK r : SetRoute(q, r) /\ (Approved(r) => r.status = "completed")
  <2>1. route[q].status = "assigned" /\ ~Approved(route[q])
    BY DEF EvaluatorStale, ReviewVerdict, ReviewLost, FullInv, Sound
  <2>2. CASE EvaluatorStale(q)
    <3>1. [route[q] EXCEPT !.stale = TRUE].review = route[q].review
      BY <1>2 DEF Route
    <3> QED BY <2>1, <2>2, <3>1 DEF EvaluatorStale, Approved
  <2>3. ASSUME NEW k \in Kinds, ReviewLost(q, k) PROVE \E r : SetRoute(q, r) /\ ~Approved(r)
    <3> DEFINE r == [route[q] EXCEPT !.review[k] = "lost"]
    <3>1. r.review[k] = "lost"
      BY <1>2 DEF Route
    <3>2. SetRoute(q, r)
      BY <2>3 DEF ReviewLost
    <3> HIDE DEF r
    <3> QED BY <3>1, <3>2 DEF Approved
  <2>4. ASSUME NEW k \in Kinds, ReviewVerdict(q, k)
        PROVE  \E r : SetRoute(q, r) /\ (Approved(r) => r.status = "completed")
    <3>1. PICK verdict \in {"approve", "reject"} :
            LET review == [route[q].review EXCEPT ![k] = verdict]
            IN  SetRoute(q, [route[q] EXCEPT !.review = review,
                  !.status = IF \A l \in Kinds : review[l] \in {"approve", "reject"} THEN "completed" ELSE @])
      BY <2>4 DEF ReviewVerdict
    <3> DEFINE review == [route[q].review EXCEPT ![k] = verdict]
               done == \A l \in Kinds : review[l] \in {"approve", "reject"}
               r == [route[q] EXCEPT !.review = review, !.status = IF done THEN "completed" ELSE @]
    <3>2. r.review = review /\ (done => r.status = "completed")
      <4> HIDE DEF review, done
      <4> QED BY <1>2 DEF Route
    <3>3. SetRoute(q, r)
      BY <3>1
    <3>4. (\A l \in Kinds : review[l] = "approve") => done
      OBVIOUS
    <3> HIDE DEF r, review, done
    <3> QED BY <3>2, <3>3, <3>4 DEF Approved
  <2> QED BY <2>2, <2>3, <2>4
<1>4. /\ route'[q] = r /\ \A p \in Queue : p # q => route'[p] = route[p]
      /\ UNCHANGED <<campaign, task, answer, protocol, mandate>>
  BY <1>2, <1>3 DEF SetRoute, Environment
<1>5. ~Approved(route[q])
  BY DEF EvaluatorStale, ReviewVerdict, ReviewLost, FullInv, Sound
<1>6. Ordered(task[q], r)
  <2>1. Ordered(task[q], route[q])
    BY DEF FullInv, Sound
  <2> QED BY <1>5, <2>1 DEF Ordered, Needs, Approved
<1>7. Sound(task, route')
  BY <1>3, <1>4, <1>6 DEF FullInv, Sound
<1>8. Sound(task, route)'
  BY <1>4, <1>7 DEF Sound, Settled, Ordered, Needs
<1>9. Booked(campaign, task, answer)' /\ Watched(campaign, task)'
  BY <1>4 DEF FullInv, Watched
<1> QED BY <1>1, <1>4, <1>8, <1>9 DEF FullInv, EarnedStep

\* cancel_campaign moves the newest row at most.
LEMMA CancelHolds ==
  ASSUME FullInv, CancelCampaign
  PROVE  FullInv' /\ EarnedStep
<1>1. IInv'
  BY CancelInv DEF FullInv
<1>2. /\ campaign \in CampaignRow /\ task \in [Queue -> [Stages -> Row]]
      /\ answer \in [Queue -> Answers]
  BY DEF FullInv, IInv, TypeOK, CampaignRow, Answers
<1>3. ASSUME NEW q \in Queue, NEW k \in Stages
      PROVE  task'[q][k] = task[q][k] \/ (Moved(task[q][k], task'[q][k]) /\ Settled(task'[q][k], k))
  <2> DEFINE r == task[q][k]
  <2>1. r \in Row /\ Settled(r, k)
    BY <1>2 DEF FullInv, Sound
  <2>2. task'[q][k] = IF <<q, k>> \in Newest THEN CancelledRow(r) ELSE r
    BY DEF CancelCampaign
  <2>3. <<q, k>> \in Newest => r.status # "absent"
    BY DEF Newest
  <2>4. CancelledRow(r) = r \/ /\ r.status \notin Ended
                               /\ CancelledRow(r).status \in {r.status, "cancelled"}
                               /\ CancelledRow(r).approval = r.approval
    BY <2>1 DEF CancelledRow, Row
  <2> HIDE DEF r
  <2> QED BY <2>1, <2>2, <2>3, <2>4 DEF Moved, Settled, Ended, r
<1>4. /\ campaign'.done = campaign.done /\ campaign'.failures = campaign.failures
      /\ campaign'.trials = campaign.trials /\ campaign'.status = "cancelled"
      /\ UNCHANGED <<route, answer, protocol, mandate>>
  BY <1>2 DEF CancelCampaign, CampaignRow, Environment
<1>5. Sound(task', route)
  BY <1>3, SoundMoves DEF FullInv
<1>6. Sound(task, route)'
  BY <1>4, <1>5 DEF Sound, Settled, Ordered, Needs
<1>7. Booked(campaign, task', answer)
  BY <1>2, <1>3, BookedMoves DEF FullInv
<1>8. Booked(campaign', task', answer')
  BY <1>4, <1>7 DEF Booked
<1>9. Watched(campaign, task)'
  BY <1>4 DEF Watched
<1> QED BY <1>1, <1>4, <1>6, <1>8, <1>9 DEF FullInv, EarnedStep

\* recover_completed_execution: the recovered execution is answered at the cost it reports.
LEMMA RecoverHolds ==
  ASSUME FullInv, NEW q \in Queue, NEW outcome \in Results["E"], NEW cost \in 0..MaxVariants,
         RecoverCompletedExecution(q, outcome, cost)
  PROVE  FullInv' /\ EarnedStep
<1> DEFINE v == Running(View)
           row == [task[q]["E"] EXCEPT !.status = "succeeded", !.note = "recovered", !.n = cost]
           table == [task EXCEPT ![q]["E"] = row]
           s == [v EXCEPT !.task = table]
<1>1. /\ IInv /\ IInv' /\ "E" \in Stages /\ cost \in Nat
      /\ outcome \in Reports /\ outcome \notin {"none", "invalid"}
  BY RecoverInv, CampaignAssumption DEF FullInv, Stages, Reports, Results, Outcomes
<1>2. task \in [Queue -> [Stages -> Row]] /\ task[q]["E"] \in Row /\ Settled(task[q]["E"], "E")
  BY <1>1 DEF FullInv, IInv, TypeOK, Sound
<1>3. /\ Typed(v) /\ v \in Views /\ v.task = task /\ v.campaign.done = campaign.done
      /\ v.campaign.status = "running"
  <2>1. View = ViewWhen(TRUE) /\ TRUE \in BOOLEAN
    BY DEF View
  <2> QED BY <1>1, <2>1, ViewFits, FitsTyped DEF Fits
<1>4. Holds(v)
  BY ViewHolds DEF View
<1>5. row \in Row /\ row.n = cost /\ row.status = "succeeded" /\ row.approval = task[q]["E"].approval
  BY <1>1, <1>2 DEF Row, TaskStatuses, Ended, Notes
<1>6. Commit(Record(s, outcome, cost)) /\ UNCHANGED Environment
  <2>1. [v EXCEPT !.task[q]["E"].status = "succeeded", !.task[q]["E"].note = "recovered",
                  !.task[q]["E"].n = cost] = s
    <3> HIDE DEF v
    <3>1. [v.task EXCEPT ![q]["E"].status = "succeeded", ![q]["E"].note = "recovered",
                         ![q]["E"].n = cost] = table
      BY <1>1, <1>2, <1>3
    <3> QED BY <1>3, <3>1 DEF Views
  <2> QED BY <2>1 DEF RecoverCompletedExecution
<1>7. task[q]["E"].status = "failed" /\ q = campaign.done + 1
  BY DEF RecoverCompletedExecution
<1> HIDE DEF row
<1>8. /\ table \in [Queue -> [Stages -> Row]] /\ table[q]["E"] = row
      /\ \A p \in Queue, k \in Stages : p # q \/ k # "E" => table[p][k] = task[p][k]
  BY <1>1, <1>2, <1>5
<1>9. Moved(task[q]["E"], row) /\ Settled(row, "E")
  BY <1>2, <1>5, <1>7 DEF Moved, Settled
<1> HIDE DEF v, table
<1>10. /\ s \in Views /\ s.campaign = v.campaign /\ s.task = table
       /\ s.route = v.route /\ s.answer = v.answer
  BY <1>3, <1>8 DEF Views
<1>11. \A p \in Queue, k \in Stages :
         table[p][k] = v.task[p][k] \/ (Moved(v.task[p][k], table[p][k]) /\ Settled(table[p][k], k))
  BY <1>3, <1>8, <1>9
<1> HIDE DEF s
<1>12. Holds(s)
  <2>1. Sound(table, v.route)
    BY <1>4, <1>11, SoundMoves DEF Holds
  <2>2. Booked(v.campaign, table, v.answer)
    <3>1. v.campaign \in CampaignRow /\ v.answer \in [Queue -> Answers]
      BY <1>3 DEF Views
    <3> QED BY <1>4, <1>11, <3>1, BookedMoves DEF Holds
  <2>3. Watched(v.campaign, table)
    BY <1>3 DEF Watched
  <2> QED BY <1>4, <1>10, <2>1, <2>2, <2>3 DEF Holds
<1>13. Typed(s) /\ Open(s) /\ Current(s) = q
  <2>1. campaign.done < Questions
    BY <1>1, <1>7, TrialsAreNat, CampaignAssumption DEF Queue
  <2> QED BY <1>3, <1>7, <1>10, <2>1 DEF Typed, Open, Current
<1>14. Holds(Record(s, outcome, cost))
  BY <1>1, <1>5, <1>8, <1>10, <1>12, <1>13, RecordHolds
<1> QED BY <1>1, <1>6, <1>14, CommitHolds

\* A pass over the campaign, whoever asks for it.
LEMMA ReconcileHolds ==
  ASSUME FullInv, campaign.status # "awaiting_activation", NEW staffed \in BOOLEAN,
         Commit(Reconciled(ViewWhen(staffed))) \/ Commit(Reconciled(Running(ViewWhen(staffed)))),
         UNCHANGED Environment
  PROVE  FullInv' /\ EarnedStep
<1>1. IInv /\ IInv' /\ campaign.trials \in Nat
  BY ReconcileInv, TrialsAreNat DEF FullInv
<1>2. CASE Commit(Reconciled(Running(ViewWhen(staffed))))
  <2>1. Holds(Reconciled(Running(ViewWhen(staffed))))
    BY <1>1, ViewFits, ViewHolds, ReconciledHolds
  <2> QED BY <1>1, <1>2, <2>1, CommitHolds
<1>3. CASE campaign.status # "cancelled" /\ Commit(Reconciled(ViewWhen(staffed)))
  <2>1. Holds(Reconciled(ViewWhen(staffed)))
    BY <1>1, <1>3, ViewFits, ViewHolds, ReconciledHolds
  <2> QED BY <1>1, <1>3, <2>1, CommitHolds
<1>4. CASE campaign.status = "cancelled" /\ Commit(Reconciled(ViewWhen(staffed)))
  <2>1. Reconciled(ViewWhen(staffed)) = ViewWhen(staffed)
    BY <1>4, ReconciledCancelled DEF ViewWhen
  <2> QED BY <1>1, <1>4, <2>1, ViewHolds, CommitHolds
<1> QED BY <1>2, <1>3, <1>4

\* activate_campaign: nothing is used up yet.
LEMMA ActivateHolds ==
  ASSUME FullInv, ActivateCampaign
  PROVE  FullInv' /\ EarnedStep
<1> DEFINE s == Running(View)
<1>1. IInv /\ IInv' /\ campaign.trials \in Nat
  BY ActivateInv, TrialsAreNat DEF FullInv
<1>2. /\ Fits(s, campaign.trials) /\ Holds(s) /\ s.campaign.done = campaign.done
      /\ s.campaign.trials = campaign.trials /\ s.campaign.status = "running"
  BY <1>1, ViewFits, ViewHolds DEF View
<1>3. campaign.trials = 0 /\ campaign.done = 0
  BY <1>1 DEF ActivateCampaign, IInv, Dormant
<1> HIDE DEF s
<1>4. Ready(s)
  <2>1. s.campaign.failures \in Nat /\ s.campaign.failures <= s.campaign.done
    BY <1>2 DEF Fits, Views, CampaignRow
  <2> QED BY <1>2, <1>3, <2>1, CampaignAssumption DEF Ready, Open
<1>5. Holds(Advance(s))
  BY <1>1, <1>2, <1>4, AdvanceHolds
<1>6. Commit(Advance(s)) /\ UNCHANGED Environment
  BY DEF ActivateCampaign, s
<1> QED BY <1>1, <1>5, <1>6, CommitHolds

\* Every step keeps the invariant, and gives a question up only where that was earned.
LEMMA NextHolds ==
  ASSUME FullInv, [Next]_vars
  PROVE  FullInv' /\ EarnedStep
<1>0. IInv /\ IInv'
  BY NextInv DEF FullInv
<1>1. CASE ActivateCampaign
  BY <1>1, ActivateHolds
<1>2. CASE Director
  <2>1. campaign.status # "awaiting_activation"
    BY <1>2 DEF Director, ParkedFor, View, ViewWhen
  <2> QED BY <1>2, <2>1, ReconcileHolds DEF Director
<1>3. CASE ReconcileCampaign
  BY <1>3, ReconcileHolds DEF ReconcileCampaign
<1>4. CASE ResumeCampaign
  <2>1. campaign.status # "awaiting_activation"
    BY <1>4 DEF ResumeCampaign, ParkedFor, View, ViewWhen
  <2> QED BY <1>4, <2>1, ReconcileHolds DEF ResumeCampaign
<1>5. CASE CancelCampaign
  BY <1>5, CancelHolds
<1>6. ASSUME NEW q \in Queue, NEW outcome \in Results["E"], NEW cost \in 0..MaxVariants,
             RecoverCompletedExecution(q, outcome, cost)
      PROVE  FullInv' /\ EarnedStep
  BY <1>6, RecoverHolds
<1>7. ASSUME NEW q \in Queue, RepeatRecovery(q) PROVE FullInv' /\ EarnedStep
  <2>1. Holds(Running(View)) /\ Commit(Running(View)) /\ UNCHANGED Environment
    BY <1>7, ViewHolds DEF View, RepeatRecovery
  <2> QED BY <1>0, <2>1, CommitHolds
<1>8. ASSUME NEW q \in Queue, NEW k \in Stages, TaskStep(q, k) PROVE FullInv' /\ EarnedStep
  BY <1>8, TaskStepHolds
<1>9. ASSUME NEW q \in Queue,
             EvaluatorStale(q) \/ \E k \in Kinds : ReviewVerdict(q, k) \/ ReviewLost(q, k)
      PROVE  FullInv' /\ EarnedStep
  BY <1>9, RouteStepHolds
<1>10. CASE DeadlinePasses \/ MandateEnds \/ UNCHANGED vars
  <2>1. /\ UNCHANGED <<campaign, task, answer, protocol, route>>
        /\ mandate' = "active" => mandate = "active"
    BY <1>10 DEF DeadlinePasses, MandateEnds, vars
  <2>2. Sound(task, route)' /\ Booked(campaign, task, answer)'
    BY <2>1 DEF FullInv, Sound, Settled, Ordered, Needs
  <2>3. Watched(campaign, task)'
    BY <2>1 DEF FullInv, Watched
  <2> QED BY <1>0, <2>1, <2>2, <2>3 DEF FullInv, EarnedStep
<1> QED BY <1>1, <1>2, <1>3, <1>4, <1>5, <1>6, <1>7, <1>8, <1>9, <1>10 DEF Next

\* A registered campaign has empty books.
LEMMA InitHolds == Init => FullInv
<1> SUFFICES ASSUME Init PROVE FullInv
  OBVIOUS
<1>1. /\ campaign.status = "awaiting_activation" /\ campaign.trials = 0 /\ campaign.done = 0
      /\ campaign.failures = 0 /\ \A q \in Queue : answer[q] = "none" /\ route[q] = NoRoute
      /\ \A q \in Queue, k \in Stages : task[q][k] = AbsentRow
  BY DEF Init
<1>2. Sound(task, route)
  <2>1. ~Approved(NoRoute)
    BY DEF Approved, NoRoute, Kinds
  <2>2. \A k \in Stages : Settled(AbsentRow, k)
    BY DEF Settled, AbsentRow
  <2> QED BY <1>1, <2>1, <2>2, AbsentIsRow DEF Sound, Ordered
<1>3. Booked(campaign, task, answer)
  <2>1. Spent(task, 0) = 0
    BY SumUnfolds DEF Spent
  <2>2. \A q \in Queue : ~(q <= 0) /\ ~Opened(task[q])
    BY <1>1, AbsentIsRow, CampaignAssumption DEF Queue, Opened
  <2> QED BY <1>1, <2>1, <2>2 DEF Booked
<1>4. Watched(campaign, task)
  BY <1>1 DEF Watched
<1> QED BY <1>2, <1>3, <1>4, InitInv DEF FullInv

-----------------------------------------------------------------------------

\* No execution without its gates: the draft, the founder's confirmation where it is asked
\* for, the qualification and both reviews stand behind every execution, and stay there.
THEOREM ExecutionsAreGated == Spec => []ExecutionGated
<1>1. FullInv /\ [Next]_vars => FullInv'
  BY NextHolds
<1>2. FullInv => ExecutionGated
  <2> SUFFICES ASSUME FullInv, NEW q \in Queue, protocol # "native", task[q]["E"].status # "absent"
               PROVE  /\ task[q]["D"].status = "succeeded" /\ task[q]["D"].note = "card"
                      /\ protocol = "governed" => task[q]["C"].status = "succeeded"
                      /\ task[q]["Q"].status = "succeeded" /\ task[q]["Q"].note = "ready"
                      /\ \A k \in Kinds : route[q].review[k] = "approve"
    BY DEF ExecutionGated
  <2>1. Ordered(task[q], route[q])
    BY DEF FullInv, Sound
  <2>2. Needs(task[q], route[q], "E") /\ (task[q]["Q"].status # "absent" => Needs(task[q], route[q], "Q"))
    BY <2>1 DEF Ordered, Stages
  <2> QED BY <2>2 DEF Needs
<1> QED BY <1>1, <1>2, InitHolds, PTL DEF Spec

\* record_attempt keeps the books: exactly the questions before the current one are
\* answered, and the trial counter is the sum of what their executions reported.
THEOREM BooksAreRight == Spec => []AnswersAccounted
<1>1. FullInv /\ [Next]_vars => FullInv'
  BY NextHolds
<1>2. FullInv => AnswersAccounted
  <2> SUFFICES ASSUME FullInv PROVE AnswersAccounted
    OBVIOUS
  <2>1. (campaign.done + 1) - 1 = campaign.done
    BY TrialsAreNat DEF FullInv
  <2> QED BY <2>1 DEF FullInv, Booked, AnswersAccounted, TrialsBefore, Spent
<1> QED BY <1>1, <1>2, InitHolds, PTL DEF Spec

\* reconcile_campaign opens no question past a budget: neither the trials nor the failures
\* in a row are used up when a question gets its first task.
THEOREM BudgetsAreKept == Spec => []OpenedWithinBudget
<1>1. FullInv /\ [Next]_vars => FullInv'
  BY NextHolds
<1>2. FullInv => OpenedWithinBudget
  BY DEF FullInv, Booked, OpenedWithinBudget, Exists, Opened, Affordable, TrialsBefore, Spent
<1> QED BY <1>1, <1>2, InitHolds, PTL DEF Spec

\* The director never loses sight of a delegated campaign with work in flight.
THEOREM WorkIsWatched == Spec => []LiveWorkIsWatched
<1>1. FullInv /\ [Next]_vars => FullInv'
  BY NextHolds
<1>2. FullInv => LiveWorkIsWatched
  BY DEF FullInv, Watched, LiveWorkIsWatched, Quiet, InFlight
<1> QED BY <1>1, <1>2, InitHolds, PTL DEF Spec

\* A question is retained as invalid only after a rejecting review or a ladder that failed
\* for good, as they stood before the step that gave it up.
THEOREM InvalidAnswersAreEarned == Spec => InvalidIsEarned
<1>1. FullInv /\ [Next]_vars => FullInv'
  BY NextHolds
<1>2. FullInv /\ [Next]_vars =>
        [\A q \in Queue : (answer'[q] = "invalid" /\ answer[q] # "invalid") =>
           \/ ReviewsReject(route[q])
           \/ /\ task[q]["G"].status = "failed"
              /\ task[q]["G"].note = "plan" \/ (task[q]["G"].note = "review" /\ task[q]["G"].n = LastRung)
        ]_vars
  BY NextHolds DEF EarnedStep, Rejected
<1> QED BY <1>1, <1>2, InitHolds, PTL DEF Spec, InvalidIsEarned

=============================================================================
