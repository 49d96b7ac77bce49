--------------------------- MODULE CampaignLedger ---------------------------
(***************************************************************************)
(* What the discovery director relies on in a campaign it does not own:    *)
(* its status and the trials it has consumed.  AlphaCampaign implements    *)
(* this specification; AlphaDiscovery runs many campaigns that follow it.  *)
(***************************************************************************)
EXTENDS Naturals

CONSTANT MaxTrials   \* max_total_trials of the campaign

VARIABLE ledger      \* [status, trials]

Final == {"completed_no_candidate", "shadow_candidate", "cancelled"}
Statuses == {"awaiting_activation", "running", "needs_attention"} \cup Final

Ledger == [status : Statuses, trials : 0..MaxTrials]

\* One request on a campaign with the given budget: it is activated once, consumes trials
\* within its budget, parks, resumes, ends, or is reopened after its end by a late or
\* recovered execution.  Only an open campaign is cancelled, and that costs no trial.
Step(old, new, budget) ==
  /\ new.trials \in old.trials..budget
  /\ new.status = "awaiting_activation" => old = new
  /\ old.status = "awaiting_activation" =>
       new.trials = 0 /\ new.status \notin {"completed_no_candidate", "shadow_candidate"}
  /\ new.status = "cancelled" =>
       new.trials = old.trials /\ old.status \notin {"completed_no_candidate", "shadow_candidate"}

Init == ledger = [status |-> "awaiting_activation", trials |-> 0]
Next == \E new \in Ledger : Step(ledger, new, MaxTrials) /\ ledger' = new
Spec == Init /\ [][Next]_ledger

=============================================================================
