------------------------ MODULE AlphaDiscoveryProofs ------------------------
(***************************************************************************)
(* Machine-checked proofs about AlphaDiscovery, for any budgets, watermark,*)
(* candidates and retries: which cycles are at work, what a campaign       *)
(* stands on, and that a campaign is debited exactly once until one is     *)
(* reopened.                                                               *)
(*                                                                         *)
(* A request takes the transaction's view to a set of views, so the proof  *)
(* follows the code: every part of reconcile_mandate and every route takes *)
(* a good view (Good) to good views only.  The trial counter is compared   *)
(* with the events in a second predicate (Counted) along the same path,    *)
(* and the events with the campaigns in a third (Exact), which every part  *)
(* keeps that leaves the cycles with a campaign alone (Steady).            *)
(***************************************************************************)
EXTENDS AlphaDiscovery, SumsProofs

CycleStatuses == {"absent", "running", "awaiting_data_admission"} \cup TerminalCycle
Phases == Stages \cup {"data_admission", "campaign", "complete"}

\* The columns of a view, and what they hold.
Columns(s) ==
  s \in [mandate : {s.mandate}, cycle : {s.cycle}, work : {s.work},
         candidate : {s.candidate}, campaign : {s.campaign}, debit : {s.debit}]

Shape(s) ==
  /\ Columns(s)
  /\ s.mandate = [status |-> s.mandate.status, cycles |-> s.mandate.cycles,
                  trials |-> s.mandate.trials]
  /\ s.mandate.cycles \in 0..MaxCycles
  /\ s.cycle \in [Cycles -> CycleRow]
  /\ s.work \in Work
  /\ s.candidate \in [Cycles -> [Candidates -> CandidateRow]]
  /\ s.campaign = [c \in Cycles |-> s.campaign[c]]
  /\ \A c \in Cycles :
       s.campaign[c] = [status |-> s.campaign[c].status, trials |-> s.campaign[c].trials,
                        budget |-> s.campaign[c].budget]
  /\ s.debit = [c \in Cycles |-> s.debit[c]]

Settled(row) == row.status = "succeeded" /\ row.valid
AllSettled(stage) == \A k \in Stages : Settled(stage[k])

\* The stages before k have valid outputs.
Earlier(stage, k) ==
  /\ k # "intelligence" => Settled(stage["intelligence"])
  /\ k = "representation" => Settled(stage["hypothesis"])

Untouched(rows) == \A i \in Candidates : rows[i] = NoCandidate
Grounded(rows) == \E i \in Candidates : rows[i].verdict = "accepted"
Pending(row) == row.verdict = "awaiting" /\ row.admission = "open"

\* An accepted candidate needed no data, or its data were admitted.
Backed(rows) ==
  \A i \in Candidates :
    rows[i].verdict = "accepted" => rows[i].task = "none" \/ rows[i].admission = "admitted"

\* A cycle that has not started.
Unborn(s, c) ==
  s.cycle[c].status = "absent" /\ s.campaign[c] = NoCampaign /\ Untouched(s.candidate[c])

\* What holds of the candidates and the campaign of a cycle whatever its status.
Founded(s, c) ==
  /\ Backed(s.candidate[c])
  /\ s.campaign[c] # NoCampaign => s.campaign[c].status # "none" /\ Grounded(s.candidate[c])

\* What holds of a cycle that has started.
CycleGood(s, c) ==
  /\ Founded(s, c)
  /\ s.cycle[c].status # "absent"
  /\ s.cycle[c].status = "awaiting_data_admission" => s.campaign[c] = NoCampaign
  /\ s.cycle[c].status # "awaiting_data_admission" =>
       \A i \in Candidates : ~Pending(s.candidate[c][i])
  /\ (s.campaign[c] # NoCampaign /\ s.cycle[c].status \in {"completed", "rejected", "shadow_candidate"})
       => s.debit[c] # <<>>
  /\ (c < s.mandate.cycles /\ s.campaign[c] = NoCampaign) => s.cycle[c].status \in TerminalCycle

\* What holds of the newest cycle and its stages: in a stage, nothing has come of the cycle
\* yet and the stages before it are settled; after them, all are.
NewestGood(s, c) ==
  /\ s.cycle[c].phase \in Stages =>
       /\ s.campaign[c] = NoCampaign /\ Untouched(s.candidate[c])
       /\ Earlier(s.work.stage, s.cycle[c].phase)
       /\ s.work.stage[s.cycle[c].phase].status # "absent"
       /\ s.cycle[c].status # "awaiting_data_admission"
  /\ s.cycle[c].phase \notin Stages => AllSettled(s.work.stage)
  /\ (s.campaign[c] = NoCampaign /\ s.cycle[c].status = "running") => s.cycle[c].phase \in Stages

\* All of it, but for cycle x, which a request is just changing.
GoodBut(s, x) ==
  /\ Shape(s)
  /\ \A c \in Cycles \ {x} :
       /\ c > s.mandate.cycles => Unborn(s, c)
       /\ c <= s.mandate.cycles => CycleGood(s, c)
       /\ c = s.mandate.cycles => NewestGood(s, c)

Good(s) == GoodBut(s, 0)

-----------------------------------------------------------------------------
(* Changes to a view.                                                      *)

\* 0 is no cycle.
LEMMA NoZero == 0 \notin Cycles /\ (\A c \in Cycles : c \in Nat /\ c > 0) /\ MaxCycles \in Nat
BY DiscoveryAssumption DEF Cycles

\* A good view is good but for any cycle, and the other way round with that cycle good.
LEMMA ButOne ==
  ASSUME NEW s, NEW x \in Cycles
  PROVE  /\ Good(s) => GoodBut(s, x)
         /\ (Good(s) /\ x <= s.mandate.cycles) => CycleGood(s, x)
         /\ (Good(s) /\ x = s.mandate.cycles) => NewestGood(s, x)
         /\ (Good(s) /\ x > s.mandate.cycles) => Unborn(s, x)
         /\ (/\ GoodBut(s, x) /\ x <= s.mandate.cycles /\ CycleGood(s, x)
             /\ x = s.mandate.cycles => NewestGood(s, x)) => Good(s)
<1>1. x # 0 /\ x \in Nat BY NoZero
<1>2. GoodBut(s, x) => s.mandate.cycles \in Nat BY NoZero DEF GoodBut, Shape
<1>3. Good(s) => GoodBut(s, x) BY NoZero DEF Good, GoodBut
<1>4. ASSUME Good(s)
      PROVE  /\ x <= s.mandate.cycles => CycleGood(s, x)
             /\ x = s.mandate.cycles => NewestGood(s, x)
             /\ x > s.mandate.cycles => Unborn(s, x)
  BY <1>1, <1>4 DEF Good, GoodBut
<1>5. ASSUME GoodBut(s, x), x <= s.mandate.cycles, CycleGood(s, x),
             x = s.mandate.cycles => NewestGood(s, x)
      PROVE  Good(s)
  <2>1. Shape(s) BY <1>5 DEF GoodBut
  <2>2. ~(x > s.mandate.cycles) BY <1>1, <1>2, <1>5
  <2>3. \A c \in Cycles \ {0} :
          /\ c > s.mandate.cycles => Unborn(s, c)
          /\ c <= s.mandate.cycles => CycleGood(s, c)
          /\ c = s.mandate.cycles => NewestGood(s, c)
    BY <1>5, <2>2 DEF GoodBut
  <2> QED BY <2>1, <2>3 DEF Good, GoodBut
<1> QED BY <1>3, <1>4, <1>5

\* What is good of the other cycles does not depend on cycle x.
LEMMA OthersKept ==
  ASSUME NEW s, NEW t, NEW x \in Cycles, GoodBut(s, x), Shape(t),
         t.mandate.cycles = s.mandate.cycles,
         x = s.mandate.cycles \/ t.work.stage = s.work.stage,
         \A c \in Cycles \ {x} :
           /\ t.cycle[c] = s.cycle[c] /\ t.candidate[c] = s.candidate[c]
           /\ t.campaign[c] = s.campaign[c] /\ t.debit[c] = s.debit[c]
  PROVE  GoodBut(t, x)
<1> SUFFICES ASSUME NEW c \in Cycles \ {x}
             PROVE  /\ c > s.mandate.cycles => Unborn(t, c)
                    /\ c <= s.mandate.cycles => CycleGood(t, c)
                    /\ c = s.mandate.cycles => NewestGood(t, c)
  BY DEF GoodBut
<1>1. Unborn(s, c) => Unborn(t, c) BY DEF Unborn
<1>2. CycleGood(s, c) => CycleGood(t, c) BY DEF CycleGood, Founded
<1>3. c = s.mandate.cycles /\ NewestGood(s, c) => NewestGood(t, c) BY DEF NewestGood
<1> QED BY <1>1, <1>2, <1>3 DEF GoodBut

\* Writing the status and the phase of a cycle.
LEMMA PhaseSet ==
  ASSUME NEW f \in [Cycles -> CycleRow], NEW c \in Cycles, NEW x \in CycleStatuses,
         NEW y \in Phases, NEW g, g = [f EXCEPT ![c].status = x, ![c].phase = y]
  PROVE  /\ g \in [Cycles -> CycleRow] /\ g[c].status = x /\ g[c].phase = y
         /\ \A d \in Cycles \ {c} : g[d] = f[d]
<1>1. f[c] \in CycleRow OBVIOUS
<1>2. /\ [f[c] EXCEPT !.status = x, !.phase = y] \in CycleRow
      /\ [f[c] EXCEPT !.status = x, !.phase = y].status = x
      /\ [f[c] EXCEPT !.status = x, !.phase = y].phase = y
  BY <1>1 DEF CycleRow, CycleStatuses, Phases
<1>3. [f EXCEPT ![c].status = x, ![c].phase = y]
        = [f EXCEPT ![c] = [f[c] EXCEPT !.status = x, !.phase = y]]
  OBVIOUS
<1> QED BY <1>2, <1>3

\* _task for a stage of the newest cycle, with nothing come of the cycle yet.
LEMMA NewTaskGood ==
  ASSUME NEW s, NEW c \in Cycles, NEW k \in Stages, GoodBut(s, c), c = s.mandate.cycles,
         s.campaign[c] = NoCampaign, Untouched(s.candidate[c]), Earlier(s.work.stage, k)
  PROVE  /\ Good(NewTask(s, c, k))
         /\ NewTask(s, c, k).work.retries = s.work.retries
         /\ NewTask(s, c, k).work.corrections = s.work.corrections
<1> DEFINE t == NewTask(s, c, k)
           row == [s.work.stage[k] EXCEPT !.status = "live", !.valid = FALSE, !.resumed = FALSE]
<1>1. Shape(s) BY DEF GoodBut
<1>2. /\ t.mandate = s.mandate /\ t.candidate = s.candidate /\ t.campaign = s.campaign
      /\ t.debit = s.debit
      /\ Columns(t)
  BY <1>1 DEF NewTask, Shape, Columns
<1>3. t.cycle = [s.cycle EXCEPT ![c].status = "running", ![c].phase = k]
  BY <1>1 DEF NewTask, Shape, Columns
<1>4. t.work = [s.work EXCEPT !.stage[k] = row, !.action = "none"]
  BY <1>1 DEF NewTask, Shape, Columns
<1>5. s.cycle \in [Cycles -> CycleRow] BY <1>1 DEF Shape
<1>6. "running" \in CycleStatuses /\ k \in Phases BY DEF CycleStatuses, Phases
<1> HIDE DEF t
<1>7. /\ t.cycle \in [Cycles -> CycleRow] /\ t.cycle[c].status = "running" /\ t.cycle[c].phase = k
      /\ \A d \in Cycles \ {c} : t.cycle[d] = s.cycle[d]
  BY <1>3, <1>5, <1>6, PhaseSet
<1>8. s.work \in Work /\ s.work.stage \in [Stages -> StageRow] BY <1>1 DEF Shape, Work
<1>9. row \in StageRow /\ row.status = "live" BY <1>8 DEF StageRow
<1> HIDE DEF row
<1>10. /\ t.work \in Work /\ t.work.retries = s.work.retries
       /\ t.work.corrections = s.work.corrections
       /\ t.work.stage = [s.work.stage EXCEPT ![k] = row]
  <2> DEFINE g == [s.work.stage EXCEPT ![k] = row]
  <2>1. g \in [Stages -> StageRow] BY <1>8, <1>9
  <2>2. t.work = [s.work EXCEPT !.stage = g, !.action = "none"] BY <1>4
  <2> HIDE DEF g
  <2>3. /\ t.work \in Work /\ t.work.retries = s.work.retries
        /\ t.work.corrections = s.work.corrections /\ t.work.stage = g
    BY <1>8, <2>1, <2>2 DEF Work
  <2> QED BY <2>3 DEF g
<1>11. t.work.stage[k].status = "live" /\ \A j \in Stages \ {k} : t.work.stage[j] = s.work.stage[j]
  BY <1>8, <1>9, <1>10
<1>12. Shape(t) BY <1>1, <1>2, <1>7, <1>10 DEF Shape
<1>13. GoodBut(t, c) BY <1>2, <1>7, <1>12, OthersKept
<1>14. CycleGood(t, c)
  <2>1. ~(c < t.mandate.cycles) BY <1>2, NoZero
  <2> QED BY <1>2, <1>7, <2>1
        DEF CycleGood, Founded, Backed, Untouched, Pending, NoCandidate
<1>15. NewestGood(t, c)
  <2>1. Earlier(t.work.stage, k) BY <1>11 DEF Earlier, Stages
  <2> QED BY <1>2, <1>7, <1>11, <2>1 DEF NewestGood
<1>16. Good(t)
  <2>1. c <= t.mandate.cycles BY <1>2, NoZero
  <2> QED BY <1>13, <1>14, <1>15, <2>1, ButOne
<1> QED BY <1>10, <1>16 DEF t

\* _new_cycle, when the newest cycle is at an end or has a campaign.
LEMMA NewCycleGood ==
  ASSUME NEW s, Good(s), s.mandate.cycles < MaxCycles,
         LET n == s.mandate.cycles
         IN  n > 0 => s.campaign[n] # NoCampaign \/ s.cycle[n].status \in TerminalCycle
  PROVE  Good(NewCycle(s))
<1> DEFINE n == s.mandate.cycles
           c == n + 1
           t == [s EXCEPT !.work = NoWork, !.mandate.cycles = c]
<1>1. Shape(s) /\ n \in Nat BY NoZero DEF Good, GoodBut, Shape
<1>2. c \in Cycles BY <1>1, NoZero DEF Cycles
<1>3. NoWork \in Work
  BY DiscoveryAssumption DEF NoWork, Work, NoStage, StageRow
<1>4. /\ t.cycle = s.cycle /\ t.candidate = s.candidate /\ t.campaign = s.campaign
      /\ t.debit = s.debit /\ t.work = NoWork
      /\ t.mandate = [s.mandate EXCEPT !.cycles = c]
      /\ Columns(t)
  BY <1>1 DEF Shape, Columns
<1>5. /\ t.mandate.cycles = c
      /\ t.mandate = [status |-> t.mandate.status, cycles |-> t.mandate.cycles,
                      trials |-> t.mandate.trials]
  BY <1>1, <1>4 DEF Shape
<1>6. c \in 0..MaxCycles BY <1>1, NoZero
<1> HIDE DEF t
<1>7. Shape(t) BY <1>1, <1>3, <1>4, <1>5, <1>6 DEF Shape
<1>8. GoodBut(t, c)
  <2> SUFFICES ASSUME NEW d \in Cycles \ {c}
               PROVE  /\ d > c => Unborn(t, d)
                      /\ d <= c => CycleGood(t, d)
                      /\ d = c => NewestGood(t, d)
    BY <1>5, <1>7 DEF GoodBut
  <2>1. d \in Nat /\ d # c BY NoZero
  <2>2. d > c => Unborn(t, d)
    <3>1. d > c => d > n BY <1>1, <2>1
    <3>2. d > c => Unborn(s, d) BY <3>1, ButOne
    <3> QED BY <1>4, <3>2 DEF Unborn
  <2>3. ASSUME d <= c PROVE CycleGood(t, d)
    <3>1. d <= n BY <1>1, <2>1, <2>3
    <3>2. CycleGood(s, d) BY <3>1, ButOne
    <3>3. s.campaign[d] = NoCampaign => s.cycle[d].status \in TerminalCycle
      <4>1. CASE d < n BY <3>2, <4>1 DEF CycleGood
      <4>2. CASE d = n BY <2>1, <4>2, NoZero
      <4> QED BY <1>1, <2>1, <3>1, <4>1, <4>2
    <3> QED BY <1>4, <3>2, <3>3 DEF CycleGood, Founded
  <2> QED BY <2>1, <2>2, <2>3
<1>9. t.campaign[c] = NoCampaign /\ Untouched(t.candidate[c])
  <2>1. c > n BY <1>1
  <2> QED BY <1>2, <1>4, <2>1, ButOne DEF Unborn
<1>10. "intelligence" \in Stages /\ Earlier(t.work.stage, "intelligence")
  BY DEF Stages, Earlier
<1>11. Good(NewTask(t, c, "intelligence"))
  BY <1>2, <1>5, <1>8, <1>9, <1>10, NewTaskGood
<1> QED BY <1>11 DEF t, NewCycle

\* A change of the mandate row that leaves cycle_count alone.
LEMMA MandateGood ==
  ASSUME NEW s, Good(s), NEW status, NEW trials
  PROVE  /\ Good([s EXCEPT !.mandate.status = status])
         /\ Good([s EXCEPT !.mandate.trials = trials])
<1>1. ASSUME NEW m, m.cycles = s.mandate.cycles,
             m = [status |-> m.status, cycles |-> m.cycles, trials |-> m.trials]
      PROVE  Good([s EXCEPT !.mandate = m])
  <2> DEFINE t == [s EXCEPT !.mandate = m]
  <2>1. Shape(s) BY DEF Good, GoodBut
  <2>2. /\ t.cycle = s.cycle /\ t.candidate = s.candidate /\ t.campaign = s.campaign
        /\ t.debit = s.debit /\ t.work = s.work /\ t.mandate = m
        /\ Columns(t)
    BY <2>1 DEF Shape, Columns
  <2> HIDE DEF t
  <2>3. Shape(t) BY <1>1, <2>1, <2>2 DEF Shape
  <2>4. \A c \in Cycles : /\ Unborn(s, c) => Unborn(t, c)
                          /\ CycleGood(s, c) => CycleGood(t, c)
                          /\ NewestGood(s, c) => NewestGood(t, c)
    BY <1>1, <2>2 DEF Unborn, CycleGood, Founded, NewestGood
  <2>5. Good(t) BY <1>1, <2>2, <2>3, <2>4 DEF Good, GoodBut
  <2> QED BY <2>5 DEF t
<1>2. Shape(s) BY DEF Good, GoodBut
<1>3. [s EXCEPT !.mandate.status = status]
        = [s EXCEPT !.mandate = [s.mandate EXCEPT !.status = status]]
  OBVIOUS
<1>4. [s EXCEPT !.mandate.trials = trials]
        = [s EXCEPT !.mandate = [s.mandate EXCEPT !.trials = trials]]
  OBVIOUS
<1>5. ASSUME NEW m, m \in {[s.mandate EXCEPT !.status = status], [s.mandate EXCEPT !.trials = trials]}
      PROVE  /\ m.cycles = s.mandate.cycles
             /\ m = [status |-> m.status, cycles |-> m.cycles, trials |-> m.trials]
  BY <1>2, <1>5 DEF Shape
<1> QED BY <1>1, <1>3, <1>4, <1>5

\* A change of what is noted about the stages that leaves their status and outputs alone.
LEMMA WorkGood ==
  ASSUME NEW s, Good(s), NEW w \in Work,
         \A k \in Stages : /\ w.stage[k].status = s.work.stage[k].status
                           /\ w.stage[k].valid = s.work.stage[k].valid
  PROVE  Good([s EXCEPT !.work = w]) /\ [s EXCEPT !.work = w].work = w
<1> DEFINE t == [s EXCEPT !.work = w]
<1>1. Shape(s) BY DEF Good, GoodBut
<1>2. /\ t.cycle = s.cycle /\ t.candidate = s.candidate /\ t.campaign = s.campaign
      /\ t.debit = s.debit /\ t.work = w /\ t.mandate = s.mandate
      /\ Columns(t)
  BY <1>1 DEF Shape, Columns
<1> HIDE DEF t
<1>3. Shape(t) BY <1>1, <1>2 DEF Shape
<1>4. \A k \in Stages : Settled(s.work.stage[k]) <=> Settled(t.work.stage[k])
  BY <1>2 DEF Settled
<1>5. \A k \in Stages : Earlier(s.work.stage, k) => Earlier(t.work.stage, k)
  BY <1>4 DEF Earlier, Stages
<1>6. \A c \in Cycles : /\ Unborn(s, c) => Unborn(t, c)
                        /\ CycleGood(s, c) => CycleGood(t, c)
  BY <1>2 DEF Unborn, CycleGood, Founded
<1>7. ASSUME NEW c \in Cycles, NewestGood(s, c) PROVE NewestGood(t, c)
  BY <1>2, <1>4, <1>5, <1>7 DEF NewestGood, AllSettled
<1>8. Good(t) BY <1>2, <1>3, <1>6, <1>7 DEF Good, GoodBut
<1> QED BY <1>2, <1>8 DEF t

\* The newest cycle stops in a stage, or goes on in it.
LEMMA StopGood ==
  ASSUME NEW s, Good(s), NEW c \in Cycles, c = s.mandate.cycles, s.cycle[c].phase \in Stages,
         NEW x \in {"running", "needs_attention"}, NEW a \in {"none", "repair", "review"}
  PROVE  LET t == [s EXCEPT !.cycle[c].status = x, !.work.action = a]
         IN  /\ Good(t) /\ t.mandate = s.mandate /\ t.campaign = s.campaign
             /\ t.cycle[c].status = x /\ t.cycle[c].phase = s.cycle[c].phase
<1> DEFINE t == [s EXCEPT !.cycle[c].status = x, !.work.action = a]
           k == s.cycle[c].phase
<1>1. Shape(s) BY DEF Good, GoodBut
<1>2. /\ t.candidate = s.candidate /\ t.campaign = s.campaign
      /\ t.debit = s.debit /\ t.mandate = s.mandate
      /\ t.cycle = [s.cycle EXCEPT ![c].status = x]
      /\ t.work = [s.work EXCEPT !.action = a]
      /\ Columns(t)
  BY <1>1 DEF Shape, Columns
<1> HIDE DEF t
<1>3. t.work \in Work /\ t.work.stage = s.work.stage BY <1>1, <1>2 DEF Shape, Work
<1>4. /\ t.cycle \in [Cycles -> CycleRow] /\ t.cycle[c].status = x /\ t.cycle[c].phase = k
      /\ \A d \in Cycles \ {c} : t.cycle[d] = s.cycle[d]
  BY <1>1, <1>2 DEF Shape, CycleRow, TerminalCycle
<1>5. Shape(t) BY <1>1, <1>2, <1>3, <1>4 DEF Shape
<1>6. GoodBut(t, c) BY <1>2, <1>4, <1>5, ButOne, OthersKept
<1>7. c <= s.mandate.cycles /\ ~(c < s.mandate.cycles) BY NoZero
<1>8. CycleGood(s, c) /\ NewestGood(s, c) BY <1>7, ButOne
<1>9. CycleGood(t, c)
  BY <1>2, <1>4, <1>7, <1>8 DEF CycleGood, Founded, NewestGood
<1>10. NewestGood(t, c)
  BY <1>2, <1>3, <1>4, <1>8 DEF NewestGood
<1>11. Good(t) BY <1>2, <1>6, <1>7, <1>9, <1>10, ButOne
<1> QED BY <1>2, <1>4, <1>11 DEF t

\* What a stage of the newest cycle says of the rest of it.
LEMMA StageFacts ==
  ASSUME NEW s, Good(s), NEW c \in Cycles, c = s.mandate.cycles, s.cycle[c].phase \in Stages
  PROVE  /\ GoodBut(s, c) /\ s.campaign[c] = NoCampaign /\ Untouched(s.candidate[c])
         /\ Earlier(s.work.stage, s.cycle[c].phase)
         /\ s.work.stage[s.cycle[c].phase].status # "absent"
         /\ s.work \in Work
<1>1. NewestGood(s, c) BY NoZero, ButOne
<1> QED BY <1>1, ButOne DEF NewestGood, Good, GoodBut, Shape

\* The automatic successor of a failed stage, or attention.
LEMMA StageFailedGood ==
  ASSUME NEW s, Good(s), NEW c \in Cycles, c = s.mandate.cycles, NEW k \in Stages,
         s.cycle[c].phase = k
  PROVE  Good(StageFailed(s, c, k))
<1> DEFINE w == [s.work EXCEPT !.stage[k].failed = TRUE, !.stage[k].resumed = FALSE]
           t == [s EXCEPT !.work = w]
           u == NewTask(t, c, k)
<1>0. s.work \in Work /\ Shape(s) BY StageFacts DEF Good, GoodBut
<1>1. /\ w \in Work /\ w.retries = s.work.retries
      /\ \A j \in Stages : w.stage[j].status = s.work.stage[j].status
                           /\ w.stage[j].valid = s.work.stage[j].valid
  <2> DEFINE row == [s.work.stage[k] EXCEPT !.failed = TRUE, !.resumed = FALSE]
             g == [s.work.stage EXCEPT ![k] = row]
  <2>1. s.work.stage \in [Stages -> StageRow] BY <1>0 DEF Work
  <2>2. /\ row \in StageRow /\ row.status = s.work.stage[k].status
        /\ row.valid = s.work.stage[k].valid
    BY <2>1 DEF StageRow
  <2>3. w = [s.work EXCEPT !.stage = g] BY <1>0, <2>1 DEF Work
  <2> HIDE DEF row, w
  <2>4. /\ g \in [Stages -> StageRow]
        /\ \A j \in Stages : g[j].status = s.work.stage[j].status
                             /\ g[j].valid = s.work.stage[j].valid
    BY <2>1, <2>2
  <2> HIDE DEF g
  <2> QED BY <1>0, <2>3, <2>4 DEF Work
<1>2. t = [s EXCEPT !.work.stage[k].failed = TRUE, !.work.stage[k].resumed = FALSE]
  <2> DEFINE a == [s.work EXCEPT !.stage[k].failed = TRUE]
             p == [s EXCEPT !.work = a]
             b == [a EXCEPT !.stage[k].resumed = FALSE]
  <2>1. p.work = a BY <1>0 DEF Shape, Columns
  <2> HIDE DEF a
  <2>2. [p EXCEPT !.work = b] = [s EXCEPT !.work = b] BY <1>0 DEF Shape, Columns
  <2>3. [p EXCEPT !.work.stage[k].resumed = FALSE] = [p EXCEPT !.work = b]
    BY <2>1
  <2>4. w = b BY DEF a
  <2> QED BY <2>2, <2>3, <2>4 DEF a
<1> HIDE DEF w
<1>3. Good(t) /\ t.work = w BY <1>1, WorkGood
<1>4. t.mandate = s.mandate /\ t.cycle = s.cycle BY <1>0 DEF Shape, Columns
<1> HIDE DEF t
<1>5. ASSUME s.work.retries < AutoRetries PROVE Good([u EXCEPT !.work.retries = @ + 1])
  <2>1. Good(u) /\ u.work.retries = s.work.retries
    BY <1>1, <1>3, <1>4, StageFacts, NewTaskGood
  <2> HIDE DEF u
  <2>2. u.work \in Work BY <2>1 DEF Good, GoodBut, Shape
  <2> DEFINE v == [u.work EXCEPT !.retries = @ + 1]
  <2>3. v \in Work /\ v.stage = u.work.stage
    <3>1. u.work.retries + 1 \in 0..AutoRetries
      BY <1>5, <2>1, <2>2, DiscoveryAssumption DEF Work
    <3> QED BY <2>2, <3>1 DEF Work
  <2>4. [u EXCEPT !.work.retries = @ + 1] = [u EXCEPT !.work = v] OBVIOUS
  <2> HIDE DEF v
  <2> QED BY <2>1, <2>3, <2>4, WorkGood
<1>6. Good([t EXCEPT !.cycle[c].status = "needs_attention", !.work.action = "repair"])
  BY <1>3, <1>4, StopGood
<1> QED BY <1>2, <1>5, <1>6 DEF StageFailed, u

\* The automatic successor of an invalid representation, or attention.
LEMMA StageInvalidGood ==
  ASSUME NEW s, Good(s), NEW c \in Cycles, c = s.mandate.cycles, NEW k \in Stages,
         s.cycle[c].phase = k
  PROVE  Good(StageInvalid(s, c, k))
<1> DEFINE u == NewTask(s, c, k)
<1>1. ASSUME s.work.corrections < AutoCorrections PROVE Good([u EXCEPT !.work.corrections = @ + 1])
  <2>1. Good(u) /\ u.work.corrections = s.work.corrections
    BY StageFacts, NewTaskGood
  <2> HIDE DEF u
  <2>2. u.work \in Work BY <2>1 DEF Good, GoodBut, Shape
  <2> DEFINE v == [u.work EXCEPT !.corrections = @ + 1]
  <2>3. v \in Work /\ v.stage = u.work.stage
    <3>1. u.work.corrections + 1 \in 0..AutoCorrections
      BY <1>1, <2>1, <2>2, DiscoveryAssumption DEF Work
    <3> QED BY <2>2, <3>1 DEF Work
  <2>4. [u EXCEPT !.work.corrections = @ + 1] = [u EXCEPT !.work = v] OBVIOUS
  <2> HIDE DEF v
  <2> QED BY <2>1, <2>3, <2>4, WorkGood
<1>2. Good([s EXCEPT !.cycle[c].status = "needs_attention", !.work.action = "review"])
  BY StopGood
<1> QED BY <1>1, <1>2 DEF StageInvalid

-----------------------------------------------------------------------------
(* Candidates and campaigns.                                               *)

\* What a cycle must bring to its portfolio step.
Complete(s, c) ==
  /\ GoodBut(s, c) /\ c <= s.mandate.cycles /\ Founded(s, c)
  /\ c = s.mandate.cycles => AllSettled(s.work.stage)

\* Writing status, phase and possibly a campaign of cycle c ends a change.
LEMMA PhaseGood ==
  ASSUME NEW s, NEW c \in Cycles, Complete(s, c), NEW t, Columns(t),
         t.mandate = s.mandate, t.work = s.work, t.candidate = s.candidate, t.debit = s.debit,
         t.campaign = [d \in Cycles |-> t.campaign[d]],
         t.campaign[c] = [status |-> t.campaign[c].status, trials |-> t.campaign[c].trials,
                          budget |-> t.campaign[c].budget],
         \A d \in Cycles \ {c} : t.campaign[d] = s.campaign[d],
         NEW x \in CycleStatuses, NEW y \in Phases \ Stages,
         t.cycle = [s.cycle EXCEPT ![c].status = x, ![c].phase = y],
         x \in {"running", "awaiting_data_admission", "rejected"},
         t.campaign[c] = NoCampaign => x # "running",
         t.campaign[c] # NoCampaign =>
           x = "running" /\ t.campaign[c].status # "none" /\ Grounded(s.candidate[c]),
         x = "awaiting_data_admission" => c = s.mandate.cycles,
         x # "awaiting_data_admission" => \A i \in Candidates : ~Pending(s.candidate[c][i])
  PROVE  Good(t)
<1>1. Shape(s) BY DEF Complete, GoodBut
<1>2. s.cycle \in [Cycles -> CycleRow] BY <1>1 DEF Shape
<1>3. /\ t.cycle \in [Cycles -> CycleRow] /\ t.cycle[c].status = x /\ t.cycle[c].phase = y
      /\ \A d \in Cycles \ {c} : t.cycle[d] = s.cycle[d]
  BY <1>2, PhaseSet
<1>4. Shape(t)
  <2>1. \A d \in Cycles : t.campaign[d] = [status |-> t.campaign[d].status,
                            trials |-> t.campaign[d].trials, budget |-> t.campaign[d].budget]
    BY <1>1 DEF Shape
  <2> QED BY <1>1, <1>3, <2>1 DEF Shape
<1>5. GoodBut(t, c) BY <1>3, <1>4, OthersKept DEF Complete
<1>6. c <= t.mandate.cycles /\ (x = "awaiting_data_admission" => ~(c < t.mandate.cycles))
  BY NoZero DEF Complete
<1>7. Founded(t, c) BY DEF Complete, Founded
<1>8. CycleGood(t, c) BY <1>3, <1>6, <1>7 DEF CycleGood, TerminalCycle
<1>9. c = t.mandate.cycles => NewestGood(t, c)
  BY <1>3 DEF Complete, NewestGood
<1> QED BY <1>5, <1>6, <1>8, <1>9, ButOne

\* _portfolio_and_campaign
LEMMA PortfolioGood ==
  ASSUME NEW s, NEW c \in Cycles, Complete(s, c),
         \A i \in Candidates : ~Pending(s.candidate[c][i]), NEW t \in Portfolio(s, c)
  PROVE  Good(t)
<1> DEFINE accepted == {i \in Candidates : s.candidate[c][i].verdict = "accepted"}
           budget == Min({MaxTrials - s.mandate.trials, Cardinality(accepted) * Variants})
           row == [status |-> "running", trials |-> 0, budget |-> budget]
           a == [s EXCEPT !.cycle[c].status = "rejected", !.cycle[c].phase = "complete"]
           b == [s EXCEPT !.campaign[c] = row,
                          !.cycle[c].status = "running", !.cycle[c].phase = "campaign"]
<1>1. \/ accepted = {} /\ t = a
      \/ accepted # {} /\ s.campaign[c] = NoCampaign /\ t = b
  BY DEF Portfolio, Refused
<1> HIDE DEF budget
<1>2. Shape(s) BY DEF Complete, GoodBut
<1>3. /\ "rejected" \in CycleStatuses /\ "running" \in CycleStatuses
      /\ "complete" \in Phases \ Stages /\ "campaign" \in Phases \ Stages
  BY DEF CycleStatuses, TerminalCycle, Phases, Stages
<1>4. Grounded(s.candidate[c]) <=> accepted # {} BY DEF Grounded
<1> HIDE DEF accepted
<1>5. CASE accepted = {} /\ t = a
  <2>1. s.campaign[c] = NoCampaign BY <1>4, <1>5 DEF Complete, Founded
  <2>2. /\ t.mandate = s.mandate /\ t.work = s.work /\ t.candidate = s.candidate
        /\ t.debit = s.debit /\ t.campaign = s.campaign /\ Columns(t)
        /\ t.cycle = [s.cycle EXCEPT ![c].status = "rejected", ![c].phase = "complete"]
    BY <1>2, <1>5 DEF Shape, Columns
  <2> HIDE DEF a, b
  <2>3. /\ t.campaign = [d \in Cycles |-> t.campaign[d]]
        /\ t.campaign[c] = [status |-> t.campaign[c].status, trials |-> t.campaign[c].trials,
                            budget |-> t.campaign[c].budget]
    BY <1>2, <2>2 DEF Shape
  <2> QED BY <1>3, <2>1, <2>2, <2>3, PhaseGood
<1>6. CASE accepted # {} /\ s.campaign[c] = NoCampaign /\ t = b
  <2>1. /\ t.mandate = s.mandate /\ t.work = s.work /\ t.candidate = s.candidate
        /\ t.debit = s.debit /\ Columns(t)
        /\ t.campaign = [s.campaign EXCEPT ![c] = row]
        /\ t.cycle = [s.cycle EXCEPT ![c].status = "running", ![c].phase = "campaign"]
    BY <1>2, <1>6 DEF Shape, Columns
  <2> HIDE DEF a, b
  <2>2. s.campaign = [d \in Cycles |-> s.campaign[d]] BY <1>2 DEF Shape
  <2>3. row # NoCampaign /\ row.status = "running"
    BY DEF NoCampaign
  <2>4. row = [status |-> row.status, trials |-> row.trials, budget |-> row.budget] OBVIOUS
  <2> HIDE DEF row
  <2>5. /\ t.campaign = [d \in Cycles |-> t.campaign[d]] /\ t.campaign[c] = row
        /\ \A d \in Cycles \ {c} : t.campaign[d] = s.campaign[d]
    BY <2>1, <2>2
  <2> QED BY <1>3, <1>4, <1>6, <2>1, <2>3, <2>4, <2>5, PhaseGood
<1> QED BY <1>1, <1>5, <1>6

\* One candidate in _reconcile_data_admissions.
LEMMA AdmittedRow ==
  ASSUME NEW r \in CandidateRow
  PROVE  /\ Admitted(r) \in CandidateRow
         /\ r.verdict = "accepted" => Admitted(r) = r
         /\ Admitted(r).verdict = "accepted" => Admitted(r) = r \/ Admitted(r).admission = "admitted"
         /\ Pending(Admitted(r)) =>
              Pending(r) /\ Admitted(r) = r /\ r.task \notin {"failed", "short", "complete"}
<1>1. CASE r.verdict # "awaiting" \/ r.admission \in {"admitted", "failed"}
  <2>1. Admitted(r) = r BY <1>1 DEF Admitted
  <2>2. ~Pending(r) BY <1>1 DEF Pending
  <2> QED BY <2>1, <2>2
<1>2. CASE ~(r.verdict # "awaiting" \/ r.admission \in {"admitted", "failed"})
  <2>1. CASE r.task = "failed"
    <3>1. Admitted(r) = [r EXCEPT !.admission = "failed"] BY <1>2, <2>1 DEF Admitted
    <3> QED BY <1>2, <3>1 DEF Pending, CandidateRow
  <2>2. CASE r.task = "short"
    <3>1. Admitted(r) = [r EXCEPT !.admission = "failed", !.verdict = "rejected"]
      BY <1>2, <2>2 DEF Admitted
    <3> QED BY <1>2, <3>1 DEF Pending, CandidateRow
  <2>3. CASE r.task = "complete"
    <3>1. Admitted(r) = [r EXCEPT !.admission = "admitted", !.verdict = "accepted"]
      BY <1>2, <2>3 DEF Admitted
    <3> QED BY <1>2, <3>1 DEF Pending, CandidateRow
  <2>4. CASE r.task \notin {"failed", "short", "complete"}
    <3>1. Admitted(r) = r BY <1>2, <2>4 DEF Admitted
    <3> QED BY <1>2, <2>4, <3>1 DEF Pending
  <2> QED BY <2>1, <2>2, <2>3, <2>4
<1> QED BY <1>1, <1>2

\* Writing the candidates of cycle c, and whether they are all duplicates.
LEMMA CandidatesComplete ==
  ASSUME NEW s, NEW c \in Cycles, Complete(s, c), NEW t, Columns(t),
         t.mandate = s.mandate, t.cycle = s.cycle, t.campaign = s.campaign, t.debit = s.debit,
         t.work \in Work, t.work.stage = s.work.stage,
         t.candidate \in [Cycles -> [Candidates -> CandidateRow]],
         \A d \in Cycles \ {c} : t.candidate[d] = s.candidate[d],
         Backed(t.candidate[c]), s.campaign[c] # NoCampaign => Grounded(t.candidate[c])
  PROVE  Complete(t, c)
<1>1. Shape(s) BY DEF Complete, GoodBut
<1>2. Shape(t) BY <1>1 DEF Shape
<1>3. GoodBut(t, c) BY <1>2, OthersKept DEF Complete
<1> QED BY <1>3 DEF Complete, Founded

\* _reconcile_data_admissions: of the newest cycle that waits for data, or of a cycle none
\* of whose open admissions is still at work.
LEMMA AdmissionsGood ==
  ASSUME NEW s, NEW c \in Cycles, Complete(s, c), NEW t \in ReconcileAdmissions(s, c),
         \/ /\ c = s.mandate.cycles /\ s.campaign[c] = NoCampaign
            /\ s.cycle[c].status = "awaiting_data_admission" /\ s.cycle[c].phase \notin Stages
         \/ \A i \in Candidates : Pending(s.candidate[c][i]) =>
              s.candidate[c][i].task \in {"complete", "short", "changed"}
  PROVE  Good(t)
<1> DEFINE old == s.candidate[c]
           rows == [i \in Candidates |-> Admitted(old[i])]
           open == {i \in Candidates : rows[i].verdict = "awaiting" /\ rows[i].admission = "open"}
           u == [s EXCEPT !.candidate[c] = rows]
<1>1. Shape(s) BY DEF Complete, GoodBut
<1>2. old \in [Candidates -> CandidateRow] BY <1>1 DEF Shape
<1>3. /\ \A i \in open : rows[i].task # "changed"
      /\ \/ open # {} /\ t = u
         \/ open = {} /\ t \in Portfolio(u, c)
  BY DEF ReconcileAdmissions, Refused
<1>4. /\ u.mandate = s.mandate /\ u.work = s.work /\ u.cycle = s.cycle
      /\ u.debit = s.debit /\ u.campaign = s.campaign /\ Columns(u)
      /\ u.candidate = [s.candidate EXCEPT ![c] = rows]
  BY <1>1 DEF Shape, Columns
<1>5. \A i \in Candidates :
        /\ rows[i] \in CandidateRow
        /\ old[i].verdict = "accepted" => rows[i] = old[i]
        /\ rows[i].verdict = "accepted" => rows[i] = old[i] \/ rows[i].admission = "admitted"
        /\ Pending(rows[i]) =>
             Pending(old[i]) /\ rows[i] = old[i] /\ old[i].task \notin {"failed", "short", "complete"}
  BY <1>2, AdmittedRow
<1>6. rows \in [Candidates -> CandidateRow] BY <1>5
<1>7. open \subseteq Candidates /\ \A i \in Candidates : i \in open <=> Pending(rows[i])
  BY DEF Pending
<1> HIDE DEF rows, open, u
<1>8. Backed(rows) /\ (Grounded(old) => Grounded(rows))
  BY <1>5 DEF Complete, Founded, Backed, Grounded
<1>9. u.work \in Work BY <1>1, <1>4 DEF Shape
<1>10. s.campaign[c] # NoCampaign => Grounded(rows)
  BY <1>8 DEF Complete, Founded
<1>11. Complete(u, c) /\ u.candidate[c] = rows
  <2>1. /\ u.candidate \in [Cycles -> [Candidates -> CandidateRow]] /\ u.candidate[c] = rows
        /\ \A d \in Cycles \ {c} : u.candidate[d] = s.candidate[d]
    BY <1>1, <1>4, <1>6 DEF Shape
  <2>2. u.work.stage = s.work.stage BY <1>4
  <2> QED BY <1>4, <1>8, <1>9, <1>10, <2>1, <2>2, CandidatesComplete
<1>12. CASE open = {} /\ t \in Portfolio(u, c)
  BY <1>7, <1>11, <1>12, PortfolioGood
<1>13. CASE open # {} /\ t = u
  <2>1. PICK i \in Candidates : Pending(rows[i]) /\ rows[i].task # "changed"
    BY <1>3, <1>7, <1>13
  <2>2. Pending(old[i]) /\ old[i].task \notin {"complete", "short", "changed"}
    BY <1>5, <2>1
  <2>3. /\ c = s.mandate.cycles /\ s.campaign[c] = NoCampaign
        /\ s.cycle[c].status = "awaiting_data_admission" /\ s.cycle[c].phase \notin Stages
    BY <2>2
  <2>4. c <= u.mandate.cycles /\ ~(c < u.mandate.cycles) BY <1>4, <2>3, NoZero
  <2>5. CycleGood(u, c)
    BY <1>4, <1>11, <2>3, <2>4 DEF CycleGood, Complete
  <2>6. NewestGood(u, c)
    BY <1>4, <1>11, <2>3 DEF NewestGood, Complete
  <2> QED BY <1>11, <1>13, <2>4, <2>5, <2>6, ButOne DEF Complete
<1> QED BY <1>3, <1>12, <1>13

\* _materialize_candidates after a valid representation.
LEMMA JudgedGood ==
  ASSUME NEW s, Good(s), NEW c \in Cycles, c = s.mandate.cycles,
         s.cycle[c].phase = "representation", Settled(s.work.stage["representation"]),
         NEW verdict \in Verdicts, NEW t \in Judged(s, c, verdict)
  PROVE  Good(t)
<1> DEFINE rows == [i \in Candidates |->
             CASE verdict[i] = "awaiting" -> NewAdmission
               [] verdict[i] = "duplicate" -> [NoCandidate EXCEPT !.verdict = "rejected"]
               [] OTHER -> [NoCandidate EXCEPT !.verdict = verdict[i]]]
           all == \A i \in Candidates : verdict[i] = "duplicate"
           u == [s EXCEPT !.candidate[c] = rows, !.work.duplicates = all]
           v == [u EXCEPT !.cycle[c].status = "awaiting_data_admission",
                          !.cycle[c].phase = "data_admission"]
<1>1. Shape(s) BY DEF Good, GoodBut
<1>2. \/ (\E i \in Candidates : verdict[i] = "awaiting") /\ t = v
      \/ (\A i \in Candidates : verdict[i] # "awaiting") /\ t \in Portfolio(u, c)
  BY DEF Judged
<1>3. \A i \in Candidates :
        /\ rows[i] \in CandidateRow
        /\ rows[i].verdict = "accepted" => rows[i].task = "none"
        /\ verdict[i] # "awaiting" => ~Pending(rows[i])
  <2> SUFFICES ASSUME NEW i \in Candidates
               PROVE  /\ rows[i] \in CandidateRow
                      /\ rows[i].verdict = "accepted" => rows[i].task = "none"
                      /\ verdict[i] # "awaiting" => ~Pending(rows[i])
    OBVIOUS
  <2>1. verdict[i] \in {"accepted", "awaiting", "rejected", "duplicate"} BY DEF Verdicts
  <2>2. CASE verdict[i] = "awaiting"
    <3>1. rows[i] = [verdict |-> "awaiting", admission |-> "open", task |-> "live"]
      BY <2>2 DEF NewAdmission
    <3> QED BY <2>2, <3>1 DEF CandidateRow
  <2>3. CASE verdict[i] = "duplicate"
    <3>1. rows[i] = [NoCandidate EXCEPT !.verdict = "rejected"] BY <2>3
    <3> QED BY <3>1 DEF CandidateRow, NoCandidate, Pending
  <2>4. CASE verdict[i] \in {"accepted", "rejected"}
    <3>1. rows[i] = [NoCandidate EXCEPT !.verdict = verdict[i]] BY <2>4
    <3> QED BY <2>4, <3>1 DEF CandidateRow, NoCandidate, Pending
  <2> QED BY <2>1, <2>2, <2>3, <2>4
<1>4. rows \in [Candidates -> CandidateRow] /\ Backed(rows) BY <1>3 DEF Backed
<1>5. all \in BOOLEAN OBVIOUS
<1> HIDE DEF rows, all
<1>6. /\ u.mandate = s.mandate /\ u.cycle = s.cycle
      /\ u.debit = s.debit /\ u.campaign = s.campaign /\ Columns(u)
      /\ u.candidate = [s.candidate EXCEPT ![c] = rows]
      /\ u.work = [s.work EXCEPT !.duplicates = all]
  BY <1>1 DEF Shape, Columns
<1> HIDE DEF u
<1>7. u.work \in Work /\ u.work.stage = s.work.stage
  <2>1. ASSUME NEW w \in Work, NEW b \in BOOLEAN
        PROVE  [w EXCEPT !.duplicates = b] \in Work /\ [w EXCEPT !.duplicates = b].stage = w.stage
    BY DEF Work
  <2>2. s.work \in Work BY <1>1 DEF Shape
  <2> QED BY <1>5, <1>6, <2>1, <2>2
<1>8. "representation" \in Stages /\ c <= s.mandate.cycles BY NoZero DEF Stages
<1>9. s.campaign[c] = NoCampaign /\ Complete(s, c)
  <2>1. /\ GoodBut(s, c) /\ s.campaign[c] = NoCampaign
        /\ Earlier(s.work.stage, "representation")
    BY <1>8, StageFacts
  <2>2. AllSettled(s.work.stage) BY <2>1 DEF AllSettled, Earlier, Stages
  <2>3. CycleGood(s, c) BY <1>8, ButOne
  <2> QED BY <1>8, <2>1, <2>2, <2>3 DEF Complete, CycleGood
<1>10. Complete(u, c) /\ u.candidate[c] = rows
  <2>1. /\ u.candidate \in [Cycles -> [Candidates -> CandidateRow]] /\ u.candidate[c] = rows
        /\ \A d \in Cycles \ {c} : u.candidate[d] = s.candidate[d]
    BY <1>1, <1>4, <1>6 DEF Shape
  <2> QED BY <1>4, <1>6, <1>7, <1>9, <2>1, CandidatesComplete
<1>11. CASE (\A i \in Candidates : verdict[i] # "awaiting") /\ t \in Portfolio(u, c)
  BY <1>3, <1>10, <1>11, PortfolioGood
<1>12. CASE t = v
  <2>1. Shape(u) BY <1>10 DEF Complete, GoodBut
  <2>2. /\ t.mandate = u.mandate /\ t.work = u.work /\ t.candidate = u.candidate
        /\ t.debit = u.debit /\ t.campaign = u.campaign /\ Columns(t)
        /\ t.cycle = [u.cycle EXCEPT ![c].status = "awaiting_data_admission",
                                     ![c].phase = "data_admission"]
    BY <1>12, <2>1 DEF Shape, Columns
  <2> HIDE DEF v
  <2>3. /\ t.campaign = [d \in Cycles |-> t.campaign[d]]
        /\ t.campaign[c] = [status |-> t.campaign[c].status, trials |-> t.campaign[c].trials,
                            budget |-> t.campaign[c].budget]
    BY <2>1, <2>2 DEF Shape
  <2>4. "awaiting_data_admission" \in CycleStatuses /\ "data_admission" \in Phases \ Stages
    BY DEF CycleStatuses, Phases, Stages
  <2>5. c = u.mandate.cycles /\ t.campaign[c] = NoCampaign BY <1>6, <1>9, <2>2
  <2>6. Complete(u, c) /\ \A d \in Cycles \ {c} : t.campaign[d] = u.campaign[d] BY <1>10, <2>2
  <2> QED BY <2>2, <2>3, <2>4, <2>5, <2>6, PhaseGood
<1> QED BY <1>2, <1>11, <1>12

\* The stage task of the phase decides.
LEMMA AdvanceGood ==
  ASSUME NEW s, Good(s), NEW c \in Cycles, c = s.mandate.cycles, s.cycle[c].phase \in Stages,
         NEW t \in AdvanceStage(s, c)
  PROVE  Good(t)
<1> DEFINE k == s.cycle[c].phase
           row == s.work.stage[k]
<1>1. /\ GoodBut(s, c) /\ s.campaign[c] = NoCampaign /\ Untouched(s.candidate[c])
      /\ Earlier(s.work.stage, k) /\ row.status # "absent" /\ s.work \in Work
  BY StageFacts
<1>2. row \in StageRow BY <1>1 DEF Work
<1>3. row.status \in {"live", "failed", "succeeded"} /\ row.valid \in BOOLEAN
  BY <1>1, <1>2 DEF StageRow
<1>4. CASE row.status = "live" BY <1>4 DEF AdvanceStage
<1>5. CASE row.status = "failed"
  <2>1. t = StageFailed(s, c, k) BY <1>5 DEF AdvanceStage
  <2> QED BY <2>1, StageFailedGood
<1>6. CASE row.status = "succeeded" /\ ~row.valid
  <2>1. t = StageInvalid(s, c, k) BY <1>6 DEF AdvanceStage
  <2> QED BY <2>1, StageInvalidGood
<1>7. CASE row.status = "succeeded" /\ row.valid
  <2>1. CASE k = "representation"
    <3>1. t \in Materialize(s, c) BY <1>7, <2>1 DEF AdvanceStage
    <3>2. PICK verdict \in Verdicts : t \in Judged(s, c, verdict) BY <3>1 DEF Materialize
    <3> QED BY <1>7, <2>1, <3>2, JudgedGood DEF Settled
  <2>2. CASE k # "representation"
    <3>1. t = NewTask(s, c, NextStage[k]) BY <1>7, <2>2 DEF AdvanceStage
    <3>2. NextStage[k] \in Stages /\ Earlier(s.work.stage, NextStage[k])
      <4>1. CASE k = "intelligence"
        BY <1>7, <4>1 DEF NextStage, Stages, Earlier, Settled
      <4>2. CASE k = "hypothesis"
        BY <1>1, <1>7, <4>2 DEF NextStage, Stages, Earlier, Settled
      <4> QED BY <2>2, <4>1, <4>2 DEF Stages
    <3> QED BY <1>1, <3>1, <3>2, NewTaskGood
  <2> QED BY <2>1, <2>2
<1> QED BY <1>3, <1>4, <1>5, <1>6, <1>7

-----------------------------------------------------------------------------
(* reconcile_mandate.                                                      *)

\* A change that is good cycle by cycle.
LEMMA PointwiseGood ==
  ASSUME NEW s, Good(s), NEW t, Shape(t),
         t.mandate.cycles = s.mandate.cycles, t.work = s.work,
         \A c \in Cycles :
           /\ Unborn(s, c) => Unborn(t, c)
           /\ CycleGood(s, c) => CycleGood(t, c)
           /\ (CycleGood(s, c) /\ NewestGood(s, c) /\ c = s.mandate.cycles) => NewestGood(t, c)
  PROVE  Good(t)
<1> SUFFICES ASSUME NEW c \in Cycles
             PROVE  /\ c > s.mandate.cycles => Unborn(t, c)
                    /\ c <= s.mandate.cycles => CycleGood(t, c)
                    /\ c = s.mandate.cycles => NewestGood(t, c)
  BY DEF Good, GoodBut
<1>1. c = s.mandate.cycles => c <= s.mandate.cycles BY NoZero
<1> QED BY <1>1, ButOne

\* _recover_resumed_stage leaves the newest cycle at an end or in a stage.
LEMMA ResumedGood ==
  ASSUME NEW s, Good(s), NEW c \in Cycles, c = s.mandate.cycles,
         s.campaign[c] = NoCampaign \/ s.cycle[c].status \in TerminalCycle,
         s.cycle[c].status # "awaiting_data_admission"
  PROVE  LET t == RecoverResumed(s, c)
         IN  /\ Good(t) /\ t.mandate = s.mandate
             /\ t.cycle[c].status \in TerminalCycle \/ t.cycle[c].phase \in Stages
<1> DEFINE t == RecoverResumed(s, c)
           u == [s EXCEPT !.cycle[c].status = "running", !.work.action = "none"]
<1>1. \/ t = s
      \/ s.cycle[c].phase \in Stages /\ t = u
  BY DEF RecoverResumed
<1> HIDE DEF t
<1>2. CASE s.cycle[c].phase \in Stages /\ t = u
  <2>1. Good(u) BY <1>2, StopGood
  <2>2. u.mandate = s.mandate BY DEF Good, GoodBut, Shape, Columns
  <2>3. u.cycle[c].phase = s.cycle[c].phase BY DEF Good, GoodBut, Shape, Columns, CycleRow
  <2> QED BY <1>2, <2>1, <2>2, <2>3 DEF t
<1>3. CASE t = s
  <2>1. c <= s.mandate.cycles BY NoZero
  <2>2. CycleGood(s, c) /\ NewestGood(s, c) BY <2>1, ButOne
  <2>3. s.cycle[c].status \in CycleStatuses
    BY DEF Good, GoodBut, Shape, CycleRow, CycleStatuses
  <2>4. s.cycle[c].status \in TerminalCycle \/ s.cycle[c].status = "running"
    BY <2>2, <2>3 DEF CycleGood, CycleStatuses
  <2>5. s.cycle[c].status \in TerminalCycle \/ s.cycle[c].phase \in Stages
    BY <2>2, <2>4 DEF NewestGood
  <2> QED BY <1>3, <2>5 DEF t
<1> QED BY <1>1, <1>2, <1>3

\* _retire_superseded_discovery_stalls
LEMMA RetireGood ==
  ASSUME NEW s, Good(s)
  PROVE  Good(RetireStalls(s)) /\ RetireStalls(s).mandate = s.mandate
<1> DEFINE t == RetireStalls(s)
           stale(c) == /\ c < s.mandate.cycles /\ s.campaign[c] = NoCampaign
                       /\ s.cycle[c].status = "needs_attention"
<1>1. Shape(s) BY DEF Good, GoodBut
<1>2. /\ t.mandate = s.mandate /\ t.work = s.work /\ t.candidate = s.candidate
      /\ t.campaign = s.campaign /\ t.debit = s.debit /\ Columns(t)
      /\ t.cycle = [c \in Cycles |->
           IF stale(c) THEN [s.cycle[c] EXCEPT !.status = "rejected", !.phase = "complete"]
                       ELSE s.cycle[c]]
  BY <1>1 DEF RetireStalls, Shape, Columns
<1> HIDE DEF t
<1>3. ASSUME NEW c \in Cycles
      PROVE  /\ t.cycle[c] \in CycleRow
             /\ stale(c) => t.cycle[c].status = "rejected"
             /\ ~stale(c) => t.cycle[c] = s.cycle[c]
  <2>1. s.cycle[c] \in CycleRow BY <1>1 DEF Shape
  <2>2. t.cycle[c] = IF stale(c)
                       THEN [s.cycle[c] EXCEPT !.status = "rejected", !.phase = "complete"]
                       ELSE s.cycle[c]
    BY <1>2
  <2> HIDE DEF stale
  <2> QED BY <2>1, <2>2 DEF CycleRow, TerminalCycle
<1>4. t.cycle \in [Cycles -> CycleRow] BY <1>2, <1>3
<1>5. Shape(t) BY <1>1, <1>2, <1>4 DEF Shape
<1>6. ASSUME NEW c \in Cycles
      PROVE  /\ Unborn(s, c) => Unborn(t, c)
             /\ CycleGood(s, c) => CycleGood(t, c)
             /\ (NewestGood(s, c) /\ c = s.mandate.cycles) => NewestGood(t, c)
  <2>1. CASE ~stale(c)
    BY <1>2, <1>3, <2>1 DEF Unborn, CycleGood, Founded, NewestGood
  <2>2. CASE stale(c)
    <3>1. c # s.mandate.cycles BY <2>2, NoZero
    <3>2. CycleGood(s, c) => CycleGood(t, c)
      BY <1>2, <1>3, <2>2 DEF CycleGood, Founded, TerminalCycle
    <3> QED BY <2>2, <3>1, <3>2 DEF Unborn
  <2> QED BY <2>1, <2>2
<1>7. Good(t) BY <1>2, <1>5, <1>6, PointwiseGood
<1> QED BY <1>2, <1>7 DEF t

\* _reconcile_campaign_cycle on every cycle with a campaign.
LEMMA CampaignCyclesGood ==
  ASSUME NEW s, Good(s)
  PROVE  Good(ReconcileCampaignCycles(s))
<1> DEFINE reconciled(c) ==
             LET row == s.cycle[c]
                 status == s.campaign[c].status
             IN  IF c \in Ended(s)
                   THEN [row EXCEPT !.status = EndOf[status], !.phase = "complete"]
                 ELSE IF status = "needs_attention"
                   THEN [row EXCEPT !.status = "needs_attention", !.phase = "campaign"]
                 ELSE IF status = "running" /\ row.status = "needs_attention"
                   THEN [row EXCEPT !.status = "running", !.phase = "campaign"]
                 ELSE row
           rows == [c \in Cycles |-> reconciled(c)]
           trials == s.mandate.trials + EndedTrials(s)
           status == IF \E c \in Ended(s) : s.campaign[c].status = "shadow_candidate"
                       THEN "paused_for_shadow_review" ELSE s.mandate.status
           debits == [c \in Cycles |-> IF c \in Ended(s) /\ s.debit[c] = <<>>
                                         THEN <<s.campaign[c].trials>> ELSE s.debit[c]]
           a == [s EXCEPT !.mandate.trials = trials]
           b == [a EXCEPT !.mandate.status = status]
           t == [b EXCEPT !.cycle = rows, !.debit = debits]
<1>1. Shape(s) BY DEF Good, GoodBut
<1>2. ReconcileCampaignCycles(s) = t
  BY <1>1 DEF ReconcileCampaignCycles, Shape, Columns
<1> HIDE DEF trials, status
<1>3. Good(b) BY MandateGood
<1>4. /\ b.mandate.cycles = s.mandate.cycles /\ b.work = s.work /\ b.candidate = s.candidate
      /\ b.campaign = s.campaign /\ b.debit = s.debit /\ b.cycle = s.cycle
  BY <1>1 DEF Shape, Columns
<1> HIDE DEF a, b
<1>5. Shape(b) BY <1>3 DEF Good, GoodBut
<1>6. /\ t.mandate = b.mandate /\ t.work = b.work /\ t.candidate = b.candidate
      /\ t.campaign = b.campaign /\ t.cycle = rows /\ t.debit = debits /\ Columns(t)
  BY <1>5 DEF Shape, Columns
<1> HIDE DEF t
<1>7. ASSUME NEW c \in Cycles
      PROVE  /\ rows[c] \in CycleRow
             /\ rows[c] # s.cycle[c] =>
                  /\ s.campaign[c].status # "none"
                  /\ rows[c].status \notin {"absent", "awaiting_data_admission"}
                  /\ rows[c].phase \notin Stages
             /\ (rows[c].status \in {"completed", "rejected", "shadow_candidate"}
                  /\ rows[c] # s.cycle[c]) => debits[c] # <<>>
             /\ s.debit[c] # <<>> => debits[c] # <<>>
  <2>1. s.cycle[c] \in CycleRow BY <1>1 DEF Shape
  <2>2. c \in Ended(s) => /\ s.campaign[c].status # "none"
                          /\ EndOf[s.campaign[c].status] \in {"completed", "rejected", "shadow_candidate"}
    BY DEF Ended, EndOf
  <2>3. debits[c] = IF c \in Ended(s) /\ s.debit[c] = <<>>
                      THEN <<s.campaign[c].trials>> ELSE s.debit[c]
    OBVIOUS
  <2>4. <<s.campaign[c].trials>> # <<>> OBVIOUS
  <2>5. CASE c \in Ended(s)
    <3>1. rows[c] = [s.cycle[c] EXCEPT !.status = EndOf[s.campaign[c].status], !.phase = "complete"]
      BY <2>5
    <3>2. debits[c] # <<>> BY <2>3, <2>4, <2>5
    <3> HIDE DEF rows, debits
    <3> QED BY <2>1, <2>2, <2>5, <3>1, <3>2 DEF CycleRow, Stages, TerminalCycle
  <2>6. CASE c \notin Ended(s)
    <3>1. \/ rows[c] = s.cycle[c]
          \/ /\ s.campaign[c].status # "none"
             /\ \/ rows[c] = [s.cycle[c] EXCEPT !.status = "needs_attention", !.phase = "campaign"]
                \/ rows[c] = [s.cycle[c] EXCEPT !.status = "running", !.phase = "campaign"]
      BY <2>6
    <3>2. debits[c] = s.debit[c] BY <2>6
    <3> HIDE DEF rows, debits
    <3> QED BY <2>1, <3>1, <3>2 DEF CycleRow, Stages, TerminalCycle
  <2> QED BY <2>5, <2>6
<1>8. rows \in [Cycles -> CycleRow] /\ debits = [c \in Cycles |-> debits[c]] BY <1>7
<1> HIDE DEF rows, debits
<1>9. Shape(t) BY <1>5, <1>6, <1>8 DEF Shape
<1>10. ASSUME NEW c \in Cycles
       PROVE  /\ Unborn(s, c) => Unborn(t, c)
              /\ CycleGood(s, c) => CycleGood(t, c)
              /\ (NewestGood(s, c) /\ CycleGood(s, c)) => NewestGood(t, c)
  <2>1. NoCampaign.status = "none" BY DEF NoCampaign
  <2>2. CASE rows[c] = s.cycle[c]
    BY <1>4, <1>6, <1>7, <2>2 DEF Unborn, CycleGood, Founded, NewestGood
  <2>3. CASE rows[c] # s.cycle[c]
    <3>1. s.campaign[c] # NoCampaign BY <1>7, <2>1, <2>3
    <3>2. ~Unborn(s, c) BY <3>1 DEF Unborn
    <3>3. CycleGood(s, c) => CycleGood(t, c)
      BY <1>4, <1>6, <1>7, <2>3, <3>1 DEF CycleGood, Founded
    <3>4. NewestGood(s, c) => NewestGood(t, c)
      BY <1>4, <1>6, <1>7, <2>3, <3>1 DEF NewestGood
    <3> QED BY <3>2, <3>3, <3>4
  <2> QED BY <2>2, <2>3
<1>11. Good(t) BY <1>4, <1>6, <1>9, <1>10, PointwiseGood
<1> QED BY <1>2, <1>11

\* A new cycle within the budget.
LEMMA RenewedGood ==
  ASSUME NEW s, Good(s), NEW c \in Cycles, c = s.mandate.cycles, ~Exhausted(s),
         s.campaign[c] # NoCampaign \/ s.cycle[c].status \in TerminalCycle
  PROVE  Good(NewCycle(s))
<1>1. s.mandate.cycles \in Nat BY NoZero
<1>2. s.mandate.cycles < MaxCycles BY <1>1, NoZero DEF Exhausted
<1> QED BY <1>2, NewCycleGood

\* What the director does with the newest cycle.
LEMMA DirectCycleGood ==
  ASSUME NEW s, Good(s), NEW c \in Cycles, c = s.mandate.cycles, NEW t \in DirectCycle(s, c)
  PROVE  Good(t)
<1>1. CASE s.campaign[c] # NoCampaign /\ s.cycle[c].status \notin TerminalCycle
  <2>1. t = ReplenishAlongside(s) BY <1>1 DEF DirectCycle
  <2>2. t = s \/ (~Exhausted(s) /\ t = NewCycle(s)) BY <2>1 DEF ReplenishAlongside
  <2> QED BY <1>1, <2>2, RenewedGood
<1>2. CASE /\ ~(s.campaign[c] # NoCampaign /\ s.cycle[c].status \notin TerminalCycle)
           /\ s.cycle[c].status = "awaiting_data_admission"
  <2>1. t \in ReconcileAdmissions(s, c) BY <1>2 DEF DirectCycle
  <2>2. c <= s.mandate.cycles BY NoZero
  <2>3. GoodBut(s, c) /\ CycleGood(s, c) /\ NewestGood(s, c) BY <2>2, ButOne
  <2>4. s.campaign[c] = NoCampaign /\ s.cycle[c].phase \notin Stages
    BY <1>2, <2>3 DEF CycleGood, NewestGood
  <2>5. AllSettled(s.work.stage) BY <2>3, <2>4 DEF NewestGood
  <2>6. Complete(s, c) BY <2>2, <2>3, <2>5 DEF Complete, CycleGood
  <2> QED BY <1>2, <2>1, <2>4, <2>6, AdmissionsGood
<1>3. CASE /\ ~(s.campaign[c] # NoCampaign /\ s.cycle[c].status \notin TerminalCycle)
           /\ s.cycle[c].status # "awaiting_data_admission"
  <2> DEFINE u == RecoverResumed(s, c)
  <2>1. t \in DirectStage(u, c) BY <1>3 DEF DirectCycle, Then
  <2>2. /\ Good(u) /\ u.mandate = s.mandate
        /\ u.cycle[c].status \in TerminalCycle \/ u.cycle[c].phase \in Stages
    BY <1>3, ResumedGood
  <2> HIDE DEF u
  <2>3. CASE u.cycle[c].status \in TerminalCycle
    <3>1. t \in Replenish(u, c) BY <2>1, <2>3 DEF DirectStage
    <3>2. \/ t = [u EXCEPT !.mandate.status = "completed"]
          \/ t = u
          \/ ~Exhausted(u) /\ t = NewCycle(u)
      BY <3>1 DEF Replenish
    <3>3. Good([u EXCEPT !.mandate.status = "completed"]) BY <2>2, MandateGood
    <3>4. ~Exhausted(u) => Good(NewCycle(u)) BY <2>2, <2>3, RenewedGood
    <3> QED BY <2>2, <3>2, <3>3, <3>4
  <2>4. CASE u.cycle[c].status \notin TerminalCycle
    <3>1. t \in AdvanceStage(u, c) BY <2>1, <2>4 DEF DirectStage
    <3> QED BY <2>2, <2>4, <3>1, AdvanceGood
  <2> QED BY <2>3, <2>4
<1> QED BY <1>1, <1>2, <1>3

LEMMA DirectNewestGood ==
  ASSUME NEW s, Good(s), NEW t \in DirectNewest(s)
  PROVE  Good(t)
<1> DEFINE n == s.mandate.cycles
           u == RetireStalls(s)
<1>1. \/ t = s
      \/ n = 0 /\ t = NewCycle(s)
      \/ n # 0 /\ t \in DirectCycle(u, n)
  BY DEF DirectNewest, Then
<1>2. n \in 0..MaxCycles BY DEF Good, GoodBut, Shape
<1>3. CASE n = 0 /\ t = NewCycle(s)
  <2>1. n < MaxCycles BY <1>3, DiscoveryAssumption
  <2> QED BY <1>3, <2>1, NewCycleGood
<1>4. CASE n # 0 /\ t \in DirectCycle(u, n)
  <2>1. n \in Cycles BY <1>2, <1>4, NoZero DEF Cycles
  <2>2. Good(u) /\ u.mandate = s.mandate BY RetireGood
  <2> QED BY <1>4, <2>1, <2>2, DirectCycleGood
<1> QED BY <1>1, <1>3, <1>4

\* reconcile_mandate
LEMMA ReconciledGood ==
  ASSUME NEW s, Good(s), NEW t \in Reconciled(s)
  PROVE  Good(t)
<1>1. \/ t = s
      \/ t = [s EXCEPT !.mandate.status = "expired"]
      \/ t \in DirectNewest(ReconcileCampaignCycles(s))
  BY DEF Reconciled, Then
<1>2. Good([s EXCEPT !.mandate.status = "expired"]) BY MandateGood
<1>3. t \in DirectNewest(ReconcileCampaignCycles(s)) => Good(t)
  BY CampaignCyclesGood, DirectNewestGood
<1> QED BY <1>1, <1>2, <1>3

-----------------------------------------------------------------------------
(* Workers, operators and campaigns.                                       *)

\* The end or the resumption of a stage task: its stage was not settled.
LEMMA StageSetGood ==
  ASSUME NEW s, Good(s), NEW k \in Stages, NEW row \in StageRow, row.status # "absent",
         ~Settled(s.work.stage[k]), NEW t, t = [s EXCEPT !.work.stage[k] = row]
  PROVE  Good(t)
<1>1. Shape(s) BY DEF Good, GoodBut
<1>2. /\ t.cycle = s.cycle /\ t.candidate = s.candidate /\ t.campaign = s.campaign
      /\ t.debit = s.debit /\ t.mandate = s.mandate
      /\ t.work = [s.work EXCEPT !.stage[k] = row]
      /\ Columns(t)
  BY <1>1 DEF Shape, Columns
<1>3. s.work \in Work /\ s.work.stage \in [Stages -> StageRow] BY <1>1 DEF Shape, Work
<1>4. t.work \in Work /\ t.work.stage = [s.work.stage EXCEPT ![k] = row]
  <2> DEFINE g == [s.work.stage EXCEPT ![k] = row]
  <2>1. g \in [Stages -> StageRow] BY <1>3
  <2>2. t.work = [s.work EXCEPT !.stage = g] BY <1>2
  <2> HIDE DEF g
  <2>3. t.work \in Work /\ t.work.stage = g BY <1>3, <2>1, <2>2 DEF Work
  <2> QED BY <2>3 DEF g
<1>5. t.work.stage[k] = row /\ \A j \in Stages \ {k} : t.work.stage[j] = s.work.stage[j]
  BY <1>3, <1>4
<1>6. Shape(t) BY <1>1, <1>2, <1>4 DEF Shape
<1>7. \A j \in Stages : Settled(s.work.stage[j]) => Settled(t.work.stage[j])
  BY <1>5
<1>8. \A j \in Stages : Earlier(s.work.stage, j) => Earlier(t.work.stage, j)
  BY <1>7 DEF Earlier, Stages
<1>9. AllSettled(s.work.stage) => AllSettled(t.work.stage) BY <1>7 DEF AllSettled
<1>10. \A j \in Stages : s.work.stage[j].status # "absent" => t.work.stage[j].status # "absent"
  BY <1>5
<1>11. ASSUME NEW c \in Cycles
       PROVE  /\ Unborn(s, c) => Unborn(t, c)
              /\ CycleGood(s, c) => CycleGood(t, c)
              /\ NewestGood(s, c) => NewestGood(t, c)
  <2>1. /\ Unborn(s, c) => Unborn(t, c)
        /\ CycleGood(s, c) => CycleGood(t, c)
    BY <1>2 DEF Unborn, CycleGood, Founded
  <2>2. NewestGood(s, c) => NewestGood(t, c)
    BY <1>2, <1>8, <1>9, <1>10 DEF NewestGood
  <2> QED BY <2>1, <2>2
<1> QED BY <1>2, <1>6, <1>11 DEF Good, GoodBut

\* Writing the candidates of a cycle.
LEMMA CandidatesSet ==
  ASSUME NEW f \in [Cycles -> [Candidates -> CandidateRow]], NEW c \in Cycles,
         NEW rows \in [Candidates -> CandidateRow], NEW g, g = [f EXCEPT ![c] = rows]
  PROVE  /\ g \in [Cycles -> [Candidates -> CandidateRow]] /\ g[c] = rows
         /\ \A d \in Cycles \ {c} : g[d] = f[d]
OBVIOUS

\* The end or the resumption of an admission task.
LEMMA TaskSetGood ==
  ASSUME NEW s, Good(s), NEW c \in Cycles, NEW i \in Candidates,
         s.candidate[c][i].task # "none",
         NEW r \in {"live", "complete", "short", "changed", "failed"}
  PROVE  Good([s EXCEPT !.candidate[c][i].task = r])
<1> DEFINE t == [s EXCEPT !.candidate[c][i].task = r]
           old == s.candidate[c]
           row == [old[i] EXCEPT !.task = r]
           rows == [old EXCEPT ![i] = row]
<1>1. Shape(s) BY DEF Good, GoodBut
<1>2. /\ t.cycle = s.cycle /\ t.work = s.work /\ t.campaign = s.campaign
      /\ t.debit = s.debit /\ t.mandate = s.mandate
      /\ t.candidate = [s.candidate EXCEPT ![c] = rows]
      /\ Columns(t)
  BY <1>1 DEF Shape, Columns
<1> HIDE DEF t
<1>3. old \in [Candidates -> CandidateRow] /\ old[i] \in CandidateRow BY <1>1 DEF Shape
<1>4. /\ row \in CandidateRow /\ row.verdict = old[i].verdict /\ row.admission = old[i].admission
  BY <1>3 DEF CandidateRow
<1> HIDE DEF row
<1>5. /\ rows \in [Candidates -> CandidateRow]
      /\ \A j \in Candidates : /\ rows[j].verdict = old[j].verdict
                               /\ rows[j].admission = old[j].admission
                               /\ rows[j] = old[j] \/ j = i
  BY <1>3, <1>4
<1> HIDE DEF rows
<1>6. /\ t.candidate \in [Cycles -> [Candidates -> CandidateRow]] /\ t.candidate[c] = rows
      /\ \A d \in Cycles \ {c} : t.candidate[d] = s.candidate[d]
  <2>1. s.candidate \in [Cycles -> [Candidates -> CandidateRow]] BY <1>1 DEF Shape
  <2>2. rows \in [Candidates -> CandidateRow] BY <1>5
  <2>3. t.candidate = [s.candidate EXCEPT ![c] = rows] BY <1>2
  <2> QED BY <2>1, <2>2, <2>3, CandidatesSet
<1>7. Shape(t) BY <1>1, <1>2, <1>6 DEF Shape
<1>8. ~Untouched(old) BY DEF Untouched, NoCandidate
<1>9. (Backed(old) => Backed(rows)) /\ (Grounded(old) => Grounded(rows))
  <2>1. ASSUME Backed(old), NEW j \in Candidates, rows[j].verdict = "accepted"
        PROVE  rows[j].task = "none" \/ rows[j].admission = "admitted"
    BY <1>5, <2>1 DEF Backed
  <2>2. Backed(old) => Backed(rows) BY <2>1 DEF Backed
  <2>3. Grounded(old) => Grounded(rows) BY <1>5 DEF Grounded
  <2> QED BY <2>2, <2>3
<1>10. \A j \in Candidates : Pending(rows[j]) <=> Pending(old[j]) BY <1>5 DEF Pending
<1>11. ASSUME NEW d \in Cycles
       PROVE  /\ Unborn(s, d) => Unborn(t, d)
              /\ CycleGood(s, d) => CycleGood(t, d)
              /\ NewestGood(s, d) => NewestGood(t, d)
  <2>1. CASE d = c
    <3>1. ~Unborn(s, d) BY <1>8, <2>1 DEF Unborn
    <3>2. CycleGood(s, d) => CycleGood(t, d)
      BY <1>2, <1>6, <1>9, <1>10, <2>1 DEF CycleGood, Founded
    <3>3. NewestGood(s, d) => NewestGood(t, d)
      BY <1>2, <1>8, <2>1 DEF NewestGood
    <3> QED BY <3>1, <3>2, <3>3
  <2>2. CASE d # c
    BY <1>2, <1>6, <2>2 DEF Unborn, CycleGood, Founded, NewestGood
  <2> QED BY <2>1, <2>2
<1>12. Good(t) BY <1>2, <1>7, <1>11, PointwiseGood
<1> QED BY <1>12 DEF t

\* Writing the status and the trials of a campaign.
LEMMA CampaignRow ==
  ASSUME NEW a, NEW b, NEW d, NEW x, NEW y, NEW r,
         r = [status |-> a, trials |-> b, budget |-> d]
  PROVE  [r EXCEPT !.status = x, !.trials = y] = [status |-> x, trials |-> y, budget |-> d]
<1> DEFINE p == [r EXCEPT !.status = x]
<1>1. p = [status |-> x, trials |-> b, budget |-> d] OBVIOUS
<1> HIDE DEF p
<1>2. [p EXCEPT !.trials = y] = [status |-> x, trials |-> y, budget |-> d] BY <1>1
<1> QED BY <1>2 DEF p

\* A campaign that moves stays a campaign.
LEMMA CampaignSetGood ==
  ASSUME NEW s, Good(s), NEW c \in Cycles, s.campaign[c] # NoCampaign,
         NEW status, status # "none", NEW trials,
         NEW f, f = [s.campaign EXCEPT ![c].status = status, ![c].trials = trials]
  PROVE  Good([s EXCEPT !.campaign = f])
<1> DEFINE t == [s EXCEPT !.campaign = f]
           row == [s.campaign[c] EXCEPT !.status = status, !.trials = trials]
<1>1. Shape(s) BY DEF Good, GoodBut
<1>2. s.campaign = [d \in Cycles |-> s.campaign[d]] BY <1>1 DEF Shape
<1>3. /\ t.cycle = s.cycle /\ t.work = s.work /\ t.candidate = s.candidate
      /\ t.debit = s.debit /\ t.mandate = s.mandate
      /\ t.campaign = f /\ Columns(t)
  BY <1>1 DEF Shape, Columns
<1> HIDE DEF t
<1>4. s.campaign[c] = [status |-> s.campaign[c].status, trials |-> s.campaign[c].trials,
                       budget |-> s.campaign[c].budget]
  BY <1>1 DEF Shape
<1>5. /\ row = [status |-> row.status, trials |-> row.trials, budget |-> row.budget]
      /\ row.status = status /\ row # NoCampaign
  <2> DEFINE old == s.campaign[c]
             x == old.status
             y == old.trials
             z == old.budget
  <2>1. old = [status |-> x, trials |-> y, budget |-> z] BY <1>4
  <2> HIDE DEF x, y, z
  <2>2. row = [old EXCEPT !.status = status, !.trials = trials] OBVIOUS
  <2> HIDE DEF old, row
  <2>3. row = [status |-> status, trials |-> trials, budget |-> z]
    BY <2>1, <2>2, CampaignRow
  <2>4. NoCampaign.status = "none" BY DEF NoCampaign
  <2> QED BY <2>3, <2>4
<1>6. t.campaign = [s.campaign EXCEPT ![c] = row] BY <1>2, <1>3
<1> HIDE DEF row
<1>7. /\ t.campaign[c] = row /\ t.campaign = [d \in Cycles |-> t.campaign[d]]
      /\ \A d \in Cycles \ {c} : t.campaign[d] = s.campaign[d]
  BY <1>2, <1>6
<1>8. Shape(t)
  <2>1. \A d \in Cycles : t.campaign[d] = [status |-> t.campaign[d].status,
                            trials |-> t.campaign[d].trials, budget |-> t.campaign[d].budget]
    BY <1>1, <1>5, <1>7 DEF Shape
  <2> QED BY <1>1, <1>3, <1>7, <2>1 DEF Shape
<1>9. ASSUME NEW d \in Cycles
      PROVE  /\ Unborn(s, d) => Unborn(t, d)
             /\ CycleGood(s, d) => CycleGood(t, d)
             /\ NewestGood(s, d) => NewestGood(t, d)
  <2>1. CASE d = c
    BY <1>3, <1>5, <1>7, <2>1 DEF Unborn, CycleGood, Founded, NewestGood
  <2>2. CASE d # c
    BY <1>3, <1>7, <2>2 DEF Unborn, CycleGood, Founded, NewestGood
  <2> QED BY <2>1, <2>2
<1>10. Good(t) BY <1>3, <1>8, <1>9, PointwiseGood
<1> QED BY <1>10 DEF t

\* recover_data_admission: a failed admission of a rejected cycle is judged again.
LEMMA RevivedGood ==
  ASSUME NEW s, Good(s), NEW c \in Cycles, NEW i \in Candidates,
         s.cycle[c].status = "rejected", s.candidate[c][i].admission = "failed",
         s.candidate[c][i].task \in {"complete", "short", "changed"},
         NEW t \in ReconcileAdmissions([s EXCEPT !.candidate[c][i].admission = "open",
                                                 !.candidate[c][i].verdict = "awaiting",
                                                 !.cycle[c].status = "awaiting_data_admission",
                                                 !.cycle[c].phase = "data_admission"], c)
  PROVE  Good(t)
<1> DEFINE old == s.candidate[c]
           row == [old[i] EXCEPT !.admission = "open", !.verdict = "awaiting"]
           rows == [old EXCEPT ![i] = row]
           u == [s EXCEPT !.candidate[c][i].admission = "open",
                          !.candidate[c][i].verdict = "awaiting",
                          !.cycle[c].status = "awaiting_data_admission",
                          !.cycle[c].phase = "data_admission"]
<1>1. Shape(s) BY DEF Good, GoodBut
<1>2. /\ s.candidate \in [Cycles -> [Candidates -> CandidateRow]]
      /\ old \in [Candidates -> CandidateRow] /\ old[i] \in CandidateRow
      /\ s.cycle \in [Cycles -> CycleRow]
  BY <1>1 DEF Shape
<1>3. /\ u.mandate = s.mandate /\ u.work = s.work /\ u.campaign = s.campaign /\ u.debit = s.debit
      /\ u.cycle = [s.cycle EXCEPT ![c].status = "awaiting_data_admission",
                                   ![c].phase = "data_admission"]
      /\ Columns(u)
  BY <1>1 DEF Shape, Columns
<1>4. u.candidate = [s.candidate EXCEPT ![c][i].admission = "open", ![c][i].verdict = "awaiting"]
  BY <1>1 DEF Shape, Columns
<1>5. t \in ReconcileAdmissions(u, c) OBVIOUS
<1> HIDE DEF u
<1>6. u.candidate = [s.candidate EXCEPT ![c] = rows] BY <1>2, <1>4
<1>7. row \in CandidateRow /\ row.verdict = "awaiting" /\ row.task = old[i].task
  BY <1>2 DEF CandidateRow
<1> HIDE DEF row
<1>8. rows \in [Candidates -> CandidateRow] /\ rows[i] = row
      /\ \A j \in Candidates \ {i} : rows[j] = old[j]
  BY <1>2, <1>7
<1> HIDE DEF rows
<1>9. /\ u.candidate \in [Cycles -> [Candidates -> CandidateRow]] /\ u.candidate[c] = rows
      /\ \A d \in Cycles \ {c} : u.candidate[d] = s.candidate[d]
  BY <1>2, <1>6, <1>8, CandidatesSet
<1>10. /\ u.cycle \in [Cycles -> CycleRow] /\ u.cycle[c].status = "awaiting_data_admission"
       /\ u.cycle[c].phase = "data_admission"
       /\ \A d \in Cycles \ {c} : u.cycle[d] = s.cycle[d]
  <2>1. "awaiting_data_admission" \in CycleStatuses /\ "data_admission" \in Phases
    BY DEF CycleStatuses, Phases
  <2>2. u.cycle = [s.cycle EXCEPT ![c].status = "awaiting_data_admission",
                                  ![c].phase = "data_admission"]
    BY <1>3
  <2>3. s.cycle \in [Cycles -> CycleRow] BY <1>2
  <2> QED BY <2>1, <2>2, <2>3, PhaseSet
<1>11. c <= s.mandate.cycles
  <2>1. ~(c > s.mandate.cycles) BY ButOne DEF Unborn
  <2>2. c \in Nat /\ s.mandate.cycles \in Nat BY <1>1, NoZero DEF Shape
  <2> QED BY <2>1, <2>2
<1>12. CycleGood(s, c) /\ GoodBut(s, c) /\ (c = s.mandate.cycles => NewestGood(s, c))
  BY <1>11, ButOne
<1>13. Shape(u) BY <1>1, <1>3, <1>9, <1>10 DEF Shape
<1>14. GoodBut(u, c)
  BY <1>3, <1>9, <1>10, <1>12, <1>13, OthersKept
<1>15. old[i].verdict # "accepted"
  BY <1>12 DEF CycleGood, Founded, Backed
<1>16. Founded(u, c)
  <2>1. Backed(rows)
    BY <1>7, <1>8, <1>12 DEF CycleGood, Founded, Backed
  <2>2. Grounded(old) => Grounded(rows) BY <1>8, <1>15 DEF Grounded
  <2> QED BY <1>3, <1>9, <1>12, <2>1, <2>2 DEF CycleGood, Founded
<1>17. c = s.mandate.cycles => AllSettled(s.work.stage)
  <2>1. ~Untouched(old) BY DEF Untouched, NoCandidate
  <2> QED BY <1>12, <2>1 DEF NewestGood
<1>18. Complete(u, c) BY <1>3, <1>11, <1>14, <1>16, <1>17 DEF Complete
<1>19. \A j \in Candidates : Pending(u.candidate[c][j]) =>
         u.candidate[c][j].task \in {"complete", "short", "changed"}
  <2>1. \A j \in Candidates : ~Pending(old[j]) BY <1>12 DEF CycleGood
  <2> QED BY <1>7, <1>8, <1>9, <2>1
<1> QED BY <1>5, <1>18, <1>19, AdmissionsGood

-----------------------------------------------------------------------------
(* The counters.                                                           *)

MandateStatuses == {"awaiting_approval", "active", "expired", "completed",
                    "paused_for_shadow_review", "superseded"}

\* A view with its columns and those of the mandate row.
Wide(s) ==
  /\ Columns(s)
  /\ s.mandate = [status |-> s.mandate.status, cycles |-> s.mandate.cycles,
                  trials |-> s.mandate.trials]

BudgetsHeld(campaigns) ==
  \A c \in Cycles : campaigns[c] # NoCampaign =>
    campaigns[c].budget \in 1..MaxTrials /\ campaigns[c].trials \in 0..campaigns[c].budget
Debited(debits) ==
  \A c \in Cycles : debits[c] = <<>> \/ debits[c][1] \in 0..MaxTrials

\* The counter is at least what the terminal events add up to.
Counted(s) ==
  /\ Wide(s) /\ s.mandate.status \in MandateStatuses
  /\ BudgetsHeld(s.campaign) /\ Debited(s.debit)
  /\ s.mandate.trials \in Nat /\ s.mandate.trials >= Ledger(s.debit)

\* t has the counter, the campaigns and the events of s.
Kept(s, t) ==
  /\ Wide(t)
  /\ s.mandate.status \in MandateStatuses => t.mandate.status \in MandateStatuses
  /\ t.mandate.trials = s.mandate.trials /\ t.campaign = s.campaign /\ t.debit = s.debit

LEMMA KeptCounted ==
  ASSUME NEW s, NEW t, Counted(s), Kept(s, t)
  PROVE  Counted(t)
BY DEF Counted, Kept

LEMMA KeptTwice ==
  ASSUME NEW s, NEW t, NEW u, Kept(s, t), Kept(t, u)
  PROVE  Kept(s, u)
BY DEF Kept

LEMMA StatusKept ==
  ASSUME NEW s, Wide(s), NEW x \in MandateStatuses
  PROVE  Kept(s, [s EXCEPT !.mandate.status = x])
BY DEF Kept, Wide, Columns

LEMMA NewTaskKept ==
  ASSUME NEW s, Wide(s), NEW c, NEW k
  PROVE  Kept(s, NewTask(s, c, k))
BY DEF Kept, Wide, Columns, NewTask

LEMMA NewCycleKept ==
  ASSUME NEW s, Wide(s)
  PROVE  Kept(s, NewCycle(s))
<1> DEFINE c == s.mandate.cycles + 1
           t == [s EXCEPT !.work = NoWork, !.mandate.cycles = c]
<1> HIDE DEF c
<1>1. Kept(s, t) BY DEF Kept, Wide, Columns
<1>2. Wide(t) BY <1>1 DEF Kept
<1>3. NewCycle(s) = NewTask(t, c, "intelligence") BY DEF NewCycle, c
<1> HIDE DEF t
<1> QED BY <1>1, <1>2, <1>3, NewTaskKept, KeptTwice

LEMMA StageFailedKept ==
  ASSUME NEW s, Wide(s), NEW c, NEW k
  PROVE  Kept(s, StageFailed(s, c, k))
<1> DEFINE t == [s EXCEPT !.work.stage[k].failed = TRUE, !.work.stage[k].resumed = FALSE]
           u == NewTask(t, c, k)
<1>1. Kept(s, t) BY DEF Kept, Wide, Columns
<1>2. \/ StageFailed(s, c, k) = [u EXCEPT !.work.retries = @ + 1]
      \/ StageFailed(s, c, k) = [t EXCEPT !.cycle[c].status = "needs_attention",
                                          !.work.action = "repair"]
  BY DEF StageFailed
<1>3. Wide(t) BY <1>1 DEF Kept
<1> HIDE DEF t
<1>4. Kept(t, u) /\ Wide(u) BY <1>3, NewTaskKept DEF Kept
<1> HIDE DEF u
<1>5. Kept(u, [u EXCEPT !.work.retries = @ + 1]) BY <1>4 DEF Kept, Wide, Columns
<1>6. Kept(t, [t EXCEPT !.cycle[c].status = "needs_attention", !.work.action = "repair"])
  BY <1>3 DEF Kept, Wide, Columns
<1> QED BY <1>1, <1>2, <1>4, <1>5, <1>6, KeptTwice

LEMMA StageInvalidKept ==
  ASSUME NEW s, Wide(s), NEW c, NEW k
  PROVE  Kept(s, StageInvalid(s, c, k))
<1> DEFINE u == NewTask(s, c, k)
<1>1. \/ StageInvalid(s, c, k) = [u EXCEPT !.work.corrections = @ + 1]
      \/ StageInvalid(s, c, k) = [s EXCEPT !.cycle[c].status = "needs_attention",
                                           !.work.action = "review"]
  BY DEF StageInvalid
<1>2. Kept(s, u) /\ Wide(u) BY NewTaskKept DEF Kept
<1> HIDE DEF u
<1>3. Kept(u, [u EXCEPT !.work.corrections = @ + 1]) BY <1>2 DEF Kept, Wide, Columns
<1>4. Kept(s, [s EXCEPT !.cycle[c].status = "needs_attention", !.work.action = "review"])
  BY DEF Kept, Wide, Columns
<1> QED BY <1>1, <1>2, <1>3, <1>4, KeptTwice

LEMMA ResumedKept ==
  ASSUME NEW s, Wide(s), NEW c
  PROVE  Kept(s, RecoverResumed(s, c)) /\ Kept(s, RetireStalls(s))
<1>1. Kept(s, s) BY DEF Kept
<1>2. Kept(s, [s EXCEPT !.cycle[c].status = "running", !.work.action = "none"])
  BY DEF Kept, Wide, Columns
<1>3. Kept(s, RecoverResumed(s, c)) BY <1>1, <1>2 DEF RecoverResumed
<1>4. Kept(s, RetireStalls(s)) BY DEF RetireStalls, Kept, Wide, Columns
<1> QED BY <1>3, <1>4

\* A new campaign gets what is left, at least 1 and never more than the whole budget.
LEMMA PortfolioCounted ==
  ASSUME NEW s, Counted(s), NEW c \in Cycles, NEW t \in Portfolio(s, c)
  PROVE  Counted(t)
<1> DEFINE accepted == {i \in Candidates : s.candidate[c][i].verdict = "accepted"}
           x == MaxTrials - s.mandate.trials
           y == Cardinality(accepted) * Variants
           budget == Min({x, y})
           row == [status |-> "running", trials |-> 0, budget |-> budget]
           a == [s EXCEPT !.cycle[c].status = "rejected", !.cycle[c].phase = "complete"]
           b == [s EXCEPT !.campaign[c] = row,
                          !.cycle[c].status = "running", !.cycle[c].phase = "campaign"]
<1>1. \/ t = a
      \/ ~(budget < 1) /\ s.campaign[c] = NoCampaign /\ t = b
  BY DEF Portfolio, Refused
<1>2. CASE t = a
  <2>1. Kept(s, a) BY DEF Counted, Kept, Wide, Columns
  <2> QED BY <1>2, <2>1, KeptCounted
<1>3. CASE ~(budget < 1) /\ t = b
  <2>1. y \in Int
    <3>1. Cardinality(accepted) \in Nat BY DiscoveryAssumption, FS_Subset, FS_CardinalityType
    <3> HIDE DEF accepted
    <3> QED BY <3>1, DiscoveryAssumption
  <2>2. MaxTrials \in Nat /\ x \in Int /\ x <= MaxTrials BY DiscoveryAssumption DEF Counted
  <2> HIDE DEF x, y
  <2>3. budget \in {x, y} /\ budget <= x
    <3>1. \E z \in {x, y} : \A w \in {x, y} : z <= w BY <2>1, <2>2
    <3> QED BY <3>1 DEF Min
  <2>4. budget \in 1..MaxTrials BY <1>3, <2>1, <2>2, <2>3
  <2> HIDE DEF budget
  <2>5. row.budget \in 1..MaxTrials /\ row.trials \in 0..row.budget BY <2>4
  <2>6. /\ t.mandate = s.mandate /\ t.debit = s.debit /\ Columns(t)
        /\ t.campaign = [s.campaign EXCEPT ![c] = row]
    BY <1>3 DEF Counted, Wide, Columns
  <2> HIDE DEF a, b, row
  <2>7. ASSUME NEW d \in Cycles, t.campaign[d] # NoCampaign
        PROVE  t.campaign[d].budget \in 1..MaxTrials /\ t.campaign[d].trials \in 0..t.campaign[d].budget
    <3>1. t.campaign[d] = s.campaign[d] \/ t.campaign[d] = row BY <2>6
    <3> QED BY <2>5, <2>7, <3>1 DEF Counted, BudgetsHeld
  <2>8. BudgetsHeld(t.campaign) BY <2>7 DEF BudgetsHeld
  <2> QED BY <2>6, <2>8 DEF Counted, Wide
<1> QED BY <1>1, <1>2, <1>3

LEMMA AdmissionsCounted ==
  ASSUME NEW s, Counted(s), NEW c \in Cycles, NEW t \in ReconcileAdmissions(s, c)
  PROVE  Counted(t)
<1> DEFINE rows == [i \in Candidates |-> Admitted(s.candidate[c][i])]
           u == [s EXCEPT !.candidate[c] = rows]
<1>1. t = u \/ t \in Portfolio(u, c) BY DEF ReconcileAdmissions, Refused
<1> HIDE DEF rows
<1>2. Kept(s, u) BY DEF Counted, Kept, Wide, Columns
<1> HIDE DEF u
<1> QED BY <1>1, <1>2, KeptCounted, PortfolioCounted

LEMMA JudgedCounted ==
  ASSUME NEW s, Counted(s), NEW c \in Cycles, NEW t \in Materialize(s, c)
  PROVE  Counted(t)
<1>1. PICK verdict \in Verdicts : t \in Judged(s, c, verdict) BY DEF Materialize
<1> DEFINE rows == [i \in Candidates |->
             CASE verdict[i] = "awaiting" -> NewAdmission
               [] verdict[i] = "duplicate" -> [NoCandidate EXCEPT !.verdict = "rejected"]
               [] OTHER -> [NoCandidate EXCEPT !.verdict = verdict[i]]]
           all == \A i \in Candidates : verdict[i] = "duplicate"
           u == [s EXCEPT !.candidate[c] = rows, !.work.duplicates = all]
           v == [u EXCEPT !.cycle[c].status = "awaiting_data_admission",
                          !.cycle[c].phase = "data_admission"]
<1>2. t = v \/ t \in Portfolio(u, c) BY <1>1 DEF Judged
<1> HIDE DEF rows, all
<1>3. Kept(s, u) BY DEF Counted, Kept, Wide, Columns
<1> HIDE DEF u
<1>4. Kept(u, v) BY <1>3 DEF Kept, Wide, Columns
<1> HIDE DEF v
<1> QED BY <1>2, <1>3, <1>4, KeptCounted, PortfolioCounted

LEMMA AdvanceCounted ==
  ASSUME NEW s, Good(s), Counted(s), NEW c \in Cycles, c = s.mandate.cycles,
         s.cycle[c].phase \in Stages, NEW t \in AdvanceStage(s, c)
  PROVE  Counted(t)
<1> DEFINE k == s.cycle[c].phase
           row == s.work.stage[k]
<1>1. row.status # "absent" /\ s.work \in Work BY StageFacts
<1>2. row \in StageRow BY <1>1 DEF Work
<1>3. row.status \in {"live", "failed", "succeeded"} /\ row.valid \in BOOLEAN
  BY <1>1, <1>2 DEF StageRow
<1>4. Wide(s) BY DEF Counted
<1>5. \/ t = s \/ t = StageFailed(s, c, k) \/ t = StageInvalid(s, c, k)
      \/ t = NewTask(s, c, NextStage[k]) \/ t \in Materialize(s, c)
  BY <1>3 DEF AdvanceStage
<1> HIDE DEF k, row
<1>6. Kept(s, StageFailed(s, c, k)) BY <1>4, StageFailedKept
<1>7. Kept(s, StageInvalid(s, c, k)) BY <1>4, StageInvalidKept
<1>8. Kept(s, NewTask(s, c, NextStage[k])) BY <1>4, NewTaskKept
<1> QED BY <1>5, <1>6, <1>7, <1>8, KeptCounted, JudgedCounted

LEMMA DirectCycleCounted ==
  ASSUME NEW s, Good(s), Counted(s), NEW c \in Cycles, c = s.mandate.cycles,
         NEW t \in DirectCycle(s, c)
  PROVE  Counted(t)
<1>0. Wide(s) BY DEF Counted
<1>1. CASE s.campaign[c] # NoCampaign /\ s.cycle[c].status \notin TerminalCycle
  <2>1. t = ReplenishAlongside(s) BY <1>1 DEF DirectCycle
  <2>2. t = s \/ t = NewCycle(s) BY <2>1 DEF ReplenishAlongside
  <2> QED BY <1>0, <2>2, NewCycleKept, KeptCounted
<1>2. CASE /\ ~(s.campaign[c] # NoCampaign /\ s.cycle[c].status \notin TerminalCycle)
           /\ s.cycle[c].status = "awaiting_data_admission"
  <2>1. t \in ReconcileAdmissions(s, c) BY <1>2 DEF DirectCycle
  <2> QED BY <2>1, AdmissionsCounted
<1>3. CASE /\ ~(s.campaign[c] # NoCampaign /\ s.cycle[c].status \notin TerminalCycle)
           /\ s.cycle[c].status # "awaiting_data_admission"
  <2> DEFINE u == RecoverResumed(s, c)
  <2>1. t \in DirectStage(u, c) BY <1>3 DEF DirectCycle, Then
  <2>2. /\ Good(u) /\ u.mandate = s.mandate
        /\ u.cycle[c].status \in TerminalCycle \/ u.cycle[c].phase \in Stages
    BY <1>3, ResumedGood
  <2>3. Counted(u) /\ Wide(u) BY <1>0, ResumedKept, KeptCounted DEF Kept
  <2> HIDE DEF u
  <2>4. CASE u.cycle[c].status \in TerminalCycle
    <3>1. t \in Replenish(u, c) BY <2>1, <2>4 DEF DirectStage
    <3>2. t = [u EXCEPT !.mandate.status = "completed"] \/ t = u \/ t = NewCycle(u)
      BY <3>1 DEF Replenish
    <3>3. "completed" \in MandateStatuses BY DEF MandateStatuses
    <3> QED BY <2>3, <3>2, <3>3, StatusKept, NewCycleKept, KeptCounted
  <2>5. CASE u.cycle[c].status \notin TerminalCycle
    <3>1. t \in AdvanceStage(u, c) BY <2>1, <2>5 DEF DirectStage
    <3> QED BY <2>2, <2>3, <2>5, <3>1, AdvanceCounted
  <2> QED BY <2>4, <2>5
<1> QED BY <1>1, <1>2, <1>3

LEMMA DirectNewestCounted ==
  ASSUME NEW s, Good(s), Counted(s), NEW t \in DirectNewest(s)
  PROVE  Counted(t)
<1> DEFINE n == s.mandate.cycles
           u == RetireStalls(s)
<1>0. Wide(s) BY DEF Counted
<1>1. \/ t = s
      \/ t = NewCycle(s)
      \/ n # 0 /\ t \in DirectCycle(u, n)
  BY DEF DirectNewest, Then
<1>2. Good(u) /\ u.mandate = s.mandate BY RetireGood
<1>3. Counted(u) BY <1>0, ResumedKept, KeptCounted
<1>4. ASSUME n # 0, t \in DirectCycle(u, n) PROVE Counted(t)
  <2>1. n \in Cycles BY <1>4, NoZero DEF Good, GoodBut, Shape, Cycles
  <2>2. n = u.mandate.cycles BY <1>2
  <2> HIDE DEF u, n
  <2> QED BY <1>2, <1>3, <1>4, <2>1, <2>2, DirectCycleCounted
<1> QED BY <1>0, <1>1, <1>4, NewCycleKept, KeptCounted

\* What an event says of a cycle.
Entry(d) == IF d = <<>> THEN 0 ELSE d[1]

LEMMA LedgerSum ==
  ASSUME NEW debits, Debited(debits)
  PROVE  /\ Ledger(debits) \in Nat
         /\ \A c \in Cycles : Entry(debits[c]) \in 0..MaxTrials
         /\ Ledger(debits) = SumTo([c \in Cycles |-> Entry(debits[c])], MaxCycles)
<1>1. MaxTrials \in Nat /\ MaxCycles \in Nat BY DiscoveryAssumption
<1>2. \A c \in Cycles : Entry(debits[c]) \in 0..MaxTrials BY <1>1 DEF Debited, Entry
<1>3. Ledger(debits) = SumTo([c \in Cycles |-> Entry(debits[c])], MaxCycles) BY DEF Ledger, Entry
<1> DEFINE f == [c \in Cycles |-> Entry(debits[c])]
<1>4. \A i \in 1..MaxCycles : f[i] \in Nat BY <1>1, <1>2 DEF Cycles
<1> HIDE DEF f
<1>5. SumTo(f, MaxCycles) \in Nat BY <1>1, <1>4, SumIsNat
<1> QED BY <1>2, <1>3, <1>5 DEF f

\* The events of the cycles that end now name no more trials than the counter is raised by.
LEMMA CampaignCyclesCounted ==
  ASSUME NEW s, Counted(s)
  PROVE  Counted(ReconcileCampaignCycles(s))
<1> DEFINE t == ReconcileCampaignCycles(s)
           f == [c \in Cycles |-> Entry(t.debit[c])]
           g == [c \in Cycles |-> Entry(s.debit[c])]
           h == [c \in Cycles |-> IF c \in Ended(s) THEN s.campaign[c].trials ELSE 0]
<1>1. /\ t.campaign = s.campaign /\ Wide(t)
      /\ t.mandate.trials = s.mandate.trials + EndedTrials(s)
      /\ t.mandate.status \in {s.mandate.status, "paused_for_shadow_review"}
      /\ \A c \in Cycles : t.debit[c] = IF c \in Ended(s) /\ s.debit[c] = <<>>
                                          THEN <<s.campaign[c].trials>> ELSE s.debit[c]
  BY DEF ReconcileCampaignCycles, Counted, Wide, Columns
<1> HIDE DEF t
<1>2. MaxTrials \in Nat /\ MaxCycles \in Nat BY DiscoveryAssumption
<1>3. ASSUME NEW c \in Cycles, c \in Ended(s) PROVE s.campaign[c].trials \in 0..MaxTrials
  <2>1. s.campaign[c] # NoCampaign BY <1>3 DEF Ended, EndOf, NoCampaign
  <2> QED BY <1>2, <2>1 DEF Counted, BudgetsHeld
<1>4. Debited(t.debit)
  <2> SUFFICES ASSUME NEW c \in Cycles PROVE t.debit[c] = <<>> \/ t.debit[c][1] \in 0..MaxTrials
    BY DEF Debited
  <2>1. <<s.campaign[c].trials>>[1] = s.campaign[c].trials OBVIOUS
  <2> QED BY <1>1, <1>3, <2>1 DEF Counted, Debited
<1>5. /\ Ledger(s.debit) \in Nat /\ Ledger(s.debit) = SumTo(g, MaxCycles)
      /\ \A c \in Cycles : Entry(s.debit[c]) \in Nat
  BY LedgerSum DEF Counted
<1>6. /\ Ledger(t.debit) \in Nat /\ Ledger(t.debit) = SumTo(f, MaxCycles)
      /\ \A c \in Cycles : Entry(t.debit[c]) \in Nat
  BY <1>4, LedgerSum
<1>7. ASSUME NEW c \in 1..MaxCycles
      PROVE  f[c] \in Nat /\ g[c] \in Nat /\ h[c] \in Nat /\ f[c] <= g[c] + h[c]
  <2>0. c \in Cycles BY DEF Cycles
  <2>1. f[c] = Entry(t.debit[c]) /\ g[c] = Entry(s.debit[c]) /\ f[c] \in Nat /\ g[c] \in Nat
    BY <1>5, <1>6, <2>0
  <2>2. CASE c \in Ended(s)
    <3>1. h[c] = s.campaign[c].trials /\ h[c] \in Nat BY <1>2, <1>3, <2>0, <2>2
    <3>2. CASE s.debit[c] = <<>>
      <4>1. t.debit[c] = <<s.campaign[c].trials>> BY <1>1, <2>0, <2>2, <3>2
      <4>2. f[c] = h[c] BY <2>1, <3>1, <4>1 DEF Entry
      <4> QED BY <2>1, <3>1, <4>2
    <3>3. CASE s.debit[c] # <<>>
      <4>1. t.debit[c] = s.debit[c] BY <1>1, <2>0, <3>3
      <4> QED BY <2>1, <3>1, <4>1
    <3> QED BY <3>2, <3>3
  <2>3. CASE c \notin Ended(s)
    <3>1. h[c] = 0 /\ t.debit[c] = s.debit[c] BY <1>1, <2>0, <2>3
    <3> QED BY <2>1, <3>1
  <2> QED BY <2>2, <2>3
<1>8. EndedTrials(s) = SumTo(h, MaxCycles) BY DEF EndedTrials
<1> HIDE DEF f, g, h
<1>9. SumTo(f, MaxCycles) <= SumTo(g, MaxCycles) + SumTo(h, MaxCycles) BY <1>2, <1>7, SumBelow
<1>10. SumTo(h, MaxCycles) \in Nat BY <1>2, <1>7, SumIsNat
<1>11. t.mandate.trials \in Nat /\ t.mandate.trials >= Ledger(t.debit)
  <2>1. s.mandate.trials \in Nat /\ s.mandate.trials >= SumTo(g, MaxCycles) BY <1>5 DEF Counted
  <2> QED BY <1>1, <1>5, <1>6, <1>8, <1>9, <1>10, <2>1
<1>12. t.mandate.status \in MandateStatuses BY <1>1 DEF Counted, MandateStatuses
<1> QED BY <1>1, <1>4, <1>11, <1>12 DEF Counted, t

\* reconcile_mandate
LEMMA ReconciledCounted ==
  ASSUME NEW s, Good(s), Counted(s), NEW t \in Reconciled(s)
  PROVE  Counted(t)
<1>1. \/ t = s
      \/ t = [s EXCEPT !.mandate.status = "expired"]
      \/ t \in DirectNewest(ReconcileCampaignCycles(s))
  BY DEF Reconciled, Then
<1>2. Wide(s) /\ "expired" \in MandateStatuses BY DEF Counted, MandateStatuses
<1>3. Counted([s EXCEPT !.mandate.status = "expired"]) BY <1>2, StatusKept, KeptCounted
<1>4. t \in DirectNewest(ReconcileCampaignCycles(s)) => Counted(t)
  BY CampaignCyclesGood, CampaignCyclesCounted, DirectNewestCounted
<1> QED BY <1>1, <1>3, <1>4

\* reconstruct_mandate_counters
LEMMA RepairedCounted ==
  ASSUME NEW s, Counted(s)
  PROVE  Counted(Repaired(s))
<1> DEFINE t == Repaired(s)
           n == Ledger(s.debit)
<1>1. n \in Nat BY LedgerSum DEF Counted
<1>2. t = [s EXCEPT !.mandate.trials = n] BY DEF Repaired
<1> HIDE DEF n
<1>3. /\ t.campaign = s.campaign /\ t.debit = s.debit /\ t.mandate.trials = n
      /\ t.mandate.status = s.mandate.status /\ Wide(t)
  BY <1>2 DEF Counted, Wide, Columns
<1> HIDE DEF t
<1>4. Counted(t) BY <1>1, <1>3 DEF Counted, n
<1> QED BY <1>4 DEF t

-----------------------------------------------------------------------------
(* The specification.                                                      *)

IInv == Good(View)

LEMMA ViewOf == /\ View.mandate = mandate /\ View.cycle = cycle /\ View.work = work
                /\ View.candidate = candidate /\ View.campaign = campaign /\ View.debit = debit
BY DEF View

\* A transaction commits one of its views.
LEMMA CommitGood ==
  ASSUME NEW views, \A t \in views : Good(t), Commit(views)
  PROVE  IInv'
<1>1. PICK t \in views :
        /\ mandate' = t.mandate /\ cycle' = t.cycle /\ work' = t.work
        /\ candidate' = t.candidate /\ campaign' = t.campaign /\ debit' = t.debit
  BY DEF Commit
<1>2. Good(t) /\ Columns(t) BY DEF Good, GoodBut, Shape
<1>3. t = View' BY <1>1, <1>2 DEF Columns, View
<1> QED BY <1>2, <1>3 DEF IInv

LEMMA InitGood == Init => IInv
<1> SUFFICES ASSUME Init PROVE Good(View) BY DEF IInv
<1>1. Columns(View) BY DEF Columns, View
<1>2. NoWork \in Work
  BY DiscoveryAssumption DEF NoWork, Work, NoStage, StageRow
<1>3. NoCycle \in CycleRow BY DEF NoCycle, CycleRow
<1>4. NoCandidate \in CandidateRow BY DEF NoCandidate, CandidateRow
<1>5. NoCampaign = [status |-> NoCampaign.status, trials |-> NoCampaign.trials,
                    budget |-> NoCampaign.budget]
  BY DEF NoCampaign
<1>6. Shape(View)
  <2>1. View.mandate = [status |-> "awaiting_approval", cycles |-> 0, trials |-> 0]
    BY ViewOf DEF Init
  <2>2. 0 \in 0..MaxCycles BY NoZero
  <2>3. View.cycle \in [Cycles -> CycleRow] BY <1>3, ViewOf DEF Init
  <2>4. View.candidate \in [Cycles -> [Candidates -> CandidateRow]] BY <1>4, ViewOf DEF Init
  <2>5. /\ View.campaign = [c \in Cycles |-> View.campaign[c]]
        /\ \A c \in Cycles : View.campaign[c] = NoCampaign
    BY ViewOf DEF Init
  <2>6. View.debit = [c \in Cycles |-> View.debit[c]] BY ViewOf DEF Init
  <2>7. View.work \in Work BY <1>2, ViewOf DEF Init
  <2> QED BY <1>1, <1>5, <2>1, <2>2, <2>3, <2>4, <2>5, <2>6, <2>7 DEF Shape
<1>7. \A c \in Cycles : c > 0 /\ ~(c <= 0) /\ Unborn(View, c)
  BY NoZero, ViewOf DEF Init, Unborn, Untouched, NoCycle
<1>8. View.mandate.cycles = 0 BY ViewOf DEF Init
<1> QED BY <1>6, <1>7, <1>8 DEF Good, GoodBut

\* The requests and the director.
LEMMA RequestGood ==
  ASSUME IInv, \/ ApproveMandate \/ SupersedeMandate \/ Director \/ ReconcileMandate
               \/ RetryStage \/ RecoverGrounding
               \/ \E c \in Cycles, i \in Candidates : RecoverAdmission(c, i)
  PROVE  IInv'
<1>1. Good(View) BY DEF IInv
<1>2. mandate.cycles \in 0..MaxCycles /\ Shape(View) BY <1>1, ViewOf DEF Good, GoodBut, Shape
<1>3. CASE ApproveMandate \/ SupersedeMandate
  <2>1. \/ Commit({[View EXCEPT !.mandate.status = "active"]})
        \/ Commit({[View EXCEPT !.mandate.status = "superseded"]})
    BY <1>3 DEF ApproveMandate, SupersedeMandate
  <2>2. /\ Good([View EXCEPT !.mandate.status = "active"])
        /\ Good([View EXCEPT !.mandate.status = "superseded"])
    BY <1>1, MandateGood
  <2> QED BY <2>1, <2>2, CommitGood
<1>4. CASE Director
  <2>1. Commit(Reconciled(Repaired(View))) BY <1>4 DEF Director, Then
  <2>2. Good(Repaired(View)) BY <1>1, MandateGood DEF Repaired
  <2>3. \A t \in Reconciled(Repaired(View)) : Good(t) BY <2>2, ReconciledGood
  <2> QED BY <2>1, <2>3, CommitGood
<1>5. CASE ReconcileMandate
  <2>1. \A t \in Reconciled(View) : Good(t) BY <1>1, ReconciledGood
  <2> QED BY <1>5, <2>1, CommitGood DEF ReconcileMandate
<1>6. CASE RetryStage
  <2> DEFINE c == mandate.cycles
             k == cycle[c].phase
  <2>1. c > 0 /\ k \in Stages /\ Commit({NewTask(View, c, k)}) BY <1>6 DEF RetryStage
  <2>2. c \in Cycles BY <1>2, <2>1, NoZero DEF Cycles
  <2>3. c = View.mandate.cycles /\ k = View.cycle[c].phase BY ViewOf
  <2> HIDE DEF c, k
  <2>4. /\ GoodBut(View, c) /\ View.campaign[c] = NoCampaign /\ Untouched(View.candidate[c])
        /\ Earlier(View.work.stage, k)
    BY <1>1, <2>1, <2>2, <2>3, StageFacts
  <2>5. Good(NewTask(View, c, k)) BY <2>1, <2>2, <2>3, <2>4, NewTaskGood
  <2> QED BY <2>1, <2>5, CommitGood
<1>7. CASE RecoverGrounding
  <2> DEFINE c == mandate.cycles
  <2>1. /\ c > 0 /\ cycle[c].status \in {"completed", "rejected", "needs_attention"}
        /\ ~Exhausted(View) /\ Commit({NewCycle(View)})
    BY <1>7 DEF RecoverGrounding
  <2>2. c \in Cycles BY <1>2, <2>1, NoZero DEF Cycles
  <2>3. c = View.mandate.cycles /\ View.cycle[c].status \in TerminalCycle
    BY <2>1, ViewOf DEF TerminalCycle
  <2> HIDE DEF c
  <2>4. Good(NewCycle(View)) BY <1>1, <2>1, <2>2, <2>3, RenewedGood
  <2> QED BY <2>1, <2>4, CommitGood
<1>8. ASSUME NEW c \in Cycles, NEW i \in Candidates, RecoverAdmission(c, i) PROVE IInv'
  <2> DEFINE views == ReconcileAdmissions([View EXCEPT
                        !.candidate[c][i].admission = "open",
                        !.candidate[c][i].verdict = "awaiting",
                        !.cycle[c].status = "awaiting_data_admission",
                        !.cycle[c].phase = "data_admission"], c)
  <2>1. Commit(views) BY <1>8 DEF RecoverAdmission
  <2>2. /\ View.cycle[c].status = "rejected" /\ View.candidate[c][i].admission = "failed"
        /\ View.candidate[c][i].task \in {"complete", "short", "changed"}
    BY <1>8, ViewOf DEF RecoverAdmission
  <2>3. \A t \in views : Good(t) BY <1>1, <2>2, RevivedGood
  <2> HIDE DEF views
  <2> QED BY <2>1, <2>3, CommitGood
<1> QED BY <1>3, <1>4, <1>5, <1>6, <1>7, <1>8

\* Workers, operators, campaigns and the clock.
LEMMA EnvironmentGood ==
  ASSUME IInv, \/ ValidityEnds
               \/ \E k \in Stages : StageEnds(k) \/ ResumeStage(k)
               \/ \E c \in Cycles : \/ CampaignMoves(c)
                                    \/ \E i \in Candidates : AdmissionEnds(c, i) \/ ResumeAdmission(c, i)
  PROVE  IInv'
<1>1. Good(View) /\ Shape(View) BY DEF IInv, Good, GoodBut
<1>2. work.stage \in [Stages -> StageRow] BY <1>1, ViewOf DEF Shape, Work
<1>3. CASE ValidityEnds
  <2>1. View' = View BY <1>3 DEF ValidityEnds, View
  <2> QED BY <1>1, <2>1 DEF IInv
<1>4. ASSUME NEW k \in Stages, StageEnds(k) PROVE IInv'
  <2>1. PICK status \in {"succeeded", "failed"}, valid \in BOOLEAN :
          Commit({[View EXCEPT !.work.stage[k] =
                     [status |-> status, valid |-> valid,
                      failed |-> @.failed /\ ~valid, resumed |-> @.resumed /\ ~valid]]})
    BY <1>4 DEF StageEnds
  <2> DEFINE row == [status |-> status, valid |-> valid,
                     failed |-> View.work.stage[k].failed /\ ~valid,
                     resumed |-> View.work.stage[k].resumed /\ ~valid]
  <2>2. row \in StageRow /\ row.status # "absent" BY DEF StageRow
  <2>3. Commit({[View EXCEPT !.work.stage[k] = row]}) BY <2>1
  <2> HIDE DEF row
  <2>4. ~Settled(View.work.stage[k]) BY <1>4, ViewOf DEF StageEnds, Settled
  <2>5. Good([View EXCEPT !.work.stage[k] = row]) BY <1>1, <2>2, <2>4, StageSetGood
  <2> QED BY <2>3, <2>5, CommitGood
<1>5. ASSUME NEW k \in Stages, ResumeStage(k) PROVE IInv'
  <2> DEFINE old == View.work.stage[k]
             row == [old EXCEPT !.status = "live", !.resumed = work.stage[k].failed]
  <2>1. work.stage[k] = old /\ old \in StageRow BY <1>2, ViewOf
  <2>2. Commit({[View EXCEPT !.work.stage[k].status = "live",
                             !.work.stage[k].resumed = work.stage[k].failed]})
    BY <1>5 DEF ResumeStage
  <2>3. [View EXCEPT !.work.stage[k].status = "live",
                     !.work.stage[k].resumed = work.stage[k].failed]
          = [View EXCEPT !.work.stage[k] = row]
    <3> DEFINE f == work.stage[k].failed
               a == [View.work EXCEPT !.stage[k].status = "live"]
               p == [View EXCEPT !.work = a]
               b == [a EXCEPT !.stage[k].resumed = f]
    <3>1. p.work = a BY <1>1 DEF Shape, Columns
    <3>2. b = [View.work EXCEPT !.stage[k] = row]
      BY <1>1, <2>1 DEF Shape, Work
    <3> HIDE DEF f, a
    <3>3. [p EXCEPT !.work = b] = [View EXCEPT !.work = b] BY <1>1 DEF Shape, Columns
    <3>4. [p EXCEPT !.work.stage[k].resumed = f] = [p EXCEPT !.work = b] BY <3>1
    <3> QED BY <3>2, <3>3, <3>4 DEF a, f
  <2>4. row \in StageRow /\ row.status = "live" BY <2>1 DEF StageRow
  <2> HIDE DEF row
  <2>5. ~Settled(old) BY <1>5, <2>1 DEF ResumeStage, Settled
  <2>6. Good([View EXCEPT !.work.stage[k] = row]) BY <1>1, <2>4, <2>5, StageSetGood
  <2> QED BY <2>2, <2>3, <2>6, CommitGood
<1>6. ASSUME NEW c \in Cycles, NEW i \in Candidates, AdmissionEnds(c, i) \/ ResumeAdmission(c, i)
      PROVE  IInv'
  <2>1. View.candidate[c][i].task # "none"
    BY <1>6, ViewOf DEF AdmissionEnds, ResumeAdmission
  <2>2. PICK r \in {"live", "complete", "short", "changed", "failed"} :
          Commit({[View EXCEPT !.candidate[c][i].task = r]})
    BY <1>6 DEF AdmissionEnds, ResumeAdmission
  <2>3. Good([View EXCEPT !.candidate[c][i].task = r]) BY <1>1, <2>1, TaskSetGood
  <2> QED BY <2>2, <2>3, CommitGood
<1>7. ASSUME NEW c \in Cycles, CampaignMoves(c) PROVE IInv'
  <2>1. PICK status \in Contract(c)!Statuses, trials \in 0..campaign[c].budget :
          campaign' = [campaign EXCEPT ![c].status = status, ![c].trials = trials]
    BY <1>7 DEF CampaignMoves
  <2>2. status # "none" BY <2>1 DEF Contract!Statuses, Contract!Final
  <2>3. View.campaign[c] # NoCampaign BY <1>7, ViewOf DEF CampaignMoves
  <2>4. UNCHANGED <<mandate, lapsed, cycle, work, candidate, debit>> BY <1>7 DEF CampaignMoves
  <2>5. View' = [View EXCEPT !.campaign = campaign'] BY <2>4 DEF View
  <2>6. campaign' = [View.campaign EXCEPT ![c].status = status, ![c].trials = trials]
    BY <2>1, ViewOf
  <2>7. ASSUME NEW f, f = campaign' PROVE Good([View EXCEPT !.campaign = f])
    BY <1>1, <2>2, <2>3, <2>6, <2>7, CampaignSetGood
  <2> QED BY <2>5, <2>7 DEF IInv
<1> QED BY <1>3, <1>4, <1>5, <1>6, <1>7

\* The inductive invariant: every committed view is good.
THEOREM DiscoveryInductive == Spec => []IInv
<1>1. IInv /\ [Next]_vars => IInv'
  <2> SUFFICES ASSUME IInv, [Next]_vars PROVE IInv' OBVIOUS
  <2>1. CASE Next BY <2>1, RequestGood, EnvironmentGood DEF Next
  <2>2. CASE UNCHANGED vars
    <3>1. View' = View BY <2>2 DEF vars, View
    <3> QED BY <3>1 DEF IInv
  <2> QED BY <2>1, <2>2
<1> QED BY InitGood, <1>1, PTL DEF Spec

\* Of all cycles without a campaign only the newest is at work, whatever the director, the
\* retry and recovery routes and the workers do, and in which order: a new cycle only
\* follows one that is at an end, and a revived admission is decided where it is revived.
THEOREM OneAtWork == Spec => []OneCycleInDiscovery
<1>1. IInv => OneCycleInDiscovery
  <2> SUFFICES ASSUME IInv, NEW c \in Cycles, c < mandate.cycles, campaign[c] = NoCampaign
               PROVE  cycle[c].status \in TerminalCycle
    BY DEF OneCycleInDiscovery
  <2>1. c <= mandate.cycles BY NoZero, ViewOf DEF IInv, Good, GoodBut, Shape
  <2>2. CycleGood(View, c) BY <2>1, ViewOf, ButOne DEF IInv
  <2> QED BY <2>2, ViewOf DEF CycleGood
<1> QED BY <1>1, DiscoveryInductive, PTL

\* Every campaign stands on three valid stages, on an accepted candidate, and only on
\* accepted candidates whose data were admitted when they needed it, after any number of
\* failures, retries and revivals.
THEOREM AllGrounded == Spec => []CampaignGrounded
<1>1. IInv => CampaignGrounded
  <2> SUFFICES ASSUME IInv, NEW c \in Cycles, campaign[c] # NoCampaign
               PROVE  /\ c = mandate.cycles =>
                           \A k \in Stages : work.stage[k].status = "succeeded" /\ work.stage[k].valid
                      /\ \E i \in Candidates : candidate[c][i].verdict = "accepted"
                      /\ \A i \in Candidates : candidate[c][i].verdict = "accepted" =>
                           candidate[c][i].task = "none" \/ candidate[c][i].admission = "admitted"
    BY DEF CampaignGrounded
  <2>1. c <= mandate.cycles
    <3>1. ~(c > mandate.cycles) BY ViewOf, ButOne DEF IInv, Unborn
    <3>2. c \in Nat /\ mandate.cycles \in Nat BY NoZero, ViewOf DEF IInv, Good, GoodBut, Shape
    <3> QED BY <3>1, <3>2
  <2>2. CycleGood(View, c) /\ (c = mandate.cycles => NewestGood(View, c))
    BY <2>1, ViewOf, ButOne DEF IInv
  <2>3. Backed(candidate[c]) /\ Grounded(candidate[c])
    BY <2>2, ViewOf DEF CycleGood, Founded
  <2>4. c = mandate.cycles => AllSettled(work.stage)
    BY <2>2, ViewOf DEF NewestGood
  <2> QED BY <2>3, <2>4 DEF Backed, Grounded, AllSettled, Settled
<1> QED BY <1>1, DiscoveryInductive, PTL

-----------------------------------------------------------------------------
(* The counters over the specification.                                    *)

FullInv == /\ IInv /\ Counted(View)
           /\ lapsed \in BOOLEAN /\ reopened \in 0..ReopenBound

LEMMA CommitCounted ==
  ASSUME NEW views, \A t \in views : Counted(t), Commit(views)
  PROVE  Counted(View)' /\ UNCHANGED <<lapsed, reopened>>
<1>1. PICK t \in views :
        /\ mandate' = t.mandate /\ cycle' = t.cycle /\ work' = t.work
        /\ candidate' = t.candidate /\ campaign' = t.campaign /\ debit' = t.debit
        /\ UNCHANGED <<lapsed, reopened>>
  BY DEF Commit
<1>2. Counted(t) /\ Columns(t) BY DEF Counted, Wide
<1>3. t = View' BY <1>1, <1>2 DEF Columns, View
<1> QED BY <1>1, <1>2, <1>3

LEMMA InitCounted == Init => Counted(View)
<1> SUFFICES ASSUME Init PROVE Counted(View) OBVIOUS
<1>1. Columns(View) BY DEF Columns, View
<1>2. View.mandate = [status |-> "awaiting_approval", cycles |-> 0, trials |-> 0]
  BY ViewOf DEF Init
<1>3. Wide(View) /\ View.mandate.status \in MandateStatuses /\ View.mandate.trials = 0
  BY <1>1, <1>2 DEF Wide, MandateStatuses
<1>4. /\ View.debit = [c \in Cycles |-> <<>>] /\ Debited(View.debit)
      /\ BudgetsHeld(View.campaign)
  BY ViewOf DEF Init, Debited, BudgetsHeld
<1>5. Ledger(View.debit) = 0
  <2> DEFINE f == [c \in Cycles |-> Entry(View.debit[c])]
             zero == [c \in Nat |-> 0]
             S == {m \in Nat : m <= MaxCycles => SumTo(f, m) = 0}
  <2>1. MaxCycles \in Nat BY DiscoveryAssumption
  <2>2. \A i \in Cycles : f[i] = 0 BY <1>4 DEF Entry
  <2> HIDE DEF f
  <2>3. 0 \in S BY SumUnfolds
  <2>4. ASSUME NEW m \in S PROVE m + 1 \in S
    <3> SUFFICES ASSUME m + 1 <= MaxCycles PROVE SumTo(f, m + 1) = 0 OBVIOUS
    <3>1. m \in Nat /\ m + 1 \in Cycles /\ SumTo(f, m) = 0 BY <2>1 DEF Cycles
    <3> QED BY <2>2, <3>1, SumUnfolds
  <2>5. S \in SUBSET Nat OBVIOUS
  <2> HIDE DEF S
  <2>6. S = Nat BY <2>3, <2>4, <2>5, Induction
  <2>7. SumTo(f, MaxCycles) = 0 BY <2>1, <2>6 DEF S
  <2> QED BY <1>4, <2>7, LedgerSum DEF f
<1> QED BY <1>3, <1>4, <1>5 DEF Counted

\* The requests and the director.
LEMMA RequestCounted ==
  ASSUME FullInv, \/ ApproveMandate \/ SupersedeMandate \/ Director \/ ReconcileMandate
                  \/ RetryStage \/ RecoverGrounding
                  \/ \E c \in Cycles, i \in Candidates : RecoverAdmission(c, i)
  PROVE  Counted(View)' /\ UNCHANGED <<lapsed, reopened>>
<1>1. Good(View) /\ Counted(View) /\ Wide(View) BY DEF FullInv, IInv, Counted
<1>2. CASE ApproveMandate \/ SupersedeMandate
  <2>1. \/ Commit({[View EXCEPT !.mandate.status = "active"]})
        \/ Commit({[View EXCEPT !.mandate.status = "superseded"]})
    BY <1>2 DEF ApproveMandate, SupersedeMandate
  <2>2. \A x \in MandateStatuses : Counted([View EXCEPT !.mandate.status = x])
    BY <1>1, StatusKept, KeptCounted
  <2>3. "active" \in MandateStatuses /\ "superseded" \in MandateStatuses BY DEF MandateStatuses
  <2> QED BY <2>1, <2>2, <2>3, CommitCounted
<1>3. CASE Director
  <2>1. Commit(Reconciled(Repaired(View))) BY <1>3 DEF Director, Then
  <2>2. Good(Repaired(View)) BY <1>1, MandateGood DEF Repaired
  <2>3. \A t \in Reconciled(Repaired(View)) : Counted(t)
    BY <1>1, <2>2, RepairedCounted, ReconciledCounted
  <2> QED BY <2>1, <2>3, CommitCounted
<1>4. CASE ReconcileMandate
  <2>1. \A t \in Reconciled(View) : Counted(t) BY <1>1, ReconciledCounted
  <2> QED BY <1>4, <2>1, CommitCounted DEF ReconcileMandate
<1>5. CASE RetryStage
  <2>1. PICK c, k : Commit({NewTask(View, c, k)}) BY <1>5 DEF RetryStage
  <2>2. Counted(NewTask(View, c, k)) BY <1>1, NewTaskKept, KeptCounted
  <2> QED BY <2>1, <2>2, CommitCounted
<1>6. CASE RecoverGrounding
  <2>1. Commit({NewCycle(View)}) BY <1>6 DEF RecoverGrounding
  <2>2. Counted(NewCycle(View)) BY <1>1, NewCycleKept, KeptCounted
  <2> QED BY <2>1, <2>2, CommitCounted
<1>7. ASSUME NEW c \in Cycles, NEW i \in Candidates, RecoverAdmission(c, i)
      PROVE  Counted(View)' /\ UNCHANGED <<lapsed, reopened>>
  <2> DEFINE u == [View EXCEPT !.candidate[c][i].admission = "open",
                               !.candidate[c][i].verdict = "awaiting",
                               !.cycle[c].status = "awaiting_data_admission",
                               !.cycle[c].phase = "data_admission"]
  <2>1. Commit(ReconcileAdmissions(u, c)) BY <1>7 DEF RecoverAdmission
  <2>2. Kept(View, u) BY <1>1 DEF Kept, Wide, Columns
  <2> HIDE DEF u
  <2>3. Counted(u) BY <1>1, <2>2, KeptCounted
  <2>4. \A t \in ReconcileAdmissions(u, c) : Counted(t) BY <2>3, AdmissionsCounted
  <2> QED BY <2>1, <2>4, CommitCounted
<1> QED BY <1>2, <1>3, <1>4, <1>5, <1>6, <1>7

\* Workers, operators, campaigns and the clock.
LEMMA EnvironmentCounted ==
  ASSUME FullInv,
         \/ ValidityEnds
         \/ \E k \in Stages : StageEnds(k) \/ ResumeStage(k)
         \/ \E c \in Cycles : \/ CampaignMoves(c)
                              \/ \E i \in Candidates : AdmissionEnds(c, i) \/ ResumeAdmission(c, i)
  PROVE  Counted(View)' /\ lapsed' \in BOOLEAN /\ reopened' \in 0..ReopenBound
<1>1. Counted(View) /\ Wide(View) /\ lapsed \in BOOLEAN /\ reopened \in 0..ReopenBound
  BY DEF FullInv, Counted
<1>2. CASE ValidityEnds
  <2>1. View' = View BY <1>2 DEF ValidityEnds, View
  <2> QED BY <1>1, <1>2, <2>1 DEF ValidityEnds
<1>3. ASSUME NEW k \in Stages, StageEnds(k) \/ ResumeStage(k)
      PROVE  Counted(View)' /\ UNCHANGED <<lapsed, reopened>>
  <2>1. PICK x : Commit({[View EXCEPT !.work = x]})
    <3>1. CASE StageEnds(k)
      <4>1. PICK status \in {"succeeded", "failed"}, valid \in BOOLEAN :
              Commit({[View EXCEPT !.work.stage[k] =
                         [status |-> status, valid |-> valid,
                          failed |-> @.failed /\ ~valid, resumed |-> @.resumed /\ ~valid]]})
        BY <3>1 DEF StageEnds
      <4> QED BY <4>1
    <3>2. CASE ResumeStage(k)
      <4> DEFINE f == work.stage[k].failed
                 a == [View.work EXCEPT !.stage[k].status = "live"]
                 p == [View EXCEPT !.work = a]
                 b == [a EXCEPT !.stage[k].resumed = f]
      <4>1. Commit({[p EXCEPT !.work.stage[k].resumed = f]}) BY <3>2 DEF ResumeStage
      <4>2. p.work = a BY <1>1 DEF Wide, Columns
      <4> HIDE DEF f, a
      <4>3. [p EXCEPT !.work = b] = [View EXCEPT !.work = b] BY <1>1 DEF Wide, Columns
      <4>4. [p EXCEPT !.work.stage[k].resumed = f] = [p EXCEPT !.work = b] BY <4>2
      <4> QED BY <4>1, <4>3, <4>4
    <3> QED BY <1>3, <3>1, <3>2
  <2>2. Kept(View, [View EXCEPT !.work = x]) BY <1>1 DEF Kept, Wide, Columns
  <2>3. Counted([View EXCEPT !.work = x]) BY <1>1, <2>2, KeptCounted
  <2> QED BY <2>1, <2>3, CommitCounted
<1>4. ASSUME NEW c \in Cycles, NEW i \in Candidates, AdmissionEnds(c, i) \/ ResumeAdmission(c, i)
      PROVE  Counted(View)' /\ UNCHANGED <<lapsed, reopened>>
  <2>1. PICK r \in {"live", "complete", "short", "changed", "failed"} :
          Commit({[View EXCEPT !.candidate[c][i].task = r]})
    BY <1>4 DEF AdmissionEnds, ResumeAdmission
  <2>2. Kept(View, [View EXCEPT !.candidate[c][i].task = r]) BY <1>1 DEF Kept, Wide, Columns
  <2>3. Counted([View EXCEPT !.candidate[c][i].task = r]) BY <1>1, <2>2, KeptCounted
  <2> QED BY <2>1, <2>3, CommitCounted
<1>5. ASSUME NEW c \in Cycles, CampaignMoves(c)
      PROVE  Counted(View)' /\ lapsed' \in BOOLEAN /\ reopened' \in 0..ReopenBound
  <2>1. PICK status \in Contract(c)!Statuses, trials \in 0..campaign[c].budget :
          campaign' = [campaign EXCEPT ![c].status = status, ![c].trials = trials]
    BY <1>5 DEF CampaignMoves
  <2>2. campaign[c] # NoCampaign /\ UNCHANGED <<mandate, lapsed, cycle, work, candidate, debit>>
    BY <1>5 DEF CampaignMoves
  <2>3. reopened' \in 0..ReopenBound
    <3>1. reopened' = reopened \/ (reopened < ReopenBound /\ reopened' = reopened + 1)
      BY <1>5 DEF CampaignMoves
    <3> QED BY <1>1, <3>1, DiscoveryAssumption
  <2>4. BudgetsHeld(campaign) BY <1>1, ViewOf DEF Counted
  <2>5. IInv BY DEF FullInv
  <2>6. /\ campaign = [d \in Cycles |-> campaign[d]]
        /\ campaign[c] = [status |-> campaign[c].status, trials |-> campaign[c].trials,
                          budget |-> campaign[c].budget]
    BY <2>5, ViewOf DEF IInv, Good, GoodBut, Shape
  <2>7. ASSUME NEW f, f = campaign' PROVE BudgetsHeld(f)
    <3> DEFINE row == [campaign[c] EXCEPT !.status = status, !.trials = trials]
    <3>1. f = [campaign EXCEPT ![c] = row] BY <2>1, <2>6, <2>7
    <3>2. row.trials = trials /\ row.budget = campaign[c].budget
      <4> DEFINE old == campaign[c]
                 x == old.status
                 y == old.trials
                 z == old.budget
      <4>1. old = [status |-> x, trials |-> y, budget |-> z] BY <2>6
      <4> HIDE DEF x, y, z
      <4>2. row = [old EXCEPT !.status = status, !.trials = trials] OBVIOUS
      <4> HIDE DEF old, row
      <4>3. row = [status |-> status, trials |-> trials, budget |-> z]
        BY <4>1, <4>2, CampaignRow
      <4> QED BY <4>3 DEF z, old
    <3> HIDE DEF row
    <3>3. ASSUME NEW d \in Cycles, f[d] # NoCampaign
          PROVE  f[d].budget \in 1..MaxTrials /\ f[d].trials \in 0..f[d].budget
      <4>1. CASE d = c
        <5>1. f[d] = row BY <2>6, <3>1, <4>1
        <5> QED BY <2>1, <2>2, <2>4, <3>2, <5>1 DEF BudgetsHeld
      <4>2. CASE d # c
        <5>1. f[d] = campaign[d] BY <2>6, <3>1, <4>2
        <5> QED BY <2>4, <3>3, <5>1 DEF BudgetsHeld
      <4> QED BY <4>1, <4>2
    <3> QED BY <3>3 DEF BudgetsHeld
  <2>8. ASSUME NEW t, t = View'
        PROVE  Counted(t)
    <3>1. /\ t.mandate = View.mandate /\ t.debit = View.debit /\ t.campaign = campaign' /\ Columns(t)
      BY <2>2, <2>8 DEF View, Columns
    <3>2. BudgetsHeld(t.campaign) BY <2>7, <3>1
    <3> HIDE <2>8
    <3> QED BY <1>1, <3>1, <3>2 DEF Counted, Wide
  <2>9. Counted(View') BY <2>8
  <2> QED BY <1>1, <2>2, <2>3, <2>9
<1> QED BY <1>1, <1>2, <1>3, <1>4, <1>5

\* The inductive invariant with the counters.
THEOREM CountersInductive == Spec => []FullInv
<1>1. Init => FullInv
  <2>1. Init => lapsed \in BOOLEAN BY Zenon DEF Init
  <2>2. Init => reopened \in 0..ReopenBound
    <3>1. 0 \in 0..ReopenBound BY DiscoveryAssumption
    <3> QED BY <3>1 DEF Init
  <2> QED BY <2>1, <2>2, InitGood, InitCounted DEF FullInv
<1>2. FullInv /\ [Next]_vars => FullInv'
  <2> SUFFICES ASSUME FullInv, [Next]_vars PROVE FullInv' OBVIOUS
  <2>0. IInv /\ lapsed \in BOOLEAN /\ reopened \in 0..ReopenBound BY DEF FullInv
  <2>1. CASE Next
    <3>1. IInv' BY <2>0, <2>1, RequestGood, EnvironmentGood DEF Next
    <3>2. Counted(View)' /\ lapsed' \in BOOLEAN /\ reopened' \in 0..ReopenBound
      BY <2>0, <2>1, RequestCounted, EnvironmentCounted DEF Next
    <3> QED BY <3>1, <3>2 DEF FullInv
  <2>2. CASE UNCHANGED vars
    <3>1. View' = View BY <2>2 DEF vars, View
    <3> QED BY <2>2, <3>1 DEF FullInv, IInv, vars
  <2> QED BY <2>1, <2>2
<1> QED BY <1>1, <1>2, PTL DEF Spec

\* The tables have their types: the rows exist up to cycle_count and no further, a campaign
\* has a budget of at least 1 and at most the mandate's and stays within it.
THEOREM TypeCorrect == Spec => []TypeOK
<1>1. FullInv => TypeOK
  <2> SUFFICES ASSUME FullInv PROVE TypeOK OBVIOUS
  <2>1. Shape(View) /\ Counted(View) BY DEF FullInv, IInv, Good, GoodBut
  <2>2. /\ mandate.status \in MandateStatuses /\ mandate.trials \in Nat
        /\ BudgetsHeld(campaign) /\ Debited(debit)
    BY <2>1, ViewOf DEF Counted
  <2>3. /\ mandate.cycles \in 0..MaxCycles /\ cycle \in [Cycles -> CycleRow] /\ work \in Work
        /\ candidate \in [Cycles -> [Candidates -> CandidateRow]]
    BY <2>1, ViewOf DEF Shape
  <2>4. ASSUME NEW c \in Cycles PROVE (cycle[c].status # "absent") <=> (c <= mandate.cycles)
    <3>1. c \in Nat /\ mandate.cycles \in Nat BY <2>3, NoZero
    <3>2. c > mandate.cycles => cycle[c].status = "absent"
      BY ViewOf, ButOne DEF FullInv, IInv, Unborn
    <3>3. c <= mandate.cycles => cycle[c].status # "absent"
      BY ViewOf, ButOne DEF FullInv, IInv, CycleGood
    <3> QED BY <3>1, <3>2, <3>3
  <2>5. lapsed \in BOOLEAN /\ reopened \in 0..ReopenBound BY DEF FullInv
  <2> QED BY <2>2, <2>3, <2>4, <2>5 DEF TypeOK, MandateStatuses, BudgetsHeld, Debited
<1> QED BY <1>1, CountersInductive, PTL

-----------------------------------------------------------------------------
(* Exactly once, while no campaign is reopened.                            *)

\* The counter is what the terminal events add up to, and an event names what the ended
\* campaign of its cycle used.
Exact(s) ==
  /\ s.mandate.trials = Ledger(s.debit)
  /\ \A c \in Cycles : s.debit[c] # <<>> =>
       /\ s.campaign[c].status \in DOMAIN EndOf
       /\ s.cycle[c].status = EndOf[s.campaign[c].status]
       /\ s.debit[c] = <<s.campaign[c].trials>>

\* A view with its columns and a row for every cycle.
Tabled(s) ==
  /\ Wide(s) /\ s.cycle = [c \in Cycles |-> s.cycle[c]]
  /\ s.campaign = [c \in Cycles |-> s.campaign[c]]

\* t has the counter and the events of s, and its cycles and campaigns but for cycle x.
Apart(s, t, x) ==
  /\ Tabled(t) /\ t.mandate.trials = s.mandate.trials /\ t.debit = s.debit
  /\ \A d \in Cycles \ {x} : t.cycle[d] = s.cycle[d] /\ t.campaign[d] = s.campaign[d]

\* t has the counter and the events of s, and the cycles that have a campaign.
Steady(s, t) ==
  /\ t.mandate.trials = s.mandate.trials /\ t.debit = s.debit
  /\ \A d \in Cycles : s.campaign[d] # NoCampaign =>
       t.cycle[d] = s.cycle[d] /\ t.campaign[d] = s.campaign[d]

LEMMA GoodTabled == ASSUME NEW s, Good(s) PROVE Tabled(s)
BY DEF Good, GoodBut, Shape, Tabled, Wide

LEMMA SteadyExact ==
  ASSUME NEW s, NEW t, Exact(s), Steady(s, t)
  PROVE  Exact(t)
<1>1. \A c \in Cycles : s.campaign[c].status \in DOMAIN EndOf => s.campaign[c] # NoCampaign
  BY DEF EndOf, NoCampaign
<1> QED BY <1>1 DEF Exact, Steady

LEMMA SteadyTwice ==
  ASSUME NEW s, NEW t, NEW u, Steady(s, t), Steady(t, u)
  PROVE  Steady(s, u)
BY DEF Steady

LEMMA ApartTwice ==
  ASSUME NEW s, NEW t, NEW u, NEW x, Apart(s, t, x), Apart(t, u, x)
  PROVE  Apart(s, u, x)
BY DEF Apart

LEMMA ApartSteady ==
  ASSUME NEW s, NEW t, NEW x, Apart(s, t, x), x \in Cycles => s.campaign[x] = NoCampaign
  PROVE  Steady(s, t)
BY DEF Apart, Steady

LEMMA TaskApart ==
  ASSUME NEW s, Tabled(s), NEW c, NEW k
  PROVE  Apart(s, NewTask(s, c, k), c)
BY DEF Apart, Tabled, Wide, Columns, NewTask

LEMMA StatusApart ==
  ASSUME NEW s, Tabled(s), NEW c, NEW x
  PROVE  /\ Apart(s, [s EXCEPT !.mandate.status = x], c)
         /\ Apart(s, [s EXCEPT !.work = x], c)
         /\ Apart(s, [s EXCEPT !.candidate = x], c)
BY DEF Apart, Tabled, Wide, Columns

\* The status and the phase of cycle c and what is noted of its stages and candidates.
LEMMA CycleApart ==
  ASSUME NEW s, Tabled(s), NEW c, NEW x, NEW y, NEW z
  PROVE  /\ Apart(s, [s EXCEPT !.cycle[c].status = x, !.work.action = y], c)
         /\ Apart(s, [s EXCEPT !.cycle[c].status = x, !.cycle[c].phase = y], c)
         /\ Apart(s, [s EXCEPT !.campaign[c] = z, !.cycle[c].status = x, !.cycle[c].phase = y], c)
<1>1. Apart(s, [s EXCEPT !.cycle[c].status = x, !.work.action = y], c)
  BY DEF Apart, Tabled, Wide, Columns
<1>2. Apart(s, [s EXCEPT !.cycle[c].status = x, !.cycle[c].phase = y], c)
  BY DEF Apart, Tabled, Wide, Columns
<1>3. Apart(s, [s EXCEPT !.campaign[c] = z, !.cycle[c].status = x, !.cycle[c].phase = y], c)
  BY DEF Apart, Tabled, Wide, Columns
<1> QED BY <1>1, <1>2, <1>3

LEMMA NewCycleApart ==
  ASSUME NEW s, Tabled(s)
  PROVE  Apart(s, NewCycle(s), s.mandate.cycles + 1)
<1> DEFINE c == s.mandate.cycles + 1
           t == [s EXCEPT !.work = NoWork, !.mandate.cycles = c]
<1> HIDE DEF c
<1>1. Apart(s, t, c) BY DEF Apart, Tabled, Wide, Columns
<1>2. Tabled(t) BY <1>1 DEF Apart
<1>3. NewCycle(s) = NewTask(t, c, "intelligence") BY DEF NewCycle, c
<1> HIDE DEF t
<1>4. Apart(s, NewCycle(s), c) BY <1>1, <1>2, <1>3, TaskApart, ApartTwice
<1> QED BY <1>4 DEF c

\* No cycle after the newest has a campaign.
LEMMA NewCycleSteady ==
  ASSUME NEW s, Good(s)
  PROVE  Steady(s, NewCycle(s))
<1> DEFINE c == s.mandate.cycles + 1
<1>1. s.mandate.cycles \in Nat BY NoZero DEF Good, GoodBut, Shape
<1>2. c > s.mandate.cycles BY <1>1
<1>3. c \in Cycles => s.campaign[c] = NoCampaign BY <1>2, ButOne DEF Unborn
<1>4. Apart(s, NewCycle(s), c) BY GoodTabled, NewCycleApart
<1> HIDE DEF c
<1> QED BY <1>3, <1>4, ApartSteady

LEMMA StageApart ==
  ASSUME NEW s, Tabled(s), NEW c, NEW k
  PROVE  Apart(s, StageFailed(s, c, k), c) /\ Apart(s, StageInvalid(s, c, k), c)
<1> DEFINE t == [s EXCEPT !.work.stage[k].failed = TRUE, !.work.stage[k].resumed = FALSE]
           u == NewTask(t, c, k)
           v == NewTask(s, c, k)
<1>1. \/ StageFailed(s, c, k) = [u EXCEPT !.work.retries = @ + 1]
      \/ StageFailed(s, c, k) = [t EXCEPT !.cycle[c].status = "needs_attention",
                                          !.work.action = "repair"]
  BY DEF StageFailed
<1>2. \/ StageInvalid(s, c, k) = [v EXCEPT !.work.corrections = @ + 1]
      \/ StageInvalid(s, c, k) = [s EXCEPT !.cycle[c].status = "needs_attention",
                                           !.work.action = "review"]
  BY DEF StageInvalid
<1>3. Apart(s, t, c) /\ Tabled(t) BY DEF Apart, Tabled, Wide, Columns
<1> HIDE DEF t
<1>4. Apart(t, u, c) /\ Apart(s, v, c) BY <1>3, TaskApart
<1> HIDE DEF u, v
<1>5. Apart(u, [u EXCEPT !.work.retries = @ + 1], c) BY <1>4 DEF Apart, Tabled, Wide, Columns
<1>6. Apart(v, [v EXCEPT !.work.corrections = @ + 1], c) BY <1>4 DEF Apart, Tabled, Wide, Columns
<1>7. /\ Apart(t, [t EXCEPT !.cycle[c].status = "needs_attention", !.work.action = "repair"], c)
      /\ Apart(s, [s EXCEPT !.cycle[c].status = "needs_attention", !.work.action = "review"], c)
  BY <1>3, CycleApart
<1>8. Apart(s, StageFailed(s, c, k), c) BY <1>1, <1>3, <1>4, <1>5, <1>7, ApartTwice
<1>9. Apart(s, StageInvalid(s, c, k), c) BY <1>2, <1>4, <1>6, <1>7, ApartTwice
<1> QED BY <1>8, <1>9

\* A cycle gets its only campaign, or ends without an accepted candidate.
LEMMA PortfolioApart ==
  ASSUME NEW s, Tabled(s), NEW c, NEW t \in Portfolio(s, c)
  PROVE  /\ Apart(s, t, c)
         /\ \/ s.campaign[c] = NoCampaign
            \/ /\ t.campaign = s.campaign
               /\ \A i \in Candidates : t.candidate[c][i].verdict # "accepted"
<1> DEFINE accepted == {i \in Candidates : s.candidate[c][i].verdict = "accepted"}
           budget == Min({MaxTrials - s.mandate.trials, Cardinality(accepted) * Variants})
           row == [status |-> "running", trials |-> 0, budget |-> budget]
           a == [s EXCEPT !.cycle[c].status = "rejected", !.cycle[c].phase = "complete"]
           b == [s EXCEPT !.campaign[c] = row,
                          !.cycle[c].status = "running", !.cycle[c].phase = "campaign"]
<1>1. \/ accepted = {} /\ t = a
      \/ s.campaign[c] = NoCampaign /\ t = b
  BY DEF Portfolio, Refused
<1> HIDE DEF row
<1>2. Apart(s, a, c) /\ Apart(s, b, c) BY CycleApart
<1>3. a.campaign = s.campaign /\ a.candidate = s.candidate BY DEF Tabled, Wide, Columns
<1> HIDE DEF a, b
<1> QED BY <1>1, <1>2, <1>3

LEMMA AdmissionsApart ==
  ASSUME NEW s, Tabled(s), NEW c, NEW t \in ReconcileAdmissions(s, c)
  PROVE  /\ Apart(s, t, c)
         /\ \/ s.campaign[c] = NoCampaign
            \/ t.campaign = s.campaign /\ t.cycle = s.cycle
            \/ /\ t.campaign = s.campaign
               /\ \A i \in Candidates : t.candidate[c][i].verdict # "accepted"
<1> DEFINE rows == [i \in Candidates |-> Admitted(s.candidate[c][i])]
           u == [s EXCEPT !.candidate[c] = rows]
<1>1. t = u \/ t \in Portfolio(u, c) BY DEF ReconcileAdmissions, Refused
<1> HIDE DEF rows
<1>2. Apart(s, u, c) /\ Tabled(u) /\ u.campaign = s.campaign /\ u.cycle = s.cycle
  BY DEF Apart, Tabled, Wide, Columns
<1> HIDE DEF u
<1>3. t \in Portfolio(u, c) =>
        /\ Apart(u, t, c)
        /\ \/ u.campaign[c] = NoCampaign
           \/ /\ t.campaign = u.campaign
              /\ \A i \in Candidates : t.candidate[c][i].verdict # "accepted"
  BY <1>2, PortfolioApart
<1> QED BY <1>1, <1>2, <1>3, ApartTwice

LEMMA JudgedApart ==
  ASSUME NEW s, Tabled(s), NEW c, NEW t \in Materialize(s, c)
  PROVE  Apart(s, t, c)
<1>1. PICK verdict \in Verdicts : t \in Judged(s, c, verdict) BY DEF Materialize
<1> DEFINE rows == [i \in Candidates |->
             CASE verdict[i] = "awaiting" -> NewAdmission
               [] verdict[i] = "duplicate" -> [NoCandidate EXCEPT !.verdict = "rejected"]
               [] OTHER -> [NoCandidate EXCEPT !.verdict = verdict[i]]]
           all == \A i \in Candidates : verdict[i] = "duplicate"
           u == [s EXCEPT !.candidate[c] = rows, !.work.duplicates = all]
           v == [u EXCEPT !.cycle[c].status = "awaiting_data_admission",
                          !.cycle[c].phase = "data_admission"]
<1>2. t = v \/ t \in Portfolio(u, c) BY <1>1 DEF Judged
<1> HIDE DEF rows, all
<1>3. Apart(s, u, c) /\ Tabled(u) BY DEF Apart, Tabled, Wide, Columns
<1> HIDE DEF u
<1>4. Apart(u, v, c) BY <1>3, CycleApart
<1> HIDE DEF v
<1> QED BY <1>2, <1>3, <1>4, PortfolioApart, ApartTwice

\* A stage of the newest cycle, which has no campaign.
LEMMA AdvanceSteady ==
  ASSUME NEW s, Good(s), NEW c \in Cycles, c = s.mandate.cycles,
         s.cycle[c].phase \in Stages, NEW t \in AdvanceStage(s, c)
  PROVE  Steady(s, t)
<1> DEFINE k == s.cycle[c].phase
           row == s.work.stage[k]
<1>1. row.status # "absent" /\ s.work \in Work /\ s.campaign[c] = NoCampaign BY StageFacts
<1>2. row \in StageRow BY <1>1 DEF Work
<1>3. row.status \in {"live", "failed", "succeeded"} /\ row.valid \in BOOLEAN
  BY <1>1, <1>2 DEF StageRow
<1>4. Tabled(s) BY GoodTabled
<1>5. \/ t = s \/ t = StageFailed(s, c, k) \/ t = StageInvalid(s, c, k)
      \/ t = NewTask(s, c, NextStage[k]) \/ t \in Materialize(s, c)
  BY <1>3 DEF AdvanceStage
<1>6. Steady(s, s) BY DEF Steady
<1> HIDE DEF k, row
<1>7. t # s => Apart(s, t, c) BY <1>4, <1>5, StageApart, TaskApart, JudgedApart
<1> QED BY <1>1, <1>6, <1>7, ApartSteady

LEMMA ResumedSteady ==
  ASSUME NEW s, Good(s), NEW c
  PROVE  Steady(s, RecoverResumed(s, c)) /\ Steady(s, RetireStalls(s))
<1>1. Tabled(s) BY GoodTabled
<1>2. Steady(s, s) BY DEF Steady
<1>3. \/ RecoverResumed(s, c) = s
      \/ /\ s.campaign[c] = NoCampaign
         /\ RecoverResumed(s, c) = [s EXCEPT !.cycle[c].status = "running", !.work.action = "none"]
  BY DEF RecoverResumed
<1>4. Apart(s, [s EXCEPT !.cycle[c].status = "running", !.work.action = "none"], c)
  BY <1>1, CycleApart
<1>5. Steady(s, RecoverResumed(s, c)) BY <1>2, <1>3, <1>4, ApartSteady
<1>6. Steady(s, RetireStalls(s)) BY <1>1 DEF RetireStalls, Steady, Tabled, Wide, Columns
<1> QED BY <1>5, <1>6

LEMMA DirectCycleSteady ==
  ASSUME NEW s, Good(s), NEW c \in Cycles, c = s.mandate.cycles, NEW t \in DirectCycle(s, c)
  PROVE  Steady(s, t)
<1>0. Steady(s, s) BY DEF Steady
<1>1. CASE s.campaign[c] # NoCampaign /\ s.cycle[c].status \notin TerminalCycle
  <2>1. t = ReplenishAlongside(s) BY <1>1 DEF DirectCycle
  <2>2. t = s \/ t = NewCycle(s) BY <2>1 DEF ReplenishAlongside
  <2> QED BY <1>0, <2>2, NewCycleSteady
<1>2. CASE /\ ~(s.campaign[c] # NoCampaign /\ s.cycle[c].status \notin TerminalCycle)
           /\ s.cycle[c].status = "awaiting_data_admission"
  <2>1. t \in ReconcileAdmissions(s, c) BY <1>2 DEF DirectCycle
  <2>2. CycleGood(s, c) BY NoZero, ButOne
  <2>3. s.campaign[c] = NoCampaign BY <1>2, <2>2 DEF CycleGood
  <2>4. Apart(s, t, c) BY <2>1, GoodTabled, AdmissionsApart
  <2> QED BY <2>3, <2>4, ApartSteady
<1>3. CASE /\ ~(s.campaign[c] # NoCampaign /\ s.cycle[c].status \notin TerminalCycle)
           /\ s.cycle[c].status # "awaiting_data_admission"
  <2> DEFINE u == RecoverResumed(s, c)
  <2>1. t \in DirectStage(u, c) BY <1>3 DEF DirectCycle, Then
  <2>2. /\ Good(u) /\ u.mandate = s.mandate /\ Steady(s, u)
        /\ u.cycle[c].status \in TerminalCycle \/ u.cycle[c].phase \in Stages
    BY <1>3, ResumedGood, ResumedSteady
  <2> HIDE DEF u
  <2>3. CASE u.cycle[c].status \in TerminalCycle
    <3>1. t \in Replenish(u, c) BY <2>1, <2>3 DEF DirectStage
    <3>2. t = [u EXCEPT !.mandate.status = "completed"] \/ t = u \/ t = NewCycle(u)
      BY <3>1 DEF Replenish
    <3>3. Steady(u, [u EXCEPT !.mandate.status = "completed"])
      BY <2>2, GoodTabled DEF Steady, Tabled, Wide, Columns
    <3> QED BY <2>2, <3>2, <3>3, NewCycleSteady, SteadyTwice
  <2>4. CASE u.cycle[c].status \notin TerminalCycle
    <3>1. t \in AdvanceStage(u, c) BY <2>1, <2>4 DEF DirectStage
    <3>2. Steady(u, t) BY <2>2, <2>4, <3>1, AdvanceSteady
    <3> QED BY <2>2, <3>2, SteadyTwice
  <2> QED BY <2>3, <2>4
<1> QED BY <1>1, <1>2, <1>3

LEMMA DirectNewestSteady ==
  ASSUME NEW s, Good(s), NEW t \in DirectNewest(s)
  PROVE  Steady(s, t)
<1> DEFINE n == s.mandate.cycles
           u == RetireStalls(s)
<1>0. Steady(s, s) BY DEF Steady
<1>1. \/ t = s
      \/ t = NewCycle(s)
      \/ n # 0 /\ t \in DirectCycle(u, n)
  BY DEF DirectNewest, Then
<1>2. Good(u) /\ u.mandate = s.mandate /\ Steady(s, u) BY RetireGood, ResumedSteady
<1>3. ASSUME n # 0, t \in DirectCycle(u, n) PROVE Steady(s, t)
  <2>1. n \in Cycles BY <1>3, NoZero DEF Good, GoodBut, Shape, Cycles
  <2>2. n = u.mandate.cycles BY <1>2
  <2> HIDE DEF u, n
  <2>3. Steady(u, t) BY <1>2, <1>3, <2>1, <2>2, DirectCycleSteady
  <2> QED BY <1>2, <2>3, SteadyTwice
<1> QED BY <1>0, <1>1, <1>3, NewCycleSteady

\* The ends found in one pass are debited for the first time, each with what it used.
LEMMA CampaignCyclesExact ==
  ASSUME NEW s, Good(s), Counted(s), Exact(s)
  PROVE  Exact(ReconcileCampaignCycles(s))
<1> DEFINE t == ReconcileCampaignCycles(s)
           f == [c \in Cycles |-> Entry(t.debit[c])]
           g == [c \in Cycles |-> Entry(s.debit[c])]
           h == [c \in Cycles |-> IF c \in Ended(s) THEN s.campaign[c].trials ELSE 0]
<1>0. Counted(t) BY CampaignCyclesCounted
<1>1. /\ t.campaign = s.campaign
      /\ t.mandate.trials = s.mandate.trials + EndedTrials(s)
      /\ \A c \in Cycles : t.debit[c] = IF c \in Ended(s) /\ s.debit[c] = <<>>
                                          THEN <<s.campaign[c].trials>> ELSE s.debit[c]
  BY DEF ReconcileCampaignCycles, Counted, Wide, Columns
<1>2. \A c \in Cycles :
        /\ c \in Ended(s) => t.cycle[c] = [s.cycle[c] EXCEPT !.status = EndOf[s.campaign[c].status],
                                                             !.phase = "complete"]
        /\ (c \notin Ended(s) /\ s.campaign[c].status \notin {"needs_attention", "running"})
             => t.cycle[c] = s.cycle[c]
  BY DEF ReconcileCampaignCycles, Counted, Wide, Columns
<1> HIDE DEF t
<1>3. \A c \in Cycles : c \in Ended(s) => s.debit[c] = <<>> BY DEF Ended, Exact
<1>4. MaxTrials \in Nat /\ MaxCycles \in Nat BY DiscoveryAssumption
<1>5. ASSUME NEW c \in Cycles, c \in Ended(s) PROVE s.campaign[c].trials \in Nat
  <2>1. s.campaign[c] # NoCampaign BY <1>5 DEF Ended, EndOf, NoCampaign
  <2> QED BY <1>4, <2>1 DEF Counted, BudgetsHeld
<1>6. /\ Ledger(s.debit) \in Nat /\ Ledger(s.debit) = SumTo(g, MaxCycles)
      /\ \A c \in Cycles : Entry(s.debit[c]) \in Nat
  BY LedgerSum DEF Counted
<1>7. /\ Ledger(t.debit) \in Nat /\ Ledger(t.debit) = SumTo(f, MaxCycles)
      /\ \A c \in Cycles : Entry(t.debit[c]) \in Nat
  BY <1>0, LedgerSum DEF Counted
<1>8. ASSUME NEW c \in 1..MaxCycles
      PROVE  f[c] \in Nat /\ g[c] \in Nat /\ h[c] \in Nat /\ f[c] >= g[c] + h[c]
  <2>0. c \in Cycles BY DEF Cycles
  <2>1. f[c] = Entry(t.debit[c]) /\ g[c] = Entry(s.debit[c]) /\ f[c] \in Nat /\ g[c] \in Nat
    BY <1>6, <1>7, <2>0
  <2>2. CASE c \in Ended(s)
    <3>1. h[c] = s.campaign[c].trials /\ h[c] \in Nat BY <1>5, <2>0, <2>2
    <3>2. s.debit[c] = <<>> /\ t.debit[c] = <<s.campaign[c].trials>> BY <1>1, <1>3, <2>0, <2>2
    <3>3. Entry(t.debit[c]) = s.campaign[c].trials BY <3>2 DEF Entry
    <3>4. Entry(s.debit[c]) = 0 BY <3>2 DEF Entry
    <3>5. f[c] = h[c] /\ g[c] = 0 BY <2>1, <3>1, <3>3, <3>4
    <3> QED BY <2>1, <3>1, <3>5
  <2>3. CASE c \notin Ended(s)
    <3>1. h[c] = 0 /\ t.debit[c] = s.debit[c] BY <1>1, <2>0, <2>3
    <3> QED BY <2>1, <3>1
  <2> QED BY <2>2, <2>3
<1>9. EndedTrials(s) = SumTo(h, MaxCycles) BY DEF EndedTrials
<1> HIDE DEF f, g, h
<1>10. SumTo(f, MaxCycles) >= SumTo(g, MaxCycles) + SumTo(h, MaxCycles) BY <1>4, <1>8, SumAbove
<1>11. SumTo(h, MaxCycles) \in Nat BY <1>4, <1>8, SumIsNat
<1>12. t.mandate.trials = Ledger(t.debit)
  <2>1. s.mandate.trials = SumTo(g, MaxCycles) BY <1>6 DEF Exact
  <2>2. t.mandate.trials \in Nat /\ t.mandate.trials >= Ledger(t.debit) BY <1>0 DEF Counted
  <2> QED BY <1>1, <1>6, <1>7, <1>9, <1>10, <1>11, <2>1, <2>2
<1>13. ASSUME NEW c \in Cycles, t.debit[c] # <<>>
       PROVE  /\ s.campaign[c].status \in DOMAIN EndOf
              /\ t.cycle[c].status = EndOf[s.campaign[c].status]
              /\ t.debit[c] = <<s.campaign[c].trials>>
  <2>1. CASE c \in Ended(s)
    <3>1. t.debit[c] = <<s.campaign[c].trials>> /\ s.campaign[c].status \in DOMAIN EndOf
      BY <1>1, <1>3, <2>1 DEF Ended
    <3>2. t.cycle[c].status = EndOf[s.campaign[c].status]
      <4> DEFINE row == s.cycle[c]
                 end == EndOf[s.campaign[c].status]
      <4>1. t.cycle[c] = [row EXCEPT !.status = end, !.phase = "complete"] BY <1>2, <2>1
      <4>2. row \in CycleRow BY DEF Good, GoodBut, Shape
      <4> HIDE DEF row, end
      <4>3. t.cycle[c].status = end BY <4>1, <4>2 DEF CycleRow
      <4> QED BY <4>3 DEF end
    <3> QED BY <3>1, <3>2
  <2>2. CASE c \notin Ended(s)
    <3>1. t.debit[c] = s.debit[c] BY <1>1, <2>2
    <3>2. /\ s.campaign[c].status \in DOMAIN EndOf
          /\ s.cycle[c].status = EndOf[s.campaign[c].status]
          /\ s.debit[c] = <<s.campaign[c].trials>>
      BY <1>13, <3>1 DEF Exact
    <3>3. t.cycle[c] = s.cycle[c] BY <1>2, <2>2, <3>2 DEF EndOf
    <3> QED BY <3>1, <3>2, <3>3
  <2> QED BY <2>1, <2>2
<1>14. Exact(t) BY <1>1, <1>12, <1>13 DEF Exact
<1> QED BY <1>14 DEF t

LEMMA ReconciledExact ==
  ASSUME NEW s, Good(s), Counted(s), Exact(s), NEW t \in Reconciled(s)
  PROVE  Exact(t)
<1> DEFINE u == ReconcileCampaignCycles(s)
<1>1. t = s \/ t = [s EXCEPT !.mandate.status = "expired"] \/ t \in DirectNewest(u)
  BY DEF Reconciled, Then
<1>2. Steady(s, [s EXCEPT !.mandate.status = "expired"])
  BY GoodTabled DEF Steady, Tabled, Wide, Columns
<1>3. Good(u) /\ Exact(u) BY CampaignCyclesGood, CampaignCyclesExact
<1> HIDE DEF u
<1> QED BY <1>1, <1>2, <1>3, DirectNewestSteady, SteadyExact

LEMMA CommitExact ==
  ASSUME NEW views, \A t \in views : Columns(t) /\ Exact(t), Commit(views)
  PROVE  Exact(View)'
<1>1. PICK t \in views :
        /\ mandate' = t.mandate /\ cycle' = t.cycle /\ work' = t.work
        /\ candidate' = t.candidate /\ campaign' = t.campaign /\ debit' = t.debit
  BY DEF Commit
<1>2. t = View' BY <1>1 DEF Columns, View
<1> QED BY <1>2

LEMMA CommitApart ==
  ASSUME NEW t, NEW x, Exact(View), Apart(View, t, x),
         x \in Cycles => campaign[x] = NoCampaign, Commit({t})
  PROVE  Exact(View)'
<1>1. Steady(View, t) BY ApartSteady, ViewOf
<1>2. Exact(t) /\ Columns(t) BY <1>1, SteadyExact DEF Apart, Tabled, Wide
<1> QED BY <1>2, CommitExact

\* The requests and the director.
LEMMA RequestExact ==
  ASSUME FullInv, Exact(View),
         \/ ApproveMandate \/ SupersedeMandate \/ Director \/ ReconcileMandate
         \/ RetryStage \/ RecoverGrounding
         \/ \E c \in Cycles, i \in Candidates : RecoverAdmission(c, i)
  PROVE  Exact(View)'
<1>1. Good(View) /\ Counted(View) /\ Tabled(View) BY GoodTabled DEF FullInv, IInv
<1>2. CASE ApproveMandate \/ SupersedeMandate
  <2>1. \/ Commit({[View EXCEPT !.mandate.status = "active"]})
        \/ Commit({[View EXCEPT !.mandate.status = "superseded"]})
    BY <1>2 DEF ApproveMandate, SupersedeMandate
  <2>2. 0 \notin Cycles BY NoZero
  <2> QED BY <1>1, <2>1, <2>2, StatusApart, CommitApart
<1>3. CASE Director \/ ReconcileMandate
  <2> DEFINE u == Repaired(View)
  <2>1. Commit(Reconciled(u)) \/ Commit(Reconciled(View)) BY <1>3 DEF Director, ReconcileMandate, Then
  <2>2. Good(u) /\ Counted(u) BY <1>1, MandateGood, RepairedCounted DEF Repaired
  <2>3. Exact(u)
    <3> DEFINE n == Ledger(View.debit)
    <3>1. u = [View EXCEPT !.mandate.trials = n] BY DEF Repaired
    <3> HIDE DEF n, u
    <3>2. /\ u.mandate.trials = n /\ u.debit = View.debit /\ u.cycle = View.cycle
          /\ u.campaign = View.campaign
      BY <1>1, <3>1 DEF Tabled, Wide, Columns
    <3> QED BY <3>2 DEF Exact, n
  <2> HIDE DEF u
  <2>4. \A t \in Reconciled(u) \cup Reconciled(View) : Exact(t) /\ Good(t)
    BY <1>1, <2>2, <2>3, ReconciledExact, ReconciledGood
  <2>5. \A t \in Reconciled(u) \cup Reconciled(View) : Columns(t)
    BY <2>4 DEF Good, GoodBut, Shape
  <2> QED BY <2>1, <2>4, <2>5, CommitExact
<1>4. CASE RetryStage
  <2> DEFINE c == mandate.cycles
             k == cycle[c].phase
  <2>1. c > 0 /\ k \in Stages /\ Commit({NewTask(View, c, k)}) BY <1>4 DEF RetryStage
  <2>2. c \in Cycles BY <1>1, <2>1, NoZero, ViewOf DEF Cycles, Good, GoodBut, Shape
  <2>3. c = View.mandate.cycles /\ k = View.cycle[c].phase BY ViewOf
  <2> HIDE DEF c, k
  <2>4. campaign[c] = NoCampaign BY <1>1, <2>1, <2>2, <2>3, StageFacts, ViewOf
  <2> QED BY <1>1, <2>1, <2>4, TaskApart, CommitApart
<1>5. CASE RecoverGrounding
  <2>1. Commit({NewCycle(View)}) BY <1>5 DEF RecoverGrounding
  <2>2. Exact(NewCycle(View)) BY <1>1, NewCycleSteady, SteadyExact
  <2>3. Columns(NewCycle(View)) BY <1>1, NewCycleApart DEF Apart, Tabled, Wide
  <2> QED BY <2>1, <2>2, <2>3, CommitExact
<1>6. ASSUME NEW c \in Cycles, NEW i \in Candidates, RecoverAdmission(c, i)
      PROVE  Exact(View)'
  <2> DEFINE u == [View EXCEPT !.candidate[c][i].admission = "open",
                               !.candidate[c][i].verdict = "awaiting",
                               !.cycle[c].status = "awaiting_data_admission",
                               !.cycle[c].phase = "data_admission"]
  <2>1. Commit(ReconcileAdmissions(u, c)) BY <1>6 DEF RecoverAdmission
  <2>2. Apart(View, u, c) /\ u.campaign = View.campaign /\ u.cycle[c].status = "awaiting_data_admission"
    <3>1. Apart(View, u, c) /\ u.campaign = View.campaign
      BY <1>1 DEF Apart, Tabled, Wide, Columns
    <3>2. u.cycle = [View.cycle EXCEPT ![c].status = "awaiting_data_admission",
                                       ![c].phase = "data_admission"]
      BY <1>1 DEF Tabled, Wide, Columns
    <3>3. View.cycle \in [Cycles -> CycleRow] BY <1>1 DEF Good, GoodBut, Shape
    <3>4. "awaiting_data_admission" \in CycleStatuses /\ "data_admission" \in Phases
      BY DEF CycleStatuses, Phases
    <3> HIDE DEF u
    <3> QED BY <3>1, <3>2, <3>3, <3>4, PhaseSet
  <2>3. /\ View.cycle[c].status = "rejected" /\ View.candidate[c][i].admission = "failed"
        /\ View.candidate[c][i].task \in {"complete", "short", "changed"}
    BY <1>6, ViewOf DEF RecoverAdmission
  <2>4. \A t \in ReconcileAdmissions(u, c) : Good(t) BY <1>1, <2>3, RevivedGood
  <2> HIDE DEF u
  <2>5. ASSUME NEW t \in ReconcileAdmissions(u, c) PROVE Columns(t) /\ Exact(t)
    <3>1. /\ Apart(u, t, c)
          /\ \/ u.campaign[c] = NoCampaign
             \/ t.campaign = u.campaign /\ t.cycle = u.cycle
             \/ /\ t.campaign = u.campaign
                /\ \A j \in Candidates : t.candidate[c][j].verdict # "accepted"
      BY <2>2, AdmissionsApart DEF Apart
    <3>2. Apart(View, t, c) BY <2>2, <3>1, ApartTwice
    <3>3. t.campaign[c] # NoCampaign => CycleGood(t, c)
      <4>1. Good(t) BY <2>4
      <4>2. t.mandate.cycles \in Nat /\ c \in Nat BY <4>1, NoZero DEF Good, GoodBut, Shape
      <4> QED BY <4>1, <4>2, ButOne DEF Unborn
    <3>4. View.campaign[c] = NoCampaign
      BY <2>2, <3>1, <3>3 DEF CycleGood, Founded, Grounded
    <3> QED BY <3>2, <3>4, ApartSteady, SteadyExact DEF Apart, Tabled, Wide
  <2> QED BY <2>1, <2>5, CommitExact
<1> QED BY <1>2, <1>3, <1>4, <1>5, <1>6

\* Workers, operators, campaigns and the clock: a campaign that has ended does not move.
LEMMA EnvironmentExact ==
  ASSUME FullInv, reopened = 0 => Exact(View), reopened' = 0,
         \/ ValidityEnds
         \/ \E k \in Stages : StageEnds(k) \/ ResumeStage(k)
         \/ \E c \in Cycles : \/ CampaignMoves(c)
                              \/ \E i \in Candidates : AdmissionEnds(c, i) \/ ResumeAdmission(c, i)
  PROVE  Exact(View)'
<1>1. Good(View) /\ Tabled(View) /\ reopened \in 0..ReopenBound BY GoodTabled DEF FullInv, IInv
<1>2. CASE ValidityEnds
  <2>1. View' = View /\ reopened' = reopened BY <1>2 DEF ValidityEnds, View
  <2> QED BY <2>1
<1>3. ASSUME NEW k \in Stages, StageEnds(k) \/ ResumeStage(k) PROVE Exact(View)'
  <2>1. reopened' = reopened BY <1>3 DEF StageEnds, ResumeStage, Commit
  <2>2. /\ mandate' = mandate /\ cycle' = cycle /\ campaign' = campaign /\ debit' = debit
    BY <1>1, <1>3, ViewOf DEF StageEnds, ResumeStage, Commit, Tabled, Wide, Columns
  <2> QED BY <2>1, <2>2, ViewOf DEF Exact, View
<1>4. ASSUME NEW c \in Cycles, NEW i \in Candidates, AdmissionEnds(c, i) \/ ResumeAdmission(c, i)
      PROVE  Exact(View)'
  <2>1. reopened' = reopened BY <1>4 DEF AdmissionEnds, ResumeAdmission, Commit
  <2>2. /\ mandate' = mandate /\ cycle' = cycle /\ campaign' = campaign /\ debit' = debit
    BY <1>1, <1>4, ViewOf DEF AdmissionEnds, ResumeAdmission, Commit, Tabled, Wide, Columns
  <2> QED BY <2>1, <2>2, ViewOf DEF Exact, View
<1>5. ASSUME NEW c \in Cycles, CampaignMoves(c) PROVE Exact(View)'
  <2>1. PICK status \in Contract(c)!Statuses, trials \in 0..campaign[c].budget :
          /\ campaign' = [campaign EXCEPT ![c].status = status, ![c].trials = trials]
          /\ LET again == /\ campaign[c].status \in Contract(c)!Final
                          /\ <<campaign[c].status, campaign[c].trials>> # <<status, trials>>
             IN  reopened' = IF again THEN reopened + 1 ELSE reopened
    BY <1>5 DEF CampaignMoves
  <2>2. UNCHANGED <<mandate, cycle, debit>> BY <1>5 DEF CampaignMoves
  <2>3. /\ reopened = 0
        /\ campaign[c].status \in Contract(c)!Final =>
             campaign[c].status = status /\ campaign[c].trials = trials
    <3>1. reopened + 1 # 0 BY <1>1, DiscoveryAssumption
    <3> QED BY <2>1, <3>1
  <2>4. /\ campaign = [d \in Cycles |-> campaign[d]]
        /\ campaign[c] = [status |-> campaign[c].status, trials |-> campaign[c].trials,
                          budget |-> campaign[c].budget]
    BY <1>1, ViewOf DEF Good, GoodBut, Shape
  <2>5. \A d \in Cycles : debit[d] # <<>> => campaign'[d] = campaign[d]
    <3> SUFFICES ASSUME NEW d \in Cycles, debit[d] # <<>> PROVE campaign'[d] = campaign[d]
      OBVIOUS
    <3>1. CASE d # c BY <2>1, <2>4, <3>1
    <3>2. CASE d = c
      <4>1. campaign[c].status \in Contract(c)!Final
        BY <2>3, <3>2, ViewOf DEF Exact, EndOf, Contract!Final
      <4> DEFINE old == campaign[c]
                 x == old.status
                 y == old.trials
                 z == old.budget
      <4>2. old = [status |-> x, trials |-> y, budget |-> z] BY <2>4
      <4>3. campaign'[c] = [old EXCEPT !.status = x, !.trials = y] BY <2>1, <2>3, <2>4, <4>1
      <4> HIDE DEF x, y, z, old
      <4>4. campaign'[c] = old BY <4>2, <4>3, CampaignRow
      <4> QED BY <3>2, <4>4 DEF old
    <3> QED BY <3>1, <3>2
  <2>6. Exact(View) BY <2>3
  <2>7. ASSUME NEW t, t = View' PROVE Exact(t)
    <3>1. t.mandate = View.mandate /\ t.debit = View.debit /\ t.cycle = View.cycle /\ t.campaign = campaign'
      BY <2>2, <2>7, ViewOf DEF View
    <3>2. \A d \in Cycles : View.debit[d] # <<>> => t.campaign[d] = View.campaign[d]
      BY <2>5, <3>1, ViewOf
    <3> HIDE <2>7
    <3> QED BY <2>6, <3>1, <3>2 DEF Exact
  <2> QED BY <2>7
<1> QED BY <1>2, <1>3, <1>4, <1>5

ExactInv == FullInv /\ (reopened = 0 => Exact(View))

\* The inductive invariant with the exact accounts of a mandate none of whose campaigns was
\* reopened.
THEOREM AccountsInductive == Spec => []ExactInv
<1>1. Init => (reopened = 0 => Exact(View))
  <2> SUFFICES ASSUME Init PROVE Exact(View) OBVIOUS
  <2>1. View.debit = [c \in Cycles |-> <<>>] /\ View.mandate.trials = 0 BY ViewOf DEF Init
  <2>2. Ledger(View.debit) = 0
    <3>1. /\ Counted(View) BY InitCounted
    <3>2. Ledger(View.debit) \in Nat BY <3>1, LedgerSum DEF Counted
    <3> QED BY <2>1, <3>1, <3>2 DEF Counted
  <2> QED BY <2>1, <2>2 DEF Exact
<1>2. FullInv /\ (reopened = 0 => Exact(View)) /\ [Next]_vars => (reopened = 0 => Exact(View))'
  <2> SUFFICES ASSUME FullInv, reopened = 0 => Exact(View), [Next]_vars, reopened' = 0
               PROVE  Exact(View)'
    OBVIOUS
  <2>1. CASE UNCHANGED vars
    <3>1. View' = View /\ reopened' = reopened BY <2>1 DEF vars, View
    <3> QED BY <3>1
  <2>2. CASE Next
    <3>1. CASE \/ ApproveMandate \/ SupersedeMandate \/ Director \/ ReconcileMandate
               \/ RetryStage \/ RecoverGrounding
               \/ \E c \in Cycles, i \in Candidates : RecoverAdmission(c, i)
      <4>1. reopened = 0 BY <3>1, RequestCounted
      <4> QED BY <3>1, <4>1, RequestExact
    <3>2. CASE \/ ValidityEnds
               \/ \E k \in Stages : StageEnds(k) \/ ResumeStage(k)
               \/ \E c \in Cycles : \/ CampaignMoves(c)
                                    \/ \E i \in Candidates : AdmissionEnds(c, i) \/ ResumeAdmission(c, i)
      BY <3>2, EnvironmentExact
    <3> QED BY <2>2, <3>1, <3>2 DEF Next
  <2> QED BY <2>1, <2>2
<1> QED BY <1>1, <1>2, CountersInductive, PTL DEF Spec, ExactInv

\* Every campaign that ends is debited exactly once, with all the trials it used, as long as
\* none is reopened: the events and the counter agree at every moment, for any number of
\* campaigns.  After a reopening an ended cycle still has its terminal event, from which the
\* counters are rebuilt, and the counter never falls below what the events add up to.
THEOREM EndsDebited == Spec => []EndsAreDebited
<1>1. ExactInv => EndsAreDebited
  <2> SUFFICES ASSUME ExactInv PROVE EndsAreDebited OBVIOUS
  <2>0. FullInv BY DEF ExactInv
  <2>1. ASSUME NEW c \in Cycles, campaign[c] # NoCampaign,
               cycle[c].status \in {"completed", "rejected", "shadow_candidate"}
        PROVE  debit[c] # <<>>
    <3>1. c <= mandate.cycles
      <4>1. ~(c > mandate.cycles) BY <2>0, <2>1, ViewOf, ButOne DEF FullInv, IInv, Unborn
      <4>2. c \in Nat /\ mandate.cycles \in Nat
        BY <2>0, NoZero, ViewOf DEF FullInv, IInv, Good, GoodBut, Shape
      <4> QED BY <4>1, <4>2
    <3>2. CycleGood(View, c) BY <2>0, <3>1, ViewOf, ButOne DEF FullInv, IInv
    <3> QED BY <2>1, <3>2, ViewOf DEF CycleGood
  <2>2. mandate.trials >= Ledger(debit) BY <2>0, ViewOf DEF FullInv, Counted
  <2>3. ASSUME reopened = 0
        PROVE  /\ \A c \in Cycles :
                    debit[c] # <<>> => CampaignEnded(c) /\ debit[c] = <<campaign[c].trials>>
               /\ mandate.trials = Ledger(debit)
    BY <2>3, ViewOf DEF ExactInv, Exact, CampaignEnded
  <2> QED BY <2>1, <2>2, <2>3 DEF EndsAreDebited
<1> QED BY <1>1, AccountsInductive, PTL

=============================================================================
