---------------------------- MODULE ApprovalRace ----------------------------
(***************************************************************************)
(* The approve, reject and revoke routes under /v1/approvals at statement  *)
(* granularity.  They read the approval with db.get and the task with      *)
(* db.get, neither FOR UPDATE, check the status they read, and later write *)
(* what they decided over whatever is committed by then.  Every other      *)
(* request is a step of TaskLease; the approval-center route, which locks  *)
(* the approval row before it checks, is among those.  A revocation has no *)
(* other route than the unlocked one.                                      *)
(***************************************************************************)
EXTENDS TaskLease

CONSTANT Deciders   \* the requests to those routes that can be in flight at once

VARIABLE decision   \* what each of them has read so far

raceVars == <<vars, decision>>

Actions == {"approve", "reject", "revoke"}
Idle == [task |-> None, action |-> "approve", seen |-> "absent"]

RaceInit == Init /\ decision = [d \in Deciders |-> Idle]

-----------------------------------------------------------------------------

\* The approval status each action is allowed on, and what it leaves.
Allowed(action) == IF action = "revoke" THEN "approved" ELSE "pending"
Outcome(action, r) ==
  CASE action = "approve" -> Approved(r)
    [] action = "reject" -> Rejected(r)
    [] action = "revoke" -> Revoked(r)

\* db.get(TaskApproval) and the status check; a refused request is over.
ReadApproval(d, t, action) ==
  /\ decision[d] = Idle
  /\ task[t].approval = Allowed(action)
  /\ decision' = [decision EXCEPT ![d] = [task |-> t, action |-> action, seen |-> "absent"]]
  /\ UNCHANGED vars

\* db.get(Task), some statements later.
ReadTask(d) ==
  /\ decision[d] # Idle /\ decision[d].seen = "absent"
  /\ decision' = [decision EXCEPT ![d].seen = task[decision[d].task].status]
  /\ UNCHANGED vars

\* The flush at the end of approve_task and decide_task: an UPDATE of the columns that
\* differ from what was read, with no condition on what they hold now.  The lease
\* columns are not among them.
WriteDecision(d) ==
  LET t == decision[d].task
      decided == Outcome(decision[d].action, task[t])
  IN  /\ decision[d] # Idle /\ decision[d].seen # "absent"
      /\ task' = [task EXCEPT ![t] =
                    [decided EXCEPT !.status = IF @ = decision[d].seen THEN task[t].status ELSE @]]
      /\ decision' = [decision EXCEPT ![d] = Idle]
      /\ UNCHANGED <<hold, paused>>

RaceNext ==
  \/ Next /\ UNCHANGED decision
  \/ \E d \in Deciders :
       \/ \E t \in Tasks, action \in Actions : ReadApproval(d, t, action)
       \/ ReadTask(d)
       \/ WriteDecision(d)

RaceSpec == RaceInit /\ [][RaceNext]_raceVars

\* The fairness of TaskLease; nothing is assumed of the requests that decide.
FairRaceSpec == RaceSpec /\ Fairness

-----------------------------------------------------------------------------
(* What survives the race.                                                 *)

\* A worker call on the task would be accepted.
Authorizes(a, t) == hold[a].task = t /\ LeaseVerified(task[t], a, hold[a].token, ActiveLease)

\* "A raw lease token authorizes only its task and current attempt": no other row and
\* no other worker process has the token of a lease that is honoured.
SingleHolder ==
  \A t, u \in Tasks, a, b \in Agents :
    (Authorizes(a, t) /\ task[u].token = task[t].token /\ hold[b].token = task[t].token)
      => (t = u /\ a = b)

\* A decision that comes late can put a task back into the queue under the feet of the
\* worker that runs it, but the attempts still stay within max_attempts, and a worker
\* call is still accepted only from the one process that holds the row's token.
RaceContained ==
  /\ SingleHolder
  /\ \A t \in Tasks : task[t].attempts <= task[t].max

\* Every lease granted in the race was paid for with an attempt and a live approval.
RaceLeasePaidFor ==
  [][\A t \in Tasks :
       (task'[t].token # None /\ task'[t].token # task[t].token) =>
         /\ task'[t].attempts = task[t].attempts + 1
         /\ task[t].required => task[t].approval = "approved" /\ task[t].fresh]_raceVars

\* The flush of some decision in flight on task t.
DecisionLands(t) ==
  \E d \in Deciders : decision[d].task = t /\ decision[d].seen # "absent" /\ decision'[d] = Idle

\* A finished task keeps its status against every late worker call, every sweep, the
\* clock and the locked decisions, also when a late decision left its row with a lease
\* token or an approval of another attempt.  Only an operator's resume moves a failed
\* task, and only a decision that was already in flight moves any of them.
FinishedUnlessDecided ==
  [][\A t \in Tasks :
       (task[t].status \in TerminalTask /\ task'[t].status # task[t].status) =>
         \/ task[t].status = "failed" /\ task'[t] = Resumed(task[t])
         \/ DecisionLands(t)]_raceVars

-----------------------------------------------------------------------------
(* What the M3 runbook promises; see the violation run.                    *)

\* "Revocation is permitted only before consumption": a consumed approval is only ever
\* re-armed for a new decision.
RevokedOnlyBeforeConsumption ==
  [][\A t \in Tasks :
       task[t].approval = "consumed" => task'[t].approval \in {"consumed", "pending"}]_raceVars

=============================================================================
