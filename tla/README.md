# Verification of the Hermes swarm control plane

TLA+ models of the parts of the control plane that decide *who may work on what,
when, and how often*: the task table and its leases, the founder's approvals and
the channel they are decided through, the pause switches, typed task graphs,
supervised missions, and the alpha programme's campaigns and discovery mandates.
TLC checks the models on small instances. TLAPS proves the safety properties of the
passing runs for all sizes: of the lease protocol, graphs, missions, the founder's
channel, campaigns and mandates, what survives the races of the approvals and of the
lease transactions, and the refinement from campaigns to the contract their mandate
relies on. Liveness, and the race of reconciliation, are
model-checked only. Source paths are relative to the repository root (`backend/app/...`).

## 1. The system and its components

The control plane is a FastAPI service over PostgreSQL (READ COMMITTED,
`autoflush=False`, `backend/app/db/session.py`). Worker daemons poll it over
HTTP, a supervisor daemon posts `/v1/supervisor/reconcile` in a loop, the
founder decides through the approval routes, the approval center or the Telegram
gateway. All shared state is in the database; processes share nothing else.

| Component | State | Operations | Interacts with | Correct when |
| --- | --- | --- | --- | --- |
| Tasks and leases (`services/tasks.py`, `api/routes/task_runtime.py`, `api/routes/tasks.py`) | `tasks` row: status, attempts, lease agent/token/deadline, failure, cancel request | create, lease (with sweep), start, heartbeat, complete, fail, release, reap, re-arm, resume | workers by token; approvals; graphs; missions | one holder per task, no lease without payment, finished work is not undone by late calls, attempts bounded, orphaned leases recovered |
| Approvals (`services/governance.py`, `api/routes/governance.py`) | `task_approvals` row: status, expiry | request, approve, reject, revoke, consume, expire, re-arm | writes the task's status; consumed by the lease | gated work runs only on a live approval, each approval is used once |
| Pause controls (`services/controls.py`) | paused scopes | pause, resume | read by the lease route | paused workers get nothing, pausing loses nothing |
| Task graphs (`services/task_graphs.py`) | graph status, deadline, node mirror, compensation tasks | activate, cancel, reconcile, message | conditions of the lease query; reconciled at the end of worker calls and by the supervisor | dependency order, parallelism, budget, sound compensation, every graph ends |
| Missions and supervision (`services/missions.py`, `services/supervision.py`) | mission status, supervision status, recoveries, `next_reconcile_at`, deadline | approve, abort, refresh (also on read), reconcile | gates its tasks' leases; recovers failed tasks | recovery within the plan, order, no work without authority, an end the founder sees |
| Worker daemon (`worker/src/swarm_worker/service.py`, `daemon.py`) | the task and token it holds | poll, execute, heartbeat, cancel, release | the lease API | modelled as a process that may make any call with what it remembers, or forget it |
| Founder notifications (`services/founder_notifications.py`, `api/routes/governance.py`) | outbox rows by approval generation | enqueue, list (promotes and supersedes), acknowledge, decide | approvals; the gateway | every gate is announced, once, and acknowledged only when sent |
| Telegram gateway (`telegram-gateway/.../gateway.py`, `store.py`) | delivery record, handoffs, update offset | outbox loop, poll, handle update, decide | notifications, Telegram, the founder | a handoff decides once, every command is answered |
| Alpha campaigns (`services/alpha_campaign.py`) | campaign row, stage tasks of each question, attempts | activate, reconcile, resume, cancel, record attempt, recover execution | stage tasks, evaluator routes, mandate | books balance, budgets hold, nothing executes before its gates, the deadline closes it |
| Evaluator routing (`services/evaluator_routing.py`) | routes, assignments, receipt | create, retry, supersede, complete | campaigns | both reviews approve before an execution |
| Alpha discovery (`services/alpha_discovery.py`) | mandate row with counters, cycles, candidates, admissions | approve, supersede, reconcile, repair counters, retry, recover | registers campaigns and reads them | ends are debited, one cycle in discovery, campaigns stand on admitted data, the queue is replenished |
| Authority, agent identity, fleet | policies, delegations, credentials, grants | activate, delegate, rotate | the lease query and the decisions | planned; here the relation `Eligible` |
| Conversations, ingestion recovery, broker tickets, derived state | stage columns of their own tables | stage changes | create tasks and read their results | planned |
| Research computation, retrieval, dashboards, migrations, scripts | - | - | - | not modelled: computation and I/O without a protocol |

What is hard here: requests that interleave between a read and a commit; workers
that die, or come back with a token of an earlier attempt; leases, approvals,
graphs and missions with four independent deadlines; a cancellation that meets a
completion; a retry of something that was already decided; and status columns
that several services write. `PROJECT.json` lists the hazards at their lines.

## 2. Modules

| Module | Models | Kind |
| --- | --- | --- |
| `TaskRows` | one task row with its approval; every service's effect on it, as operators from row to row | operators |
| `TaskLease` | the lease protocol of free-standing tasks | specification |
| `TaskRowsProofs` | what the operators on rows keep true of a row | lemmas |
| `TaskLeaseProofs` | theorems about `TaskLease` and `ApprovalRace` | proofs |
| `ApprovalRace` | `TaskLease` with the unlocked approval routes split into read, read, write | composition |
| `TaskGraph` | one typed graph with its nodes, compensation tasks, workers, canceller and supervisor | specification |
| `TaskGraphProofs` | theorems about `TaskGraph` and `LeaseRace` | proofs |
| `LeaseRace` | `TaskGraph` with the lease transaction split into select, commit, roll back | composition |
| `ReconcileRace` | `TaskGraph` with `cancel_graph` and `reconcile_graph` split into read, read, write | composition |
| `MissionSupervision` | one supervised mission with its checkpoints, workers and supervisor | specification |
| `MissionSupervisionProofs` | theorems about `MissionSupervision` | proofs |
| `FounderChannel` | the outbox, the Telegram gateway and one approval that is asked again | specification |
| `FounderChannelProofs` | theorems about `FounderChannel` | proofs |
| `Sums` | the sum of the first entries of a table | operators |
| `SumsProofs` | what that sum computes | lemmas |
| `CampaignLedger` | what a discovery mandate may rely on in a campaign | abstract specification |
| `AlphaCampaign` | one campaign with its questions, stages, reviews and director; implements `CampaignLedger` | specification |
| `AlphaCampaignProofs` | theorems about `AlphaCampaign`, and its refinement of `CampaignLedger` | proofs |
| `AlphaDiscovery` | one mandate with its cycles, candidates and director; its campaigns follow `CampaignLedger` | composition |
| `AlphaDiscoveryProofs` | theorems about `AlphaDiscovery` | proofs |
| `MC...` | constants of the runs | instances |

**Rows.** A `Row` holds what the properties tell apart: status, attempt count and
maximum, the approval's status, the lease's agent and token, the cancel request
and the kind of failure. Time is reduced to the comparisons the code makes:
`live` (`lease_expires_at > now`), `fresh` (the approval's `expires_at > now`),
`overdue` (a graph's or mission's deadline) and `due` (`next_reconcile_at`).
Events, digests, results and messages' wording are left out. The functional
operators keep the names of what the code does: `Rearm` is
`rearm_task_approval`, `Released` is `release_task`, `Reaped` is one iteration
of `reap_expired_leases`, and so on; `PROJECT.json` maps every one to its lines.

**Steps.** In `TaskLease`, `TaskGraph` and `MissionSupervision` a step is one
committed request. That is what the code provides where a handler locks the row
with `SELECT ... FOR UPDATE` before it checks anything (`lock_task`, and the approval
center's decisions, the only ones `TaskLease` has). Where it does not, three race
modules split the request into its statements:

* `ApprovalRace`: `/v1/approvals/{id}/approve|reject|revoke` read approval and
  task with `db.get` and write later. The ORM writes the columns that differ
  from what was read, so the write is unconditional on the status and leaves the
  lease columns alone.
* `LeaseRace`: the candidate query reads committed state, locks all candidates
  with `SKIP LOCKED`, and its effects appear at commit. Every other request waits
  if it would write a locked row. Each worker has one poll in flight, as its daemon
  has.
* `ReconcileRace`: the cancel and reconcile routes, the supervisor's pass and the end
  of complete, fail and release read the node tasks one by one with `db.get`, decide,
  and write the columns that differ from what they read. What keeps some of them
  apart is less obvious than a lock. complete and fail append a message and an event
  under the graph's next sequence number, which is unique and flushed at once, and the
  foreign key of these inserts conflicts with the `FOR UPDATE` of the routes: of all
  these one is at work on a graph at a time (`GraphHeld`). `release_task` inserts
  nothing before it has read the nodes, so it meets all the others. The writes of a
  request come together at its end; the code's flushes are spread, which leaves less
  room between read and write.

The races are modelled one kind at a time. `TaskGraph` and `MissionSupervision` keep
the decisions on approvals as single steps, also those of the unlocked routes.

A refused request (401, 403, 404, 409) changes nothing and is no step. A lease
poll that finds nothing still commits its sweep of expired leases and approvals,
which is a step (`LeaseTask`, first disjunct). The sweep passes over rows that
other transactions have locked; `TaskLease` lets any set of rows be locked.

**Workers.** `hold[a]` is what agent `a`'s process remembers. It can call any
handler with it at any later time, which covers late, repeated and reordered
calls, and `Forget` it, which covers a finished cycle, a lost response, a crash
and a restart. A token is drawn from the ones nobody remembers or stores: the
code draws 32 random bytes.

**Graphs.** `Reconciled` is `reconcile_graph` as a function of the tables, used
by the reconcile route, by cancellation and at the end of complete, fail and
release (`Settle`), as in the code. Reaping, approvals and resumption do not
reconcile. Compensation tasks are ordinary tasks outside the graph's conditions.

**Missions.** `Refreshed` is `refresh_mission`, which `GET /v1/missions/{id}`
also calls. `ReconcileMission` is one pass of the supervisor over the mission.

**The founder's channel.** A gateway pass starts the outbox loop beside a long poll
and then handles the updates one by one. When the poll raises, `asyncio.gather`
does not cancel the outbox loop: it runs on beside the loop of the next pass, so
`loop` is a function of loop numbers. `GET /notifications` is two steps
(`ListRead`, `ListWrite`), because it reads the approval's generation without a
lock and writes several statements later; the control plane finishes what a dead
gateway asked for (`abandoned`). The other requests are one step. A notice is
identified by the generation it announces, a handoff by the notice that carried
it. Faults (`MaxFaults`): a request or its answer is lost before or after its
effect, the poll fails, the process dies; a refusal (409) ends the process, and
systemd starts it again. `cut` and `doubt` are history variables that name the
two situations in which the gateway cannot know what happened.

**Campaigns and mandates.** Both directors work on a locked row, so a step is one
committed request or one pass. What a request computes is a function of the
transaction's *view* of the tables: `Reconciled` composes the parts of
`reconcile_campaign` in the code's order. A view with `ok = FALSE`, or an empty
set of views, is a request that raised and was rolled back. Task rows are reduced
to status, approval, outcome and one number; `TaskLease` has the rest.

**Refinement.** `AlphaDiscovery` does not contain the campaign's pipeline. It lets
each campaign take any step of `CampaignLedger!Step`: activated once, trials only
grow and stay within the budget, only an open campaign is cancelled, an ended one
may be reopened. `AlphaCampaign!KeepsLedger` says that a campaign implements
this contract, with the campaign row's status and trials as the refinement
mapping; TLC checks it and `AlphaCampaignProofs` proves it. So what holds of
`AlphaDiscovery` holds with real campaigns below it.

**Bounds.** `MaxAttempts`/`TaskMax` bound `max_attempts`; `AttemptBound` keeps the
model's operator from resuming for ever; `Tokens` bounds how many tokens are
alive at once and is chosen so that a polling worker always finds a fresh one.
`MaxGenerations`, `MaxCommands`, `MaxFaults` and `Loops` bound the channel,
`ReopenBound` how often campaigns are reopened below a mandate. Questions, rungs,
trials, variants, failures, cycles and retries are parameters of the code itself.
There is no bound on the length of behaviours.

**Variants.** Definitions marked "Variant for mutation" are no part of a
specification. Each is what a plausible slip in the code would look like; with it
in place of the original, TLC finds the property it belongs to violated.

## 3. Runs

| Run | Instance | Shows |
| --- | --- | --- |
| `task_lease` | 2 workers (one lacks a capability), 2 tasks, 4 tokens, 2 attempts, a global and a workflow pause; token symmetry | `LeaseCoherent`, `ApprovalGate`, `AttemptBudget`, `TokenIsPaidFor` |
| `approval_race` | 2 workers, 1 task, one decision in flight beside the atomic ones | what a late decision cannot break: `RaceContained`, `RaceLeasePaidFor`, `FinishedUnlessDecided`, `OrphanRecovered` |
| `lease_race` | 2 workers, a chain of 2 nodes, one compensation task only one worker can take, 3 tokens | with two lease transactions open at once: `NoLeaseOverLease`, `DependencyOrder`, `NoSuccessAfterClose`, `GraphBounded` |
| `reconcile_race` | 2 workers with a node each, the second gated, the routes and the supervisor as one more party, one compensation task, one attempt | with unlocked node reads: `SuccessMeansAll`, `UndoOnlyAfterSuccess`, `CompensatedIsUndone`, `RaceNoSuccessAfterClose`, `ClosesCompensated` |
| `mission` | 2 workers, 2 dependent checkpoints, one gated, one recovery | `RecoveryWithinPlan`, `CheckpointOrder`, `AbortedNeverRuns`, `SuccessIsReal`, `SupervisionEnds` |
| `founder_channel` | 2 generations, 2 outbox loops, 1 command, 1 fault | `AcknowledgedMeansSent`, `OncePerGeneration`, `HandoffUsedOnce`, `GateAnnounced`, `CommandAnswered` |
| `alpha_campaign` | 2 questions, 2 rungs, 1 trial in the budget and up to 2 in an execution, refused receipts, limit of 1 failure, all three protocols | `AnswersAccounted`, `OpenedWithinBudget`, `ExecutionGated`, `LiveWorkIsWatched`, `InvalidIsEarned`, `KeepsLedger`, `DurationCloses` |
| `alpha_discovery` | 2 cycles, 2 campaigns in parallel, 1 candidate, 1 trial, 1 automatic retry, 1 correction, 1 reopening | `EndsAreDebited`, `OneCycleInDiscovery`, `CampaignGrounded`, `CountersRepaired`, `Replenished` |
| `approval_race_revoked` | as `approval_race` | violated: `RevokedOnlyBeforeConsumption` |
| `lease_race_parallelism` | 2 workers with different capabilities, 2 independent nodes, `max_parallelism` 1 | violated: `ParallelismBound` |
| `graph_requeued` | 2 workers, 2 nodes, 2 attempts | violated: `NoWaitingNodeAfterClose` |
| `mission_unapproved` | as `mission`, nothing gated | violated: `NoLeaseBeforeApproval` |

Why these instances are enough to be interesting: two workers are needed for a
token of one to meet a lease of the other; two attempts for a retry after an
expiry, a refund and an exhausted budget; two tasks for priority, dependency and
parallelism; one task beyond the approval for the gate. Two generations are needed for a listing of one to meet the
notice of the other, two loops for a stray loop, and one fault reaches every place
where one is handled. Two questions are the least in which an answer opens the next
question; an execution larger than the budget reaches the overrun, one rung before
the last the ladder. Two cycles are needed for a campaign beside a discovery and for
the revival of an earlier cycle.

`reconcile_race` needs two nodes for one to end while the other is read, and one
attempt so that a release fails its node; a gate that is rejected makes a graph that is
stuck without a failure. Nothing is resumed in it (`AttemptBound` 0), which keeps it to
half a million states. The node mirror is left out of the fingerprint (`VIEW`),
because nothing is decided on it.

Deadlock checking is off in the two alpha runs only: a campaign or mandate that has
ended, with all its tasks ended, has nothing left to do.

**Fairness.** `approval_race`: every worker polls again and again and finishes
or loses what it holds (the daemon's loop), a poll that meets no locked row
happens again and again (locks last one transaction), and the deadline of a lease
nobody can extend comes. Nothing is assumed of founders or operators, and the
property is conditional on some worker not being paused for ever, because a
paused worker's request returns before the reap. `lease_race`: the graph's
deadline comes, every open transaction commits or is rolled back, and the supervisor's
pass is strongly fair: its loop keeps posting, and when polls lock rows again and again
PostgreSQL still hands each lock to the request that waits for it. `mission`: the
supervisor's loop keeps posting, deadlines and backoffs elapse. In both nothing else is
assumed of workers: even if all of them stop, graphs and missions end.
`alpha_campaign` and `alpha_discovery`: weak fairness of one pass of the director,
a loop that polls for ever and goes on after an exception. `founder_channel`: weak
fairness of the gateway's pass and of each outbox loop, which the event loop runs
whenever they can go on, and which systemd starts again. `GateAnnounced` and
`CommandAnswered` name what they except: a notice silenced by the race of the
listing (section 4), and a task whose readiness changes for ever.

## 4. Where code and documents disagree

Four have a run of their own, whose counterexample is a few steps long.

1. *A consumed approval can be revoked* (`approval_race_revoked`). The M3 runbook
   permits revocation "only before consumption". The route reads the approval
   unlocked; a lease consumes it; the route then writes `revoked` and sets the
   leased task to `pending_approval`, keeping its lease columns.
2. *`max_parallelism` can be exceeded* (`lease_race_parallelism`). The count is a
   subquery over committed rows; two polls with disjoint candidates both pass it.
   If every worker can take every ready node, the row locks hide this. The overshoot
   is at most one node per other worker (`ParallelismOvershoot`, proved in section 5).
3. *A cancelled graph's node can return to the queue* (`graph_requeued`).
   `fail_task` and `reap_expired_leases` requeue without looking at
   `cancel_requested_at`; only `release_task` does. No lease and no cancellation
   reaches the node any more; the graph stays `cancelling` until its deadline.
4. *Reading a mission starts it* (`mission_unapproved`). `get_mission` refreshes,
   and `refresh_mission` knows no `pending_approval`.

Four more are the reason for an exception that a property names:

* *A rejected task can be queued again.* The M3 runbook says "Rejection cancels the
  task", and its validation that a rejected task "never leases". `grant_approval` reads
  the approval as pending, a rejection commits, and the route writes `approved` and
  `queued` over it. In the same way a late decision can overwrite a task that
  succeeded. `DecisionLands` is the exception in `FinishedUnlessDecided`, which says
  that nothing else can.
* *A success can be left without its undo.* AGT-003: "A task failure fails the graph
  closed, cancels unfinished descendants and materializes declared compensation". A
  worker releases its node on the last attempt, which fails it; the release reads the
  other node as running; that node's completion commits; the release closes the graph
  as `failed` and creates no compensation. `ReleaseEnds` is the exception in
  `ClosesCompensated`. With `fail_task` in place of the release this cannot happen,
  because the unique sequence numbers keep it apart from the completion; the variant
  `HeldByRoute`, without them, breaks the property.
* *A stuck graph fails without compensation.* When no node can go on and none has
  failed, for instance after a rejection, `reconcile_graph` fails the graph and undoes
  nothing (`task_graphs.py` 235-241). It is the second exception in `ClosesCompensated`.
* *Trials used after a reopening are not debited.* The ALPHA-004 runbook says that
  ended campaigns "each debit their hypothesis and trial counts exactly once", its
  validation "exactly-once accounting". A campaign ends, is debited, and is reopened by
  a late or recovered execution that adds trials. When it ends again in the same status
  before the next pass, the cycle's status does not change, so nothing is debited. When
  it ends in another status it is debited a second time in full, until
  `reconstruct_mandate_counters` puts the counter back to the first event of the cycle:
  the repair of `CountersRepaired` removes the double count, and with it the trials
  used since. `AlphaCampaign` realises this: the deadline closes a campaign whose
  execution failed over its size, and `recover_completed_execution` records it and ends
  the campaign again in the same request. `EndsAreDebited` states the sentence of the
  runbook, exactly, for mandates none of whose campaigns was reopened.

Six more follow from the same models and break none of the properties that are stated:
a closer that read a node as queued writes `cancelled` over the lease, or even the
success, that was committed since, where AGT-003 has running work "stop cooperatively";
approving a pending gate after a graph's cancellation or a mission's abort queues the
cancelled task again (`approve_task` does not look at the task's status), and in
the aborted mission it can then be executed; cancelling a compensating graph ends
it as `failed` with its compensation task still queued; a graph whose last node
completes after its deadline is compensated although every node succeeded, because
the deadline is looked at first; a mission whose last checkpoint completes after the
deadline escalation stays `attention_required`; and no code leads from `recovering`
back to `active`, as the M9 state model has it.

The models of the channel and of the alpha programme show seven more. Where one would
break a property, the property excepts it by name:

* *A gate can be silenced.* A listing that read generation 1 before the approval was
  asked again supersedes the notice of generation 2 (`founder_notifications.py`
  157-173), and no later listing revives it; the OPS-001 validation says "Re-armed
  approval generations receive distinct gates and readiness records." `Silenced` is the exception in
  `GateAnnounced`. The notices for ready tasks go through the same two statements.
* *A stray outbox loop can send a notice twice.* After a failed poll two loops can
  both find a notice undelivered; the CHAN-001 runbook says a failed
  acknowledgement is retried "without sending a second Telegram message". `doubt`.
* *A handoff can decide twice.* It is consumed after the decision's answer arrives
  (`gateway.py`); when the answer is lost the command is handled again with a live
  handoff and decides the generation pending then. The CHAN-001 runbook calls
  handoffs single-use. `cut` is the exception in `HandoffUsedOnce`.
* *Parallel campaigns can exceed the mandate's trials.* Each new campaign gets what
  the counter has left (`alpha_discovery.py` 2448), and the counter is debited when
  campaigns end: with one trial and two campaigns, both get one. The ALPHA-004
  runbook describes the budget as that of the mandate.
* *A repeated recovery reopens a campaign.* `recover_completed_execution` sets the
  campaign running before it finds its attempt retained (`alpha_campaign.py` 3690):
  one that ended with a candidate, or was cancelled, goes on with its queue. That is
  why `CampaignLedger!Step` allows an ended campaign to run again.
* *An execution whose receipt is refused stalls its campaign.* `reconcile_campaign`
  consumes a succeeded execution before it looks at the deadline, and what it raises
  rolls the pass back, every time: no attempt receipt, one that cannot be validated
  or published, another digest, commit, dataset or question, more variants than a
  hypothesis may use, an incomplete candidate bridge, or more trials than are left.
  Not even the deadline closes such a campaign. `PassRaises` is the exception in
  `DurationCloses`.
* *A resumed stage that answers with an invalid output flips for ever.* The cycle
  stopped at `needs_attention`; because its stage was resumed after it failed,
  `_recover_resumed_stage` sets it running in every pass and the same pass stops it
  again on the invalid output (`alpha_discovery.py` 2566-2621). No successor is ever
  started, though the ALPHA-004 runbook says that invalid and failed cycles
  "replenish immediately". `Flips` is the exception in `Replenished`.

## 5. Proofs

| Module | Theorems, and the properties they prove |
| --- | --- |
| `TaskLeaseProofs` | `InductiveInvariant`; `TypeCorrect` (`TypeOK`), `LeaseCoherence` (`LeaseCoherent`), `ApprovalGated` (`ApprovalGate`), `AttemptsBudgeted` (`AttemptBudget`), `EveryTokenPaidFor` (`TokenIsPaidFor`); with decisions in flight `RaceInductive`, `DamageContained` (`RaceContained`), `RaceLeasesPaid` (`RaceLeasePaidFor`), `FinishedStays` (`FinishedUnlessDecided`) |
| `TaskGraphProofs` | `InductiveInvariant`; `InDependencyOrder` (`DependencyOrder`), `SuccessFrozen` (`NoSuccessAfterClose`), `SuccessOfAll` (`SuccessMeansAll`); with lease transactions open `RaceInductive`, `PollsKeepApart` (`NoLeaseOverLease`), `ParallelismKeptClose` (`ParallelismOvershoot`), `RaceInDependencyOrder` (`DependencyOrder`), `RaceSuccessFrozen` (`NoSuccessAfterClose`) |
| `MissionSupervisionProofs` | `InductiveInvariant`; `WithinPlan` (`RecoveryWithinPlan`), `InOrder` (`CheckpointOrder`), `AbortLasts` (`AbortedNeverRuns`), `RealSuccess` (`SuccessIsReal`) |
| `FounderChannelProofs` | `TypeCorrect`; `AcknowledgedSent` (`AcknowledgedMeansSent`), `AnnouncedOnce` (`OncePerGeneration`), `HandoffOnce` (`HandoffUsedOnce`) |
| `AlphaCampaignProofs` | `TypeCorrect` (`TypeOK`), `ImplementsLedger` (`KeepsLedger`), `ExecutionsAreGated` (`ExecutionGated`), `BooksAreRight` (`AnswersAccounted`), `BudgetsAreKept` (`OpenedWithinBudget`), `WorkIsWatched` (`LiveWorkIsWatched`), `InvalidAnswersAreEarned` (`InvalidIsEarned`) |
| `AlphaDiscoveryProofs` | `DiscoveryInductive`, `CountersInductive`, `AccountsInductive`; `TypeCorrect` (`TypeOK`), `OneAtWork` (`OneCycleInDiscovery`), `AllGrounded` (`CampaignGrounded`), `EndsDebited` (`EndsAreDebited`) |
| `SumsProofs` | lemmas only |

**Leases.** For any tasks, agents, tokens, scopes, eligibility and pause relations, and
any attempt bounds (assumptions `NoneAssumption` and `LeaseAssumption`: the null value
is no agent, token or task, relations and ranks are well typed, ranks differ). No
invariant but typing is inductive alone. `IInv` is typing, one row invariant for each
row (`RowInv`: lease columns, approval status and attempts agree with the status), and
two facts about tokens: no two rows carry the same token (`TokenPerRow`) and no two
workers remember the same one (`TokenPerWorker`). The argument has three layers. The
row lemmas of `TaskRowsProofs` (`CreatedInv`, `FailedInv`, `ReapedInv`, `LeasedInv`,
...) show that each operator of `TaskRows` keeps `RowInv`, and say what it does to the
token. `RowsStep` and `RowStep` lift that to the table: a step that only keeps or
clears tokens keeps the token facts. `LeaseTaskInv` is the one action that draws a
token, and uses its freshness. The action property needs no further invariant: every
step but the lease draws no token (`TokensKept`); the lease pays for the one it draws
(`PaidFor`), also when its own sweep has just reaped the row (`SweptRow`). `LeaseCoherent`
and `ApprovalGate` are theorems about the locked requests: a late decision of the
unlocked routes does break them (section 4).

**The race of the approvals.** A late decision breaks most of `RowInv`: a row may be queued with its
lease columns set, or leased on an approval that is pending again. What is left is
`RaceInv`: typed rows with their attempts within the budget (`BoundRow`), the two facts
about tokens, and well-typed decisions in flight, for any number of them.
`FinishedStays` needs one fact more: an approval that is asked for belongs to a task
that waits for it (`PendingRow`), so no locked decision reaches a finished task. Worker
calls and sweeps look at the status, also where a late decision left a lease behind.

**Graphs.** `GraphAssumption`: finitely many nodes, typed relations, one undo task per
node that declares one. `reconcile_graph` is a function of the tables, so the invariant
is stated of a status, rows and clock (`GraphInv`) and shown to survive first each kind
of change to the rows and then each part of the reconciliation. Its parts: sound rows
(`SoundRow`, what is left of `RowInv` when a controller may cancel a row and leave its
approval open), nodes that exist as soon as the graph is no draft, held nodes of a
closing graph that have been asked to stop (`Asked`, which is why none succeeds any
more), the dependency order, and `Undone`. The last conjunct of `Undone` is
the subtle one: a fully succeeded graph with undo work is late or over its attempt
budget. Without it a second cancellation could turn a compensation into a success.
These are theorems about requests served one after the other. `DependencyOrder` and
`NoSuccessAfterClose` are proved again with lease transactions open. With the unlocked
node reads of `ReconcileRace` the last conjuncts of `Undone` do not survive (section 4);
what does is checked by `reconcile_race` and not proved.

**Lease transactions.** For any number of agents, each with a transaction open between
its selection and its commit. `LeaseRaceInv` is the graph's `IInv`, two facts about rows
(a live lease is held, `LiveHeld`; nobody has been asked to stop in a graph that is not
closing, `Unasked`), disjoint sets of locked rows, and `TxnFits` for every open
transaction: what it will write over each row is a sweep of the row as committed now,
but for its pick, which it leases once more; the pick has no live lease; and if it is a
node, its graph is active and its dependencies have succeeded. The argument is about
what the others do in the meantime. Their rows change calmly (no new token, success
stays), and whenever a graph stops being active, the same transaction has ended every
node or asked it to stop (`Orderly`). The pick is locked, so that transaction would have
had to wait: the graph stays active until the commit. The commit itself is a sweep
followed by an atomic lease, two steps whose lemmas the graph's proof already has.
For the parallelism (`ParallelismKeptClose`, with `AgentsAssumption`: finitely many)
the invariant is about every way the open transactions may end: whichever subset of
them commits, at most `max_parallelism - 1 + |Agents|` nodes are held then
(`WithinLimit`). A commit is one of the cases that were foreseen, a rollback another; a
new pick counted fewer than `max_parallelism` committed nodes, and each worker, this one
included, adds at most one.

**Sums.** The trial counters are sums over the questions and the cycles. The library's
induction theorems cannot be instantiated here, so `SumsProofs` states induction of sets
(`Induction`: a set of numbers with zero and all successors is `Nat`) and proves it by
least counterexample, from the well-founded order of strict inclusion that
`FiniteSetTheorems` provides. From it follow that the recursive definition of `SumTo`
has a solution and unfolds (`SumUnfolds`), that a sum is a number (`SumIsNat`), depends
on the entries it adds only (`SumSame`), and is below two others when its entries are
(`SumBelow`), or above them (`SumAbove`).

**Missions.** `MissionAssumption`: typed dependencies, ranks and budgets. `IInv` has
sound rows whose gates are the plan's, checkpoints in order, recoveries and attempts
within the plan, success backed by rows, and, once the mission is aborted, every
checkpoint without a gate of its own succeeded or cancelled (`Stopped`), two statuses
that nothing takes such a row out of.

**Founder's channel.** For any number of generations, commands, faults and loops
(`ChannelAssumption`: the bounds are naturals, 0 is no loop). Four inductive
invariants carry them. `Working`: a loop that sends, records or acknowledges has a
notice in hand, a pass that decides has an update. `Delivery`: what is on record as
delivered was sent, what is acknowledged or about to be is on record. `Once`: while
nothing is in doubt, the only loop at work is the one the pass waits for; it sends
nothing that is on record, and a message that was accepted is on record or about to
be. So when it sends, the count was 0 (`OneLoop`). `Handoffs`: a handoff that decided
is consumed, about to be, or cut short, and one about to decide is not consumed. Each
has a lemma for the steps that leave its variables alone and one case per action that
does not. `FirstIsMember` (a list that is not empty has a first notice) is an
induction in disguise: it takes the least of the sets `1..n` in the well-founded order
of strict inclusion that `FiniteSetTheorems` provides.

**Campaigns.** `CampaignAssumption`: positive budgets and known protocols. A request is a
function of the transaction's view, and the proof follows the code: a view that fits
the tables (`Fits`) is taken to one that fits, with no fewer trials, by every part of
`reconcile_campaign`, one lemma each. `Dormant` says that a campaign that awaits its
activation has no task and no attempt. `CommitFits` turns a fitting view into `IInv'`
and a step of `CampaignLedger`; cancellation, recovery and the repeated recovery are
steps of their own. The other properties need more of a view (`Holds`), followed through
the same parts a second time. `Sound`: a stage exists only when what it needs is there
(`Needs`: a design with a card before the qualification, a ready qualification and both
approving reviews before an execution), and succeeded rows stay. `Booked`: exactly the first `done`
questions are answered, the trial counter is the sum of their executions' trials, the
failure counter counts back to an answer that is no failure, and every question that was
opened was opened with trials and failures to spare. `Watched`: where a delegated
campaign is parked out of the director's sight, no work of its question can go on.
`Earned`: an answer `invalid` comes from a rejecting review or from an engineering
ladder that led nowhere (`Rejected`). `FullInv`
is what of it is about a state; `InvalidIsEarned` follows step by step.

**Mandates.** `DiscoveryAssumption`: positive budgets, finitely many candidates. Again
every part of `reconcile_mandate` and every route takes a good view to good views
(`Good`). A cycle that has not started has nothing (`Unborn`). In a started one
(`CycleGood`) accepted candidates are backed by their admissions, a campaign has an
accepted candidate, and no admission is open unless the cycle waits for data. The
newest one (`NewestGood`) has settled the stages before the one it is in. A request
that is half-way through a cycle leaves the others good (`GoodBut`). The revival of an
old admission is safe because the revived task has already ended: the same
transaction decides the cycle again. The counters take a second pass over the same parts
(`Counted`, `FullInv`): campaigns stay within what they were given, every terminal event
records at most that, and the mandate's counter is at least the sum of the events. A
request that ends a campaign raises the counter by no less than it adds to the events,
also when a reopened campaign ends again, and the repair sets the counter to their sum.
That the debit is exact while nothing was reopened takes a third (`Exact`,
`AccountsInductive`): the counter equals the sum of the events, and every event belongs
to an ended campaign and names all its trials. Parts that leave the cycles with a
campaign alone keep it at once (`Steady`); a pass that ends several campaigns debits
each for the first time, so the sum grows by what the counter does (`SumAbove`).

**Only model-checked.** Liveness under fairness, which is out of the prover's reach:
`OrphanRecovered`, `GraphBounded`, `SupervisionEnds`, `DurationCloses`,
`CountersRepaired`, `Replenished`, `GateAnnounced` and `CommandAnswered`. Of
`ReconcileRace` nothing is proved: `UndoOnlyAfterSuccess`, `CompensatedIsUndone`,
`RaceNoSuccessAfterClose` and `ClosesCompensated` hold on the instance of
`reconcile_race`. The four violations of section 4 are counterexamples and have nothing
to prove.

## 6. Not modelled

*Tasks.* What a task does when it runs (executors, workspaces, policies); validation
of manifests and signatures; digests and event chains; the text of task numbers (the
`LIKE` pattern that finds compensation tasks); several graphs or missions at once,
which share only workers; the races composed with each other (a lease transaction, a
late decision and a stale reconciliation at once); a change between a lease's own query
and its consumption of the approval.

*Founder's channel.* Notices for missions, mandates, failures and ready tasks, which
run through the same loop; the review page of a handoff (`_review_handoff`);
conversations and proposals; the expiry of handoffs and the
rate limit as state (an update may be refused at any time); two handoffs of one
notice; security events.

*Campaigns.* The legacy stages G and G2 and the legacy release of approvals; the E2
successor of a malformed execution; the `/attempts` route; the contents of data
bindings (a mismatch is one outcome) and of execution receipts (refused or not); reviews that complete with an invalid receipt;
the resumption of an earlier rung.

*Discovery.* The hypothesis counter (the same statements as the trial counter);
founder ideas as rows; how candidates are validated and compared for novelty (any
verdict is possible); leases of stage tasks; several mandates at once; campaigns after
their mandate has closed.

*The rest of the repository*, the components marked `not_modelled` in `PROJECT.json`,
is most of its 120,000 lines: statistics, document and evidence validation,
retrieval, executors, dashboards, pilots and migrations. They compute over documents
and series or do I/O; they keep no state that other processes race for, so there is
no protocol to model, and a translation of the computation would be longer than the
models here without saying more than a unit test.

## 7. Plan

1. Done: `TaskRows`, `TaskLease`, the three race modules, `TaskGraph`,
   `MissionSupervision`, `FounderChannel`, `CampaignLedger`, `AlphaCampaign`,
   `AlphaDiscovery`, and the proofs of section 5.
2. Proofs: the non-temporal halves of the liveness arguments (what a pass of the
   director or the supervisor leaves settled), and of the modules below.
3. `WorkerDaemon`: one cycle of the worker with its heartbeat task, cooperative
   cancellation, policy refusals and backoff, composed with the lease protocol:
   no work after a lost lease, no starvation by a task that is always refused.
4. Proofs about `ReconcileRace`: what a transaction may still write when it finishes,
   as `TxnFits` has it for the lease.
5. Authority policy (activation, delegation, exceptions), broker tickets, ingestion
   recovery, conversations and proposals.
