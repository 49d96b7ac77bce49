--------------------------- MODULE FounderChannel ---------------------------
(***************************************************************************)
(* The founder's channel: the outbox of the control plane, the Telegram    *)
(* gateway that delivers it and carries decisions back, and one approval   *)
(* that is asked again and again (its generations).                        *)
(*                                                                         *)
(* The gateway runs passes: the outbox loop beside a long poll for         *)
(* updates, then the updates one by one.  A pass whose poll fails leaves   *)
(* its outbox loop running beside the next pass, so a loop is a process of *)
(* its own.  Requests and answers are lost, the gateway dies and restarts. *)
(* GET /notifications is two steps: it reads the approval, and supersedes  *)
(* what it finds in the outbox some statements later.  Every other request *)
(* is one step.  Of the task and its lease only what the channel can tell  *)
(* apart is kept; TaskLease has the rest.                                  *)
(***************************************************************************)
EXTENDS Naturals, Sequences

CONSTANTS MaxGenerations,  \* bound: how often the approval is requested
          MaxCommands,     \* bound: decisions the founder sends
          MaxFaults,       \* bound: lost requests, lost answers and crashes
          Loops            \* bound: outbox loops that can run beside each other

ASSUME ChannelAssumption ==
  /\ MaxGenerations \in Nat \ {0} /\ MaxCommands \in Nat /\ MaxFaults \in Nat
  /\ Loops # {} /\ 0 \notin Loops

\* An approval_required notice is identified by the generation it announces.
Notices == 1..MaxGenerations
NoticeStates == {"none", "waiting", "pending", "acknowledged", "superseded"}
Outstanding == {"pending", "waiting"}
Actions == {"approve", "reject"}

VARIABLES approval,   \* pending, approved, taken (not pending, can be asked again) or closed
          gen,        \* the number of approval_requested events
          blocked,    \* a dependency has not succeeded or the mission is not active
          notice,     \* founder_notifications
          loop,       \* the gateway's outbox loops
          main,       \* the gateway's pass
          delivered,  \* store: notification_deliveries
          consumed,   \* store: handoffs with consumed_at, by the notice they came with
          offset,     \* store: telegram-update-offset
          sent,       \* how often Telegram accepted each notice
          command,    \* the founder's decisions, as Telegram keeps them
          used,       \* how often the handoff of each notice decided
          cut,        \* the handoffs with a decision whose answer the gateway lost
          doubt,      \* a poll failed, or the answer to a sent message was lost
          faults      \* how many faults have happened

server == <<approval, gen, blocked, notice>>
store == <<delivered, consumed, offset>>
chat == <<sent, command>>
history == <<used, cut, doubt>>
vars == <<server, loop, main, store, chat, history, faults>>

Idle == [at |-> "idle", items |-> {}, current |-> 0, write |-> "none"]
NoPass == [at |-> "idle", loop |-> 0]

TypeOK ==
  /\ approval \in {"pending", "approved", "taken", "closed"}
  /\ gen \in Notices /\ blocked \in BOOLEAN
  /\ notice \in [Notices -> NoticeStates]
  /\ loop \in [Loops -> [at : {"idle", "list", "reading", "abandoned", "next", "send", "sent", "ack"},
                         items : SUBSET Notices, current : 0..MaxGenerations,
                         write : Outstanding \cup {"none"}]]
  /\ main \in [at : {"idle", "gather", "updates", "decide", "consume", "answer"},
               loop : Loops \cup {0}]
  /\ delivered \subseteq Notices /\ consumed \subseteq Notices /\ cut \subseteq Notices
  /\ offset \in 0..Len(command) /\ Len(command) <= MaxCommands
  /\ command \in Seq([handoff : Notices, action : Actions])
  /\ sent \in [Notices -> Nat] /\ used \in [Notices -> Nat]
  /\ doubt \in BOOLEAN /\ faults \in 0..MaxFaults

\* A gated task was created: create_approval with enqueue_approval_gate.
Init ==
  /\ approval = "pending" /\ gen = 1 /\ blocked \in BOOLEAN
  /\ notice = [n \in Notices |-> IF n = 1 THEN "waiting" ELSE "none"]
  /\ loop = [l \in Loops |-> Idle] /\ main = NoPass
  /\ delivered = {} /\ consumed = {} /\ offset = 0
  /\ sent = [n \in Notices |-> 0] /\ command = <<>>
  /\ used = [n \in Notices |-> 0] /\ cut = {}
  /\ doubt = FALSE /\ faults = 0

-----------------------------------------------------------------------------
(* The approval and its notices.                                           *)

\* rearm_task_approval, from every route that asks again: the outstanding notices are
\* superseded under lock and the new one is written with the event that numbers it.
AskAgain ==
  /\ approval # "closed" /\ gen < MaxGenerations
  /\ approval' = "pending" /\ gen' = gen + 1
  /\ notice' = [n \in Notices |->
       IF n = gen + 1 THEN "waiting"
       ELSE IF notice[n] \in Outstanding THEN "superseded" ELSE notice[n]]

\* approve_task, and decide_task with "reject".
Decide(action) ==
  /\ approval' = IF action = "approve" THEN "approved" ELSE "closed"
  /\ UNCHANGED <<gen, notice>>

\* approval_readiness.
Actionable == approval = "pending" /\ ~blocked

\* Requests beside the channel: an approval is decided elsewhere, consumed by a lease,
\* expired or revoked, asked again, and done with.
OtherRequest ==
  /\ \/ AskAgain
     \/ approval = "pending" /\ \E action \in Actions : Decide(action)
     \/ approval = "approved" /\ approval' = "taken" /\ UNCHANGED <<gen, notice>>
     \/ approval = "taken" /\ approval' = "closed" /\ UNCHANGED <<gen, notice>>
  /\ UNCHANGED <<blocked, loop, main, store, chat, history, faults>>

\* A dependency succeeds or is resumed; the mission becomes active or stops.
ReadinessMoves ==
  /\ blocked' = ~blocked
  /\ UNCHANGED <<approval, gen, notice, loop, main, store, chat, history, faults>>

-----------------------------------------------------------------------------
(* The outbox loop of the gateway.                                         *)

\* Notices are listed in the order they were created.
First(items) == CHOOSE n \in items : \A other \in items : n <= other

\* An exception in a loop fails the pass that waits for it; a stray loop just ends.  What
\* the control plane has begun it finishes.  A refusal (409) is not retryable: it ends
\* the process, and systemd starts it again.
Awaited(l) == main.at = "gather" /\ main.loop = l
Abandoned(r) == IF r.at \in {"reading", "abandoned"} THEN [r EXCEPT !.at = "abandoned"] ELSE Idle
Restarted == main' = NoPass /\ loop' = [l \in Loops |-> Abandoned(loop[l])]
LoopFails(l) ==
  /\ loop' = [loop EXCEPT ![l] = Abandoned(@)]
  /\ main' = IF Awaited(l) THEN NoPass ELSE main

\* Variant for mutation: a gate whose dependencies are done is not made pending.
ListReadUnpromoted(l) ==
  /\ loop[l].at = "list"
  /\ loop' = [loop EXCEPT ![l] = [Idle EXCEPT !.at = "reading",
                                !.current = IF approval = "pending" THEN gen ELSE 0]]
  /\ UNCHANGED <<server, main, store, chat, history, faults>>

\* list_notifications, first half: the pending approval, its generation, its readiness
\* and its notice, which _insert_once always finds.  A write is due when the desired
\* state differs from the loaded one.
ListRead(l) ==
  LET desired == IF blocked THEN "waiting" ELSE "pending"
      read == IF approval # "pending" THEN Idle
              ELSE [Idle EXCEPT !.current = gen,
                                !.write = IF notice[gen] \in Outstanding \ {desired} THEN desired ELSE @]
  IN  /\ loop[l].at = "list"
      /\ loop' = [loop EXCEPT ![l] = [read EXCEPT !.at = "reading"]]
      /\ UNCHANGED <<server, main, store, chat, history, faults>>

\* list_notifications, second half and commit: every outstanding notice but the one read
\* as current is superseded, and what is pending afterwards is the answer.
ListWrite(l) ==
  /\ loop[l].at \in {"reading", "abandoned"}
  /\ notice' = [n \in Notices |->
       IF n = loop[l].current THEN (IF loop[l].write = "none" THEN notice[n] ELSE loop[l].write)
       ELSE IF notice[n] \in Outstanding THEN "superseded" ELSE notice[n]]
  /\ loop' = [loop EXCEPT ![l] =
       IF @.at = "abandoned" THEN Idle
       ELSE [Idle EXCEPT !.at = "next", !.items = {n \in Notices : notice'[n] = "pending"}]]
  /\ UNCHANGED <<approval, gen, blocked, main, store, chat, history, faults>>

\* Variant for mutation: the record of deliveries is not looked at.
NextItemUnrecorded(l) ==
  /\ loop[l].at = "next"
  /\ loop' = [loop EXCEPT ![l] = IF @.items = {} THEN Idle ELSE [@ EXCEPT !.at = "send"]]
  /\ UNCHANGED <<server, main, store, chat, history, faults>>

\* The next notice of the list: a delivered one is only acknowledged.
NextItem(l) ==
  /\ loop[l].at = "next"
  /\ loop' = [loop EXCEPT ![l] =
       IF @.items = {} THEN Idle
       ELSE [@ EXCEPT !.at = IF First(loop[l].items) \in delivered THEN "ack" ELSE "send"]]
  /\ UNCHANGED <<server, main, store, chat, history, faults>>

\* Variant for mutation: a failed send is taken for a delivery.
SendSwallowed(l) ==
  /\ loop[l].at = "send"
  /\ loop' = [loop EXCEPT ![l].at = "sent"]
  /\ UNCHANGED <<server, main, store, chat, history, faults>>

\* Telegram accepts the message, which carries the handoff created for it.
Send(l) ==
  /\ loop[l].at = "send"
  /\ sent' = [sent EXCEPT ![First(loop[l].items)] = @ + 1]
  /\ loop' = [loop EXCEPT ![l].at = "sent"]
  /\ UNCHANGED <<server, main, store, command, history, faults>>

MarkDelivered(l) ==
  /\ loop[l].at = "sent"
  /\ delivered' = delivered \cup {First(loop[l].items)}
  /\ loop' = [loop EXCEPT ![l].at = "ack"]
  /\ UNCHANGED <<server, main, consumed, offset, chat, history, faults>>

\* acknowledge_notification, under the row's lock; refused when no longer active.
Acknowledge(l) ==
  LET n == First(loop[l].items)
  IN  /\ loop[l].at = "ack"
      /\ \/ /\ notice[n] \in {"pending", "acknowledged"}
            /\ notice' = [notice EXCEPT ![n] = "acknowledged"]
            /\ loop' = [loop EXCEPT ![l].at = "next", ![l].items = @ \ {n}]
            /\ UNCHANGED main
         \/ /\ notice[n] \notin {"pending", "acknowledged"}
            /\ IF Awaited(l) THEN Restarted ELSE LoopFails(l)
            /\ UNCHANGED notice
      /\ UNCHANGED <<approval, gen, blocked, store, chat, history, faults>>

LoopStep(l) ==
  ListRead(l) \/ ListWrite(l) \/ NextItem(l) \/ Send(l) \/ MarkDelivered(l) \/ Acknowledge(l)

-----------------------------------------------------------------------------
(* The pass of the gateway.                                                *)

Current == command[offset + 1]

\* run_once: the outbox loop starts beside the poll.
StartPass(l) ==
  /\ main.at = "idle" /\ loop[l].at = "idle"
  /\ main' = [at |-> "gather", loop |-> l]
  /\ loop' = [loop EXCEPT ![l] = [Idle EXCEPT !.at = "list"]]
  /\ UNCHANGED <<server, store, chat, history, faults>>

GatherDone ==
  /\ main.at = "gather" /\ loop[main.loop].at = "idle"
  /\ main' = [at |-> "updates", loop |-> 0]
  /\ UNCHANGED <<server, loop, store, chat, history, faults>>

\* _handle_update and _decide_handoff up to the check of the approval as it is listed now.
\* Without a decision the founder gets an answer too: throttled, handoff used or expired,
\* approval no longer pending.
HandleUpdate ==
  /\ main.at = "updates"
  /\ \/ offset = Len(command) /\ main' = NoPass
     \/ offset < Len(command) /\ main' = [main EXCEPT !.at = "answer"]
     \/ /\ offset < Len(command) /\ Current.handoff \notin consumed /\ Actionable
        /\ main' = [main EXCEPT !.at = "decide"]
  /\ UNCHANGED <<server, loop, store, chat, history, faults>>

\* decide_approval of the control plane, which locks the approval and checks again.
DecideApproval ==
  LET allowed == IF Current.action = "approve" THEN Actionable ELSE approval = "pending"
  IN  /\ main.at = "decide"
      /\ \/ /\ allowed
            /\ Decide(Current.action)
            /\ used' = [used EXCEPT ![Current.handoff] = @ + 1]
            /\ main' = [main EXCEPT !.at = "consume"]
            /\ UNCHANGED loop
         \/ /\ ~allowed
            /\ Restarted
            /\ UNCHANGED <<approval, gen, notice, used>>
      /\ UNCHANGED <<blocked, store, chat, cut, doubt, faults>>

\* Variant for mutation: the handoff is not consumed.
KeepHandoff ==
  /\ main.at = "consume"
  /\ main' = [main EXCEPT !.at = "answer"]
  /\ UNCHANGED <<server, loop, store, chat, history, faults>>

ConsumeHandoff ==
  /\ main.at = "consume"
  /\ consumed' = consumed \cup {Current.handoff}
  /\ main' = [main EXCEPT !.at = "answer"]
  /\ UNCHANGED <<server, loop, delivered, offset, chat, history, faults>>

\* Variant for mutation: the pass ends without committing the offset.
AnswerUncommitted ==
  /\ main.at = "answer"
  /\ main' = NoPass
  /\ UNCHANGED <<server, loop, store, chat, history, faults>>

\* The reply to the founder, then commit_polling_offset.
Answer ==
  /\ main.at = "answer"
  /\ offset' = offset + 1
  /\ main' = [main EXCEPT !.at = "updates"]
  /\ UNCHANGED <<server, loop, delivered, consumed, chat, history, faults>>

MainStep ==
  \/ \E l \in Loops : StartPass(l)
  \/ GatherDone \/ HandleUpdate \/ DecideApproval \/ ConsumeHandoff \/ Answer

-----------------------------------------------------------------------------
(* The founder and faults.                                                 *)

\* The founder follows the link of a message and sends /approve or /reject.
FounderDecides(n, action) ==
  /\ Len(command) < MaxCommands /\ sent[n] > 0
  /\ command' = Append(command, [handoff |-> n, action |-> action])
  /\ UNCHANGED <<server, loop, main, store, sent, history, faults>>

Fault == faults < MaxFaults /\ faults' = faults + 1

\* The poll for updates fails: the pass is over, its outbox loop is not.
PollFails ==
  /\ main.at = "gather" /\ Fault
  /\ main' = NoPass /\ doubt' = TRUE
  /\ UNCHANGED <<server, loop, store, chat, used, cut>>

\* A request of the loop, or its answer, is lost: what was done stays done.
LoopRequestLost(l) ==
  /\ loop[l].at \in {"list", "reading", "send", "sent", "ack"} /\ Fault
  /\ LoopFails(l)
  /\ doubt' = (doubt \/ loop[l].at = "sent")
  /\ UNCHANGED <<server, store, chat, used, cut>>

AcknowledgementLost(l) ==
  LET n == First(loop[l].items)
  IN  /\ loop[l].at = "ack" /\ notice[n] = "pending" /\ Fault
      /\ notice' = [notice EXCEPT ![n] = "acknowledged"]
      /\ LoopFails(l)
      /\ UNCHANGED <<approval, gen, blocked, store, chat, history>>

\* A decision that was made and not yet consumed is cut short.
CutShort == cut' = IF main.at = "consume" THEN cut \cup {Current.handoff} ELSE cut

\* A request of the pass, or its answer, is lost; the update will be handled again.
UpdateRequestLost ==
  /\ main.at \in {"updates", "decide", "consume", "answer"} /\ Fault
  /\ main' = NoPass /\ CutShort
  /\ UNCHANGED <<server, loop, store, chat, used, doubt>>

GatewayCrashes ==
  /\ Fault
  /\ Restarted /\ CutShort
  /\ doubt' = (doubt \/ \E l \in Loops : loop[l].at = "sent")
  /\ UNCHANGED <<server, store, chat, used>>

-----------------------------------------------------------------------------

Next ==
  \/ OtherRequest
  \/ ReadinessMoves
  \/ MainStep
  \/ \E l \in Loops : LoopStep(l) \/ LoopRequestLost(l) \/ AcknowledgementLost(l)
  \/ \E n \in Notices, action \in Actions : FounderDecides(n, action)
  \/ PollFails \/ UpdateRequestLost \/ GatewayCrashes

Spec == Init /\ [][Next]_vars

\* The gateway's event loop runs every coroutine that can go on; systemd restarts it.
FairSpec == Spec /\ WF_vars(MainStep) /\ \A l \in Loops : WF_vars(LoopStep(l))

-----------------------------------------------------------------------------
(* Safety.                                                                 *)

\* ops-001: "Telegram acknowledges a notification only after a successful send": whatever
\* is lost or repeated, an acknowledged notice was sent, and its delivery is on record.
AcknowledgedMeansSent ==
  \A n \in Notices : notice[n] = "acknowledged" => sent[n] > 0 /\ n \in delivered

\* chan-001: "A failed acknowledgement is retried without sending a second Telegram
\* message": a notice is announced once, whatever requests are lost, refused or repeated
\* and whenever the gateway restarts.  The exceptions are a message whose acceptance the
\* gateway could not know of, and a poll that fails and leaves its outbox loop running.
OncePerGeneration == ~doubt => \A n \in Notices : sent[n] <= 1

\* A handoff decides once.  The exception is a decision whose answer the gateway lost:
\* the handoff is still live, and the redelivered command decides whatever generation is
\* then pending.
HandoffUsedOnce == \A n \in Notices : used[n] > 1 => n \in cut

-----------------------------------------------------------------------------
(* Liveness.                                                               *)

\* The race of list_notifications: a listing that read the approval before it was asked
\* again supersedes the new generation's notice, and no later listing brings it back.
Silenced(n) == notice[n] = "superseded"

\* A gate the founder can act on is announced, or stops being actionable, or was silenced
\* by that race.
Unannounced(n) == gen = n /\ Actionable /\ sent[n] = 0 /\ ~Silenced(n)
GateAnnounced == \A n \in Notices : Unannounced(n) ~> ~Unannounced(n)

\* Every command the founder sends is answered, through refusals, restarts and repeats,
\* once the readiness of the task settles: a change between the gateway's check and the
\* decision is a refusal that ends the process, and could do so every time.
CommandAnswered ==
  (<>[]blocked \/ <>[]~blocked)
    => \A i \in 1..MaxCommands : Len(command) >= i ~> offset >= i

=============================================================================
