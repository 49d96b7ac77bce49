------------------------ MODULE FounderChannelProofs ------------------------
(***************************************************************************)
(* Machine-checked proofs of the safety of FounderChannel, for any number  *)
(* of generations, commands, faults and outbox loops beside each other:    *)
(* its type invariant, that an acknowledged notice was sent, that a gate   *)
(* is announced once, and that a handoff decides once.                     *)
(*                                                                         *)
(* Four inductive invariants, each resting on the ones before: what the    *)
(* gateway works on exists (Working), what is on record as delivered was   *)
(* sent (Delivery), a loop that nobody waits for is in doubt (Once), and a *)
(* used handoff is consumed, about to be, or cut short (Handoffs).         *)
(***************************************************************************)
EXTENDS FounderChannel, FiniteSetTheorems, TLAPS

\* A loop that sends, records or acknowledges has a notice in hand; a pass that decides,
\* consumes or answers has an update in hand.
Working ==
  /\ \A l \in Loops : loop[l].at \in {"send", "sent", "ack"} => loop[l].items # {}
  /\ main.at \in {"decide", "consume", "answer"} => offset < Len(command)

\* A delivery on record was sent; what is acknowledged, or about to be, is on record.
Delivery ==
  /\ \A n \in delivered : sent[n] > 0
  /\ \A n \in Notices : notice[n] = "acknowledged" => n \in delivered
  /\ \A l \in Loops :
       /\ loop[l].at = "sent" => sent[First(loop[l].items)] > 0
       /\ loop[l].at = "ack" => First(loop[l].items) \in delivered

\* The places where a loop can still send.
Busy == {"list", "reading", "next", "send", "sent", "ack"}

\* When nothing is in doubt only the loop the pass waits for works, it sends what is not on
\* record, and a message that was accepted is on record or about to be.
Once ==
  ~doubt =>
    /\ \A l \in Loops : loop[l].at \in Busy => Awaited(l)
    /\ \A l \in Loops : loop[l].at = "send" => First(loop[l].items) \notin delivered
    /\ \A n \in Notices : sent[n] <= 1
    /\ \A n \in Notices : sent[n] > 0 =>
         n \in delivered \/ \E l \in Loops : loop[l].at = "sent" /\ First(loop[l].items) = n

\* A handoff that decided is consumed, about to be, or was cut short.
Handoffs ==
  /\ main.at = "decide" => Current.handoff \notin consumed
  /\ \A n \in Notices :
       /\ used[n] > 0 =>
            n \in consumed \/ n \in cut \/ (main.at = "consume" /\ Current.handoff = n)
       /\ used[n] > 1 => n \in cut

-----------------------------------------------------------------------------
(* The first notice of a list.                                             *)

\* ORDER BY created_at: a list that is not empty has a first notice.  The proof takes the
\* smallest of the sets 1..n in the well-founded order of strict inclusion.
LEMMA FirstIsMember ==
  ASSUME NEW S \in SUBSET Nat, S # {}
  PROVE  First(S) \in S
<1> DEFINE T == {1..n : n \in S}
           R == StrictSubsetOrdering(Nat)
<1>1. T \subseteq FiniteSubsetsOf(Nat) /\ T # {}
  <2>1. ASSUME NEW n \in S PROVE 1..n \in FiniteSubsetsOf(Nat)
    <3>1. 1..n \in SUBSET Nat /\ n \in Int
      OBVIOUS
    <3>2. IsFiniteSet(1..n)
      BY <3>1, FS_Interval
    <3> QED BY <3>1, <3>2 DEF FiniteSubsetsOf
  <2> QED BY <2>1
<1>2. IsWellFoundedOn(R, FiniteSubsetsOf(Nat))
  BY FS_StrictSubsetOrderingWellFounded
<1>3. \E x \in T : \A y \in T : ~(<<y, x>> \in R)
  <2> HIDE DEF T, R
  <2> QED BY <1>1, <1>2, WFMin
<1>4. PICK n \in S : \A m \in S : ~(<<1..m, 1..n>> \in R)
  BY <1>3
<1>5. \A m \in S : n <= m
  <2> SUFFICES ASSUME NEW m \in S, m < n PROVE FALSE
    OBVIOUS
  <2>1. 1..m \subseteq 1..n /\ n \in 1..n /\ n \notin 1..m
    OBVIOUS
  <2>2. <<1..m, 1..n>> \in R
    BY <2>1 DEF StrictSubsetOrdering
  <2> QED BY <2>2, <1>4
<1> QED BY <1>5 DEF First

\* The notice in hand is a notice.
LEMMA InHand ==
  ASSUME TypeOK, NEW l \in Loops, loop[l].items # {}
  PROVE  First(loop[l].items) \in loop[l].items /\ First(loop[l].items) \in Notices
<1>1. loop[l].items \in SUBSET Notices
  BY DEF TypeOK
<1>2. loop[l].items \in SUBSET Nat
  BY <1>1 DEF Notices
<1> QED BY <1>1, <1>2, FirstIsMember

-----------------------------------------------------------------------------
(* The type invariant.                                                     *)

\* The sets the type invariant speaks of.
LoopRow == [at : {"idle", "list", "reading", "abandoned", "next", "send", "sent", "ack"},
            items : SUBSET Notices, current : 0..MaxGenerations,
            write : Outstanding \cup {"none"}]
MainRow == [at : {"idle", "gather", "updates", "decide", "consume", "answer"},
            loop : Loops \cup {0}]

\* An exception leaves a loop idle, or the server to finish what it began.
LEMMA AbandonedRow ==
  ASSUME NEW r \in LoopRow
  PROVE  Abandoned(r) \in LoopRow /\ Abandoned(r).at \in {"idle", "abandoned"}
BY ChannelAssumption DEF Abandoned, Idle, LoopRow, Notices

\* The update in hand is one the founder sent.
LEMMA CurrentIsCommand ==
  ASSUME TypeOK, offset < Len(command)
  PROVE  Current.handoff \in Notices /\ Current.action \in Actions
<1> DEFINE Commands == [handoff : Notices, action : Actions]
<1>1. command \in Seq(Commands) /\ offset \in 0..Len(command)
  BY DEF TypeOK
<1>2. Current \in Commands
  <2> HIDE DEF Commands
  <2>1. Len(command) \in Nat /\ offset + 1 \in 1..Len(command)
    BY <1>1
  <2> QED BY <1>1, <2>1 DEF Current
<1> QED BY <1>2

\* Restarted and LoopFails keep the gateway well typed and leave nothing in hand.
LEMMA FailingRows ==
  ASSUME TypeOK, Working, NEW l \in Loops, Restarted \/ LoopFails(l)
  PROVE  /\ loop' \in [Loops -> LoopRow] /\ main' \in MainRow
         /\ \A k \in Loops : loop'[k].at \in {"send", "sent", "ack"} => loop'[k].items # {}
         /\ main'.at \in {"decide", "consume", "answer"} => main' = main
<1>1. loop \in [Loops -> LoopRow] /\ main \in MainRow
  BY DEF TypeOK, LoopRow, MainRow
<1>2. NoPass \in MainRow /\ NoPass.at = "idle"
  BY DEF NoPass, MainRow
<1>3. CASE Restarted
  BY <1>1, <1>2, <1>3, AbandonedRow DEF Restarted
<1>4. CASE LoopFails(l)
  BY <1>1, <1>2, <1>4, AbandonedRow DEF LoopFails, Working
<1> QED BY <1>3, <1>4

\* The tables, the store, the gateway and the chat stay well typed, and what the gateway
\* works on exists.
THEOREM TypeCorrect == Spec => [](TypeOK /\ Working)
<1> USE ChannelAssumption
<1>1. Init => TypeOK /\ Working
  <2> SUFFICES ASSUME Init PROVE TypeOK /\ Working
    OBVIOUS
  <2>1. command \in Seq([handoff : Notices, action : Actions]) /\ Len(command) = 0
    BY DEF Init
  <2>2. loop \in [Loops -> LoopRow] /\ \A l \in Loops : loop[l].at = "idle"
    BY DEF Init, Idle, LoopRow
  <2>3. main \in MainRow /\ main.at = "idle"
    BY DEF Init, NoPass, MainRow
  <2>4. notice \in [Notices -> NoticeStates] /\ gen \in Notices
    BY DEF Init, Notices, NoticeStates
  <2>5. sent \in [Notices -> Nat] /\ used \in [Notices -> Nat]
    BY DEF Init
  <2>6. /\ offset \in 0..Len(command) /\ Len(command) <= MaxCommands
        /\ faults \in 0..MaxFaults
    BY <2>1 DEF Init
  <2>7. approval = "pending" /\ delivered = {} /\ consumed = {} /\ cut = {}
    BY DEF Init
  <2>8. blocked \in BOOLEAN /\ doubt \in BOOLEAN
    BY DEF Init
  <2>9. Working
    BY <2>2, <2>3 DEF Working
  <2> QED BY <2>1, <2>2, <2>3, <2>4, <2>5, <2>6, <2>7, <2>8, <2>9 DEF TypeOK, LoopRow, MainRow
<1>2. TypeOK /\ Working /\ [Next]_vars => (TypeOK /\ Working)'
  <2> SUFFICES ASSUME TypeOK, Working, [Next]_vars PROVE TypeOK' /\ Working'
    OBVIOUS
  <2>t. /\ loop \in [Loops -> LoopRow] /\ main \in MainRow /\ notice \in [Notices -> NoticeStates]
        /\ gen \in Notices /\ gen \in Nat
    BY DEF TypeOK, LoopRow, MainRow, Notices
  <2>o. offset \in Nat /\ Len(command) \in Nat /\ offset <= Len(command)
    BY DEF TypeOK
  <2>s. \A l \in Loops : loop[l] \in LoopRow
    BY <2>t
  <2>1. CASE OtherRequest
    <3>1. approval' \in {"pending", "approved", "taken", "closed"} /\ gen' \in Notices
          /\ notice' \in [Notices -> NoticeStates]
      BY <2>1, <2>t DEF OtherRequest, AskAgain, Decide, Actions, Notices, NoticeStates
    <3> QED BY <2>1, <3>1 DEF OtherRequest, TypeOK, Working, store, chat, history
  <2>2. CASE ReadinessMoves
    BY <2>2 DEF ReadinessMoves, TypeOK, Working, store, chat, history
  <2>3. CASE \E l \in Loops : ListRead(l)
    <3>1. PICK l \in Loops : ListRead(l)
      BY <2>3
    <3>2. loop' \in [Loops -> LoopRow]
          /\ \A k \in Loops : loop'[k].at \in {"send", "sent", "ack"} => loop[k] = loop'[k]
      <4> DEFINE desired == IF blocked THEN "waiting" ELSE "pending"
                 read == IF approval # "pending" THEN Idle
                         ELSE [Idle EXCEPT !.current = gen,
                                 !.write = IF notice[gen] \in Outstanding \ {desired} THEN desired ELSE @]
                 row == [read EXCEPT !.at = "reading"]
      <4>1. gen \in 0..MaxGenerations /\ desired \in Outstanding
        BY <2>t DEF Notices, Outstanding
      <4>2. row \in LoopRow /\ row.at = "reading"
        <5>1. Idle \in LoopRow
          BY DEF Idle, LoopRow
        <5>2. read \in LoopRow
          <6> HIDE DEF desired
          <6> QED BY <5>1, <4>1 DEF LoopRow
        <5> HIDE DEF read
        <5> QED BY <5>2 DEF LoopRow
      <4>3. loop' = [loop EXCEPT ![l] = row]
        BY <3>1 DEF ListRead
      <4> HIDE DEF row
      <4> QED BY <4>2, <4>3, <2>t
    <3> QED BY <3>1, <3>2 DEF ListRead, TypeOK, Working, server, store, chat, history, LoopRow
  <2>4. CASE \E l \in Loops : ListWrite(l)
    <3>1. PICK l \in Loops : ListWrite(l)
      BY <2>4
    <3>2. notice' \in [Notices -> NoticeStates]
      BY <3>1, <2>t, <2>s DEF ListWrite, LoopRow, NoticeStates, Outstanding
    <3>3. loop' \in [Loops -> LoopRow]
          /\ \A k \in Loops : loop'[k].at \in {"send", "sent", "ack"} => loop[k] = loop'[k]
      <4> DEFINE listed == {n \in Notices : notice'[n] = "pending"}
                 row == IF loop[l].at = "abandoned" THEN Idle
                        ELSE [Idle EXCEPT !.at = "next", !.items = listed]
      <4>1. row \in LoopRow /\ row.at \in {"idle", "next"}
        <5>1. listed \in SUBSET Notices
          OBVIOUS
        <5> HIDE DEF listed
        <5>2. Idle \in LoopRow /\ Idle.at = "idle"
          BY DEF Idle, LoopRow
        <5>3. [Idle EXCEPT !.at = "next", !.items = listed] \in LoopRow
          BY <5>1, <5>2 DEF LoopRow
        <5>4. [Idle EXCEPT !.at = "next", !.items = listed].at = "next"
          BY DEF Idle
        <5> QED BY <5>2, <5>3, <5>4
      <4>2. loop' = [loop EXCEPT ![l] = row]
        BY <3>1 DEF ListWrite
      <4> HIDE DEF row
      <4> QED BY <4>1, <4>2, <2>t
    <3> QED BY <3>1, <3>2, <3>3 DEF ListWrite, TypeOK, Working, store, chat, history, LoopRow
  <2>5. CASE \E l \in Loops : NextItem(l)
    <3>1. PICK l \in Loops : NextItem(l)
      BY <2>5
    <3>2. loop' \in [Loops -> LoopRow]
          /\ \A k \in Loops : loop'[k].at \in {"send", "sent", "ack"} => loop'[k].items # {}
      BY <3>1, <2>t DEF NextItem, Idle, LoopRow, Notices, Working
    <3> QED BY <3>1, <3>2 DEF NextItem, TypeOK, Working, server, store, chat, history, LoopRow
  <2>6. CASE \E l \in Loops : Send(l)
    <3>1. PICK l \in Loops : Send(l)
      BY <2>6
    <3>2. loop' \in [Loops -> LoopRow]
          /\ \A k \in Loops : loop'[k].at \in {"send", "sent", "ack"} => loop'[k].items # {}
      BY <3>1, <2>t DEF Send, LoopRow, Working
    <3>3. sent' \in [Notices -> Nat]
      <4>1. First(loop[l].items) \in Notices /\ sent \in [Notices -> Nat]
        BY <3>1, InHand DEF Send, TypeOK, Working
      <4> HIDE DEF Notices
      <4> QED BY <3>1, <4>1 DEF Send
    <3> QED BY <3>1, <3>2, <3>3 DEF Send, TypeOK, Working, server, store, history, LoopRow
  <2>7. CASE \E l \in Loops : MarkDelivered(l)
    <3>1. PICK l \in Loops : MarkDelivered(l)
      BY <2>7
    <3>2. loop' \in [Loops -> LoopRow]
          /\ \A k \in Loops : loop'[k].at \in {"send", "sent", "ack"} => loop'[k].items # {}
      BY <3>1, <2>t DEF MarkDelivered, LoopRow, Working
    <3>3. delivered' \subseteq Notices
      BY <3>1, InHand DEF MarkDelivered, TypeOK, Working
    <3> QED BY <3>1, <3>2, <3>3 DEF MarkDelivered, TypeOK, Working, server, chat, history, LoopRow
  <2>8. CASE \E l \in Loops : Acknowledge(l)
    <3>1. PICK l \in Loops : Acknowledge(l)
      BY <2>8
    <3>2. /\ loop' \in [Loops -> LoopRow] /\ main' \in MainRow
          /\ \A k \in Loops : loop'[k].at \in {"send", "sent", "ack"} => loop'[k].items # {}
          /\ main'.at \in {"decide", "consume", "answer"} => main' = main
      <4>1. CASE Restarted \/ LoopFails(l)
        BY <4>1, FailingRows
      <4>2. CASE loop' = [loop EXCEPT ![l].at = "next", ![l].items = @ \ {First(loop[l].items)}]
                 /\ UNCHANGED main
        BY <4>2, <2>t DEF LoopRow, Working
      <4> QED BY <3>1, <4>1, <4>2 DEF Acknowledge
    <3>3. notice' \in [Notices -> NoticeStates]
      BY <3>1, <2>t DEF Acknowledge, NoticeStates
    <3> QED BY <3>1, <3>2, <3>3 DEF Acknowledge, TypeOK, Working, store, chat, history, LoopRow, MainRow
  <2>9. CASE \E l \in Loops : StartPass(l)
    <3>1. PICK l \in Loops : StartPass(l)
      BY <2>9
    <3>2. /\ loop' \in [Loops -> LoopRow] /\ main' \in MainRow /\ main'.at = "gather"
          /\ \A k \in Loops : loop'[k].at \in {"send", "sent", "ack"} => loop[k] = loop'[k]
      BY <3>1, <2>t DEF StartPass, Idle, LoopRow, MainRow, Notices
    <3> QED BY <3>1, <3>2 DEF StartPass, TypeOK, Working, server, store, chat, history, LoopRow, MainRow
  <2>10. CASE GatherDone
    BY <2>10 DEF GatherDone, TypeOK, Working, server, store, chat, history
  <2>11. CASE HandleUpdate
    BY <2>11 DEF HandleUpdate, NoPass, TypeOK, Working, server, store, chat, history
  <2>12. CASE DecideApproval
    <3>1. Current.handoff \in Notices /\ Current.action \in Actions
      BY <2>12, CurrentIsCommand DEF DecideApproval, Working
    <3>2. CASE Restarted /\ UNCHANGED <<approval, gen, notice, used>>
      <4>1. PICK l \in Loops : TRUE
        OBVIOUS
      <4>2. /\ loop' \in [Loops -> LoopRow] /\ main' \in MainRow
            /\ \A k \in Loops : loop'[k].at \in {"send", "sent", "ack"} => loop'[k].items # {}
            /\ main'.at \in {"decide", "consume", "answer"} => main' = main
        BY <3>2, <4>1, FailingRows
      <4> QED BY <2>12, <3>2, <4>2 DEF DecideApproval, TypeOK, Working, store, chat, LoopRow, MainRow
    <3>3. CASE /\ Decide(Current.action) /\ used' = [used EXCEPT ![Current.handoff] = @ + 1]
               /\ main' = [main EXCEPT !.at = "consume"] /\ UNCHANGED loop
      <4>1. used' \in [Notices -> Nat]
        BY <3>1, <3>3 DEF TypeOK
      <4>2. main' \in MainRow
        BY <3>3, <2>t DEF MainRow
      <4>3. approval' \in {"approved", "closed"} /\ UNCHANGED <<gen, notice>>
        BY <3>3 DEF Decide
      <4> QED BY <2>12, <3>3, <4>1, <4>2, <4>3 DEF DecideApproval, TypeOK, Working, store, chat, MainRow
    <3> QED BY <2>12, <3>2, <3>3 DEF DecideApproval
  <2>13. CASE ConsumeHandoff
    <3>1. Current.handoff \in Notices /\ Current.action \in Actions
      BY <2>13, CurrentIsCommand DEF ConsumeHandoff, Working
    <3> QED BY <2>13, <3>1 DEF ConsumeHandoff, TypeOK, Working, server, chat, history
  <2>14. CASE Answer
    <3>1. offset' \in 0..Len(command)
      BY <2>14, <2>o DEF Answer, Working
    <3>2. main' \in MainRow /\ main'.at = "updates"
      BY <2>14, <2>t DEF Answer, MainRow
    <3> QED BY <2>14, <3>1, <3>2 DEF Answer, TypeOK, Working, server, chat, history, MainRow
  <2>15. CASE \E n \in Notices, action \in Actions : FounderDecides(n, action)
    <3>1. PICK n \in Notices, action \in Actions : FounderDecides(n, action)
      BY <2>15
    <3>2. /\ command' \in Seq([handoff : Notices, action : Actions])
          /\ Len(command') = Len(command) + 1 /\ Len(command) \in Nat
      BY <3>1 DEF FounderDecides, TypeOK
    <3> QED BY <3>1, <3>2 DEF FounderDecides, TypeOK, Working, server, store, history
  <2>16. CASE PollFails
    BY <2>16 DEF PollFails, Fault, NoPass, TypeOK, Working, server, store, chat
  <2>17. CASE \E l \in Loops : LoopRequestLost(l)
    <3>1. PICK l \in Loops : LoopRequestLost(l)
      BY <2>17
    <3>2. /\ loop' \in [Loops -> LoopRow] /\ main' \in MainRow
          /\ \A k \in Loops : loop'[k].at \in {"send", "sent", "ack"} => loop'[k].items # {}
          /\ main'.at \in {"decide", "consume", "answer"} => main' = main
      BY <3>1, FailingRows DEF LoopRequestLost
    <3> QED BY <3>1, <3>2 DEF LoopRequestLost, Fault, TypeOK, Working, server, store, chat, LoopRow, MainRow
  <2>18. CASE \E l \in Loops : AcknowledgementLost(l)
    <3>1. PICK l \in Loops : AcknowledgementLost(l)
      BY <2>18
    <3>2. /\ loop' \in [Loops -> LoopRow] /\ main' \in MainRow
          /\ \A k \in Loops : loop'[k].at \in {"send", "sent", "ack"} => loop'[k].items # {}
          /\ main'.at \in {"decide", "consume", "answer"} => main' = main
      BY <3>1, FailingRows DEF AcknowledgementLost
    <3>3. notice' \in [Notices -> NoticeStates]
      BY <3>1, <2>t DEF AcknowledgementLost, NoticeStates
    <3>4. faults' \in 0..MaxFaults
      BY <3>1 DEF AcknowledgementLost, Fault, TypeOK
    <3>5. UNCHANGED <<approval, gen, blocked, store, chat, history>>
      BY <3>1 DEF AcknowledgementLost
    <3> QED BY <3>2, <3>3, <3>4, <3>5 DEF TypeOK, Working, store, chat, history, LoopRow, MainRow
  <2>19. CASE UpdateRequestLost
    <3>1. main.at = "consume" => Current.handoff \in Notices
      BY CurrentIsCommand DEF Working
    <3> QED BY <2>19, <3>1 DEF UpdateRequestLost, CutShort, Fault, NoPass, TypeOK, Working, server, store, chat
  <2>20. CASE GatewayCrashes
    <3>1. main.at = "consume" => Current.handoff \in Notices
      BY CurrentIsCommand DEF Working
    <3>2. PICK l \in Loops : TRUE
      OBVIOUS
    <3>3. /\ loop' \in [Loops -> LoopRow] /\ main' \in MainRow
          /\ \A k \in Loops : loop'[k].at \in {"send", "sent", "ack"} => loop'[k].items # {}
          /\ main'.at \in {"decide", "consume", "answer"} => main' = main
      BY <2>20, <3>2, FailingRows DEF GatewayCrashes
    <3>4. faults' \in 0..MaxFaults /\ cut' \subseteq Notices
      BY <2>20, <3>1 DEF GatewayCrashes, CutShort, Fault, TypeOK
    <3>5. doubt' \in BOOLEAN /\ UNCHANGED <<server, store, chat, used>>
      BY <2>20 DEF GatewayCrashes, TypeOK
    <3> QED BY <3>3, <3>4, <3>5 DEF TypeOK, Working, server, store, chat, LoopRow, MainRow
  <2>21. CASE UNCHANGED vars
    BY <2>21 DEF vars, TypeOK, Working, server, store, chat, history
  <2> QED
    BY <2>1, <2>2, <2>3, <2>4, <2>5, <2>6, <2>7, <2>8, <2>9, <2>10, <2>11, <2>12, <2>13, <2>14,
       <2>15, <2>16, <2>17, <2>18, <2>19, <2>20, <2>21 DEF Next, MainStep, LoopStep
<1> QED BY <1>1, <1>2, PTL DEF Spec

-----------------------------------------------------------------------------
(* An acknowledged notice was sent.                                        *)

\* An exception ends the loop it is raised in, and a restart all of them.
LEMMA FailedLoops ==
  ASSUME TypeOK, NEW l \in Loops, Restarted \/ LoopFails(l)
  PROVE  /\ loop' \in [Loops -> LoopRow] /\ loop \in [Loops -> LoopRow]
         /\ \A k \in Loops : \/ loop'[k].at \in {"idle", "abandoned"}
                             \/ loop'[k] = loop[k] /\ LoopFails(l) /\ k # l
         /\ LoopFails(l) => main' = main \/ Awaited(l)
         /\ main' = main \/ main' = NoPass
<1>1. loop \in [Loops -> LoopRow]
  BY DEF TypeOK, LoopRow
<1>2. CASE Restarted
  BY <1>1, <1>2, AbandonedRow DEF Restarted, LoopFails, Awaited
<1>3. CASE LoopFails(l)
  BY <1>1, <1>3, AbandonedRow DEF LoopFails, Awaited
<1> QED BY <1>2, <1>3

\* A step that sends nothing and records nothing keeps Delivery, when it acknowledges and
\* brings to acknowledgement only what is on record.
LEMMA DeliveryKept ==
  ASSUME Delivery, UNCHANGED <<sent, delivered>>,
         \A n \in Notices : notice'[n] = "acknowledged" => notice[n] = "acknowledged" \/ n \in delivered,
         \A k \in Loops : loop'[k].at \in {"sent", "ack"} =>
            loop'[k] = loop[k] \/ (loop'[k].at = "ack" /\ First(loop'[k].items) \in delivered)
  PROVE  Delivery'
BY DEF Delivery

\* Every step keeps what is on record as delivered true of the chat.
LEMMA DeliveryInductive ==
  ASSUME TypeOK, Working, Delivery, [Next]_vars
  PROVE  Delivery'
<1>t. loop \in [Loops -> LoopRow] /\ notice \in [Notices -> NoticeStates] /\ sent \in [Notices -> Nat]
      /\ delivered \subseteq Notices
  BY DEF TypeOK, LoopRow
<1>1. CASE OtherRequest
  <2>1. \A n \in Notices : notice'[n] = "acknowledged" => notice[n] = "acknowledged"
    BY <1>1, <1>t DEF OtherRequest, AskAgain, Decide, NoticeStates
  <2>2. UNCHANGED <<sent, delivered, loop>>
    BY <1>1 DEF OtherRequest, store, chat
  <2> QED BY <2>1, <2>2, DeliveryKept
<1>2. CASE ReadinessMoves \/ UNCHANGED vars
  <2>1. UNCHANGED <<sent, delivered, loop, notice>>
    BY <1>2 DEF ReadinessMoves, vars, server, store, chat
  <2> QED BY <2>1, DeliveryKept
<1>3. CASE GatherDone \/ HandleUpdate \/ ConsumeHandoff \/ Answer
  <2>1. UNCHANGED <<sent, delivered, loop, notice>>
    BY <1>3 DEF GatherDone, HandleUpdate, ConsumeHandoff, Answer, server, store, chat
  <2> QED BY <2>1, DeliveryKept
<1>4. CASE PollFails \/ UpdateRequestLost \/ \E n \in Notices, action \in Actions : FounderDecides(n, action)
  <2>1. UNCHANGED <<sent, delivered, loop, notice>>
    BY <1>4 DEF PollFails, UpdateRequestLost, FounderDecides, server, store, chat
  <2> QED BY <2>1, DeliveryKept
<1>5. CASE DecideApproval
  <2>1. UNCHANGED <<sent, delivered, notice>> /\ (Restarted \/ UNCHANGED loop)
    BY <1>5 DEF DecideApproval, Decide, store, chat
  <2>2. PICK l \in Loops : TRUE
    BY ChannelAssumption
  <2>3. \A k \in Loops : loop'[k].at \in {"sent", "ack"} => loop'[k] = loop[k]
    BY <2>1, <2>2, FailedLoops
  <2> QED BY <2>1, <2>3, DeliveryKept
<1>6. CASE GatewayCrashes
  <2>1. UNCHANGED <<sent, delivered, notice>> /\ Restarted
    BY <1>6 DEF GatewayCrashes, server, store, chat
  <2>2. PICK l \in Loops : TRUE
    BY ChannelAssumption
  <2>3. \A k \in Loops : loop'[k].at \in {"sent", "ack"} => loop'[k] = loop[k]
    BY <2>1, <2>2, FailedLoops
  <2> QED BY <2>1, <2>3, DeliveryKept
<1>7. ASSUME NEW l \in Loops, ListRead(l) \/ StartPass(l) PROVE Delivery'
  <2>1. UNCHANGED <<sent, delivered, notice>>
    BY <1>7 DEF ListRead, StartPass, server, store, chat
  <2>2. \A k \in Loops : loop'[k].at \in {"sent", "ack"} => loop'[k] = loop[k]
    BY <1>7, <1>t DEF ListRead, StartPass, Idle
  <2> QED BY <2>1, <2>2, DeliveryKept
<1>8. ASSUME NEW l \in Loops, ListWrite(l) PROVE Delivery'
  <2>1. UNCHANGED <<sent, delivered>>
    BY <1>8 DEF ListWrite, store, chat
  <2>2. \A n \in Notices : notice'[n] = "acknowledged" => notice[n] = "acknowledged"
    BY <1>8, <1>t DEF ListWrite, LoopRow, Outstanding
  <2>3. \A k \in Loops : loop'[k].at \in {"sent", "ack"} => loop'[k] = loop[k]
    BY <1>8, <1>t DEF ListWrite, Idle
  <2> QED BY <2>1, <2>2, <2>3, DeliveryKept
<1>9. ASSUME NEW l \in Loops, NextItem(l) PROVE Delivery'
  <2>1. UNCHANGED <<sent, delivered, notice>>
    BY <1>9 DEF NextItem, server, store, chat
  <2>2. \A k \in Loops : loop'[k].at \in {"sent", "ack"} =>
          loop'[k] = loop[k] \/ (loop'[k].at = "ack" /\ First(loop'[k].items) \in delivered)
    BY <1>9, <1>t DEF NextItem, Idle, LoopRow
  <2> QED BY <2>1, <2>2, DeliveryKept
<1>10. ASSUME NEW l \in Loops, Send(l) PROVE Delivery'
  <2> DEFINE n == First(loop[l].items)
  <2>1. n \in Notices
    BY <1>10, InHand DEF Send, Working
  <2>2. sent'[n] > 0 /\ \A m \in Notices : sent'[m] >= sent[m] /\ sent[m] \in Nat /\ sent'[m] \in Nat
    BY <1>10, <1>t, <2>1 DEF Send
  <2>3. UNCHANGED <<notice, delivered>>
    BY <1>10 DEF Send, server, store
  <2>4. loop' = [loop EXCEPT ![l].at = "sent"]
    BY <1>10 DEF Send
  <2>5. loop'[l].at = "sent" /\ loop'[l].items = loop[l].items
        /\ \A k \in Loops \ {l} : loop'[k] = loop[k]
    BY <2>4, <1>t DEF LoopRow
  <2>6. \A m \in delivered' : sent'[m] > 0
    BY <2>2, <2>3, <1>t DEF Delivery
  <2>7. \A k \in Loops : loop'[k].at = "sent" => sent'[First(loop'[k].items)] > 0
    <3>1. ASSUME NEW k \in Loops, k # l, loop[k].at = "sent" PROVE sent'[First(loop[k].items)] > 0
      <4>1. First(loop[k].items) \in Notices
        BY <3>1, InHand DEF Working
      <4> QED BY <3>1, <4>1, <2>2 DEF Delivery
    <3> QED BY <3>1, <2>2, <2>5
  <2>8. \A k \in Loops : loop'[k].at = "ack" => First(loop'[k].items) \in delivered'
    BY <2>3, <2>5 DEF Delivery
  <2> QED BY <2>3, <2>6, <2>7, <2>8 DEF Delivery
<1>11. ASSUME NEW l \in Loops, MarkDelivered(l) PROVE Delivery'
  <2> DEFINE n == First(loop[l].items)
  <2>1. UNCHANGED <<notice, sent>> /\ delivered' = delivered \cup {n} /\ sent[n] > 0
    BY <1>11 DEF MarkDelivered, server, chat, Delivery
  <2>2. loop'[l].at = "ack" /\ loop'[l].items = loop[l].items
        /\ \A k \in Loops \ {l} : loop'[k] = loop[k]
    BY <1>11, <1>t DEF MarkDelivered, LoopRow
  <2> QED BY <2>1, <2>2 DEF Delivery
<1>12. ASSUME NEW l \in Loops, Acknowledge(l) PROVE Delivery'
  <2>1. UNCHANGED <<sent, delivered>>
    BY <1>12 DEF Acknowledge, store, chat
  <2>2. First(loop[l].items) \in delivered
    BY <1>12 DEF Acknowledge, Delivery
  <2>3. \A m \in Notices : notice'[m] = "acknowledged" => notice[m] = "acknowledged" \/ m \in delivered
    BY <1>12, <1>t, <2>2 DEF Acknowledge
  <2>4. CASE Restarted \/ LoopFails(l)
    <3>1. \A k \in Loops : loop'[k].at \in {"sent", "ack"} => loop'[k] = loop[k]
      BY <2>4, FailedLoops
    <3> QED BY <2>1, <2>3, <3>1, DeliveryKept
  <2>5. CASE loop' = [loop EXCEPT ![l].at = "next", ![l].items = @ \ {First(loop[l].items)}]
    <3>1. \A k \in Loops : loop'[k].at \in {"sent", "ack"} => loop'[k] = loop[k]
      BY <2>5, <1>t DEF LoopRow
    <3> QED BY <2>1, <2>3, <3>1, DeliveryKept
  <2> QED BY <1>12, <2>4, <2>5 DEF Acknowledge
<1>13. ASSUME NEW l \in Loops, LoopRequestLost(l) \/ AcknowledgementLost(l) PROVE Delivery'
  <2>1. UNCHANGED <<sent, delivered>> /\ LoopFails(l)
    BY <1>13 DEF LoopRequestLost, AcknowledgementLost, store, chat
  <2>2. \A m \in Notices : notice'[m] = "acknowledged" => notice[m] = "acknowledged" \/ m \in delivered
    BY <1>13, <1>t DEF LoopRequestLost, AcknowledgementLost, server, Delivery
  <2>3. \A k \in Loops : loop'[k].at \in {"sent", "ack"} => loop'[k] = loop[k]
    BY <2>1, FailedLoops
  <2> QED BY <2>1, <2>2, <2>3, DeliveryKept
<1> QED BY <1>1, <1>2, <1>3, <1>4, <1>5, <1>6, <1>7, <1>8, <1>9, <1>10, <1>11, <1>12, <1>13
        DEF Next, MainStep, LoopStep

\* Telegram acknowledges a notice only after a successful send, for any number of
\* generations, faults and loops.
THEOREM AcknowledgedSent == Spec => []AcknowledgedMeansSent
<1>1. Init => Delivery
  BY DEF Init, Delivery, Idle
<1>2. TypeOK /\ Working /\ Delivery /\ [Next]_vars => Delivery'
  BY DeliveryInductive
<1>3. TypeOK /\ Delivery => AcknowledgedMeansSent
  BY DEF TypeOK, Delivery, AcknowledgedMeansSent
<1> QED BY <1>1, <1>2, <1>3, TypeCorrect, PTL DEF Spec

-----------------------------------------------------------------------------
(* A gate is announced once.                                               *)

\* When nothing is in doubt, two loops that work are one: the pass waits for it.
LEMMA OneLoop ==
  ASSUME Once, ~doubt, NEW k \in Loops, NEW l \in Loops,
         loop[k].at \in Busy, loop[l].at \in Busy
  PROVE  k = l
BY DEF Once, Awaited

\* When nothing is in doubt, no loop works unless the pass waits for it.
LEMMA NoLoop ==
  ASSUME Once, ~doubt, NEW k \in Loops, main.at # "gather"
  PROVE  loop[k].at \notin Busy
BY DEF Once, Awaited

\* A step that neither sends nor records keeps Once, when the loops that still work are the
\* ones the pass waits for and a message that was accepted stays in hand.
LEMMA OnceKept ==
  ASSUME Once, UNCHANGED <<sent, delivered>>, ~doubt' => ~doubt,
         ~doubt' => \A k \in Loops :
            /\ loop'[k].at \in Busy => Awaited(k)'
            /\ loop'[k].at = "send" => loop'[k] = loop[k] \/ First(loop'[k].items) \notin delivered
            /\ loop[k].at = "sent" => loop'[k] = loop[k]
  PROVE  Once'
BY DEF Once, Awaited

\* A step that leaves the loops, and the pass that waits for one, alone keeps Once.
LEMMA OnceQuiet ==
  ASSUME Once, UNCHANGED <<sent, delivered, loop, doubt>>,
         main.at # "gather" \/ UNCHANGED main
  PROVE  Once'
<1>1. ASSUME ~doubt' PROVE \A k \in Loops : loop'[k].at \in Busy => Awaited(k)'
  BY <1>1 DEF Once, Awaited
<1> QED BY <1>1, OnceKept

\* Every step keeps the single loop that can send, and the record it sends by.
LEMMA OnceInductive ==
  ASSUME TypeOK, Working, Once, [Next]_vars
  PROVE  Once'
<1>t. loop \in [Loops -> LoopRow] /\ sent \in [Notices -> Nat] /\ main \in MainRow
      /\ delivered \subseteq Notices /\ doubt \in BOOLEAN
  BY DEF TypeOK, LoopRow, MainRow
<1>1. CASE OtherRequest \/ ReadinessMoves \/ UNCHANGED vars
  <2>1. UNCHANGED <<sent, delivered, loop, doubt, main>>
    BY <1>1 DEF OtherRequest, ReadinessMoves, vars, store, chat, history
  <2> QED BY <2>1, OnceQuiet
<1>2. CASE \E n \in Notices, action \in Actions : FounderDecides(n, action)
  <2>1. UNCHANGED <<sent, delivered, loop, doubt, main>>
    BY <1>2 DEF FounderDecides, store, history
  <2> QED BY <2>1, OnceQuiet
<1>3. CASE HandleUpdate \/ ConsumeHandoff \/ Answer \/ UpdateRequestLost
  <2>1. UNCHANGED <<sent, delivered, loop, doubt>> /\ main.at # "gather"
    BY <1>3 DEF HandleUpdate, ConsumeHandoff, Answer, UpdateRequestLost, store, chat, history
  <2> QED BY <2>1, OnceQuiet
<1>4. CASE GatherDone
  <2>1. UNCHANGED <<sent, delivered, loop, doubt>>
        /\ main.at = "gather" /\ loop[main.loop].at = "idle"
    BY <1>4 DEF GatherDone, store, chat, history
  <2>2. ASSUME ~doubt', NEW k \in Loops PROVE loop'[k].at \notin Busy
    BY <2>1, <2>2 DEF Once, Awaited, Busy
  <2> QED BY <2>1, <2>2, OnceKept
<1>5. CASE PollFails
  BY <1>5 DEF PollFails, Once
<1>6. CASE DecideApproval
  <2>1. UNCHANGED <<sent, delivered, doubt>> /\ (Restarted \/ UNCHANGED loop) /\ main.at = "decide"
    BY <1>6 DEF DecideApproval, store, chat
  <2>2. CASE UNCHANGED loop
    BY <2>1, <2>2, OnceQuiet
  <2>3. CASE Restarted
    <3>1. \A k \in Loops : loop'[k].at \in {"idle", "abandoned"}
      BY <2>3, <1>t, AbandonedRow DEF Restarted
    <3>2. ASSUME ~doubt, NEW k \in Loops PROVE loop[k].at # "sent"
      BY <2>1, <3>2, NoLoop DEF Busy
    <3> QED BY <2>1, <3>1, <3>2, OnceKept DEF Busy
  <2> QED BY <2>1, <2>2, <2>3
<1>7. CASE GatewayCrashes
  <2>1. UNCHANGED <<sent, delivered>> /\ Restarted
        /\ doubt' = (doubt \/ \E l \in Loops : loop[l].at = "sent")
    BY <1>7 DEF GatewayCrashes, store, chat
  <2>2. \A k \in Loops : loop'[k].at \in {"idle", "abandoned"}
    BY <2>1, <1>t, AbandonedRow DEF Restarted
  <2>3. ~doubt' => ~doubt /\ \A k \in Loops : loop[k].at # "sent"
    BY <2>1
  <2> QED BY <2>1, <2>2, <2>3, OnceKept DEF Busy
<1>8. ASSUME NEW l \in Loops, StartPass(l) PROVE Once'
  <2>1. UNCHANGED <<sent, delivered, doubt>> /\ main.at = "idle"
        /\ main'.at = "gather" /\ main'.loop = l
    BY <1>8 DEF StartPass, store, chat, history
  <2>2. loop[l].at = "idle" /\ loop'[l].at = "list" /\ \A k \in Loops \ {l} : loop'[k] = loop[k]
    BY <1>8, <1>t DEF StartPass, Idle
  <2>3. ASSUME ~doubt, NEW k \in Loops PROVE loop[k].at \notin Busy
    BY <2>1, <2>3, NoLoop
  <2>4. Awaited(l)'
    BY <2>1 DEF Awaited
  <2> QED BY <2>1, <2>2, <2>3, <2>4, OnceKept DEF Busy
<1>9. ASSUME NEW l \in Loops, ListRead(l) \/ ListWrite(l) \/ NextItem(l) PROVE Once'
  <2>1. UNCHANGED <<sent, delivered, doubt, main>>
    BY <1>9 DEF ListRead, ListWrite, NextItem, server, store, chat, history
  <2>2. \A k \in Loops \ {l} : loop'[k] = loop[k]
    BY <1>9, <1>t DEF ListRead, ListWrite, NextItem
  <2>3. loop[l].at # "sent" /\ (loop'[l].at = "send" => First(loop'[l].items) \notin delivered)
    <3>1. CASE ListRead(l)
      BY <3>1, <1>t DEF ListRead, Idle
    <3>2. CASE ListWrite(l)
      BY <3>2, <1>t DEF ListWrite, Idle
    <3>3. CASE NextItem(l)
      BY <3>3, <1>t DEF NextItem, Idle, LoopRow
    <3> QED BY <1>9, <3>1, <3>2, <3>3
  <2>4. loop'[l].at \in Busy => loop[l].at \in Busy
    BY <1>9, <1>t DEF ListRead, ListWrite, NextItem, Idle, Busy
  <2>5. ASSUME ~doubt', NEW k \in Loops, loop'[k].at \in Busy PROVE Awaited(k)'
    BY <2>1, <2>2, <2>4, <2>5 DEF Once, Awaited
  <2> QED BY <2>1, <2>2, <2>3, <2>5, OnceKept
<1>10. ASSUME NEW l \in Loops, Send(l) PROVE Once'
  <2> DEFINE n == First(loop[l].items)
  <2>1. n \in Notices
    BY <1>10, InHand DEF Send, Working
  <2>2. UNCHANGED <<delivered, doubt, main>> /\ loop[l].at = "send"
    BY <1>10 DEF Send, store, history
  <2>3. loop'[l].at = "sent" /\ loop'[l].items = loop[l].items
        /\ \A k \in Loops \ {l} : loop'[k] = loop[k]
    BY <1>10, <1>t DEF Send, LoopRow
  <2>4. sent'[n] = sent[n] + 1 /\ \A m \in Notices \ {n} : sent'[m] = sent[m]
    BY <1>10, <1>t, <2>1 DEF Send
  <2> SUFFICES ASSUME ~doubt PROVE Once'
    BY <2>2 DEF Once
  <2>5. sent[n] = 0
    <3>1. SUFFICES ASSUME sent[n] > 0 PROVE FALSE
      BY <1>t, <2>1
    <3>2. n \notin delivered
      BY <2>2 DEF Once
    <3>3. PICK k \in Loops : loop[k].at = "sent"
      BY <2>1, <3>1, <3>2 DEF Once
    <3>4. k = l
      BY <2>2, <3>3, OneLoop DEF Busy
    <3> QED BY <2>2, <3>3, <3>4
  <2>6. \A k \in Loops : loop'[k].at \in Busy => Awaited(k)'
    BY <2>2, <2>3 DEF Once, Awaited, Busy
  <2>7. \A k \in Loops : loop'[k].at = "send" => First(loop'[k].items) \notin delivered'
    BY <2>2, <2>3 DEF Once
  <2>8. \A m \in Notices : sent'[m] <= 1
    BY <2>4, <2>5 DEF Once
  <2>9. ASSUME NEW m \in Notices, sent'[m] > 0
        PROVE  m \in delivered' \/ \E k \in Loops : loop'[k].at = "sent" /\ First(loop'[k].items) = m
    <3>1. CASE m = n
      BY <3>1, <2>3
    <3>2. CASE m # n
      <4>1. m \in delivered \/ \E k \in Loops : loop[k].at = "sent" /\ First(loop[k].items) = m
        BY <2>4, <2>9, <3>2 DEF Once
      <4> QED BY <4>1, <2>2, <2>3
    <3> QED BY <3>1, <3>2
  <2> QED BY <2>6, <2>7, <2>8, <2>9 DEF Once
<1>11. ASSUME NEW l \in Loops, MarkDelivered(l) PROVE Once'
  <2> DEFINE n == First(loop[l].items)
  <2>1. UNCHANGED <<sent, doubt, main>> /\ delivered' = delivered \cup {n} /\ loop[l].at = "sent"
    BY <1>11 DEF MarkDelivered, chat, history
  <2>2. loop'[l].at = "ack" /\ \A k \in Loops \ {l} : loop'[k] = loop[k]
    BY <1>11, <1>t DEF MarkDelivered, LoopRow
  <2> SUFFICES ASSUME ~doubt PROVE Once'
    BY <2>1 DEF Once
  <2>3. \A k \in Loops : loop'[k].at \in Busy => Awaited(k)'
    BY <2>1, <2>2 DEF Once, Awaited, Busy
  <2>4. \A k \in Loops : loop'[k].at # "send"
    BY <2>1, <2>2, OneLoop DEF Busy
  <2>5. ASSUME NEW m \in Notices, sent'[m] > 0
        PROVE  m \in delivered' \/ \E k \in Loops : loop'[k].at = "sent" /\ First(loop'[k].items) = m
    <3>1. m \in delivered \/ \E k \in Loops : loop[k].at = "sent" /\ First(loop[k].items) = m
      BY <2>1, <2>5 DEF Once
    <3> QED BY <3>1, <2>1, <2>2
  <2> QED BY <2>1, <2>3, <2>4, <2>5 DEF Once
<1>12. ASSUME NEW l \in Loops, Acknowledge(l) PROVE Once'
  <2>1. UNCHANGED <<sent, delivered, doubt>> /\ loop[l].at = "ack"
    BY <1>12 DEF Acknowledge, store, chat, history
  <2>2. ASSUME ~doubt, NEW k \in Loops, loop[k].at \in Busy PROVE k = l /\ Awaited(l)
    BY <2>1, <2>2, OneLoop DEF Busy, Once
  <2>3. CASE Restarted \/ LoopFails(l)
    <3>1. ASSUME ~doubt, NEW k \in Loops PROVE loop'[k].at \notin Busy /\ loop[k].at # "sent"
      <4>1. loop[k].at \in Busy => k = l
        BY <2>2, <3>1
      <4> QED BY <2>1, <2>3, <4>1, FailedLoops DEF Busy
    <3> QED BY <2>1, <3>1, OnceKept DEF Busy
  <2>4. CASE loop' = [loop EXCEPT ![l].at = "next", ![l].items = @ \ {First(loop[l].items)}]
             /\ UNCHANGED main
    <3>1. loop'[l].at = "next" /\ \A k \in Loops \ {l} : loop'[k] = loop[k]
      BY <2>4, <1>t DEF LoopRow
    <3>2. ASSUME ~doubt', NEW k \in Loops, loop'[k].at \in Busy PROVE Awaited(k)'
      BY <2>1, <2>4, <3>1, <3>2 DEF Once, Awaited, Busy
    <3> QED BY <2>1, <3>1, <3>2, OnceKept
  <2> QED BY <1>12, <2>3, <2>4 DEF Acknowledge
<1>13. ASSUME NEW l \in Loops, LoopRequestLost(l) \/ AcknowledgementLost(l) PROVE Once'
  <2>1. UNCHANGED <<sent, delivered>> /\ LoopFails(l)
        /\ (~doubt' => ~doubt /\ loop[l].at # "sent")
    BY <1>13, <1>t DEF LoopRequestLost, AcknowledgementLost, store, chat, history
  <2>2. \A k \in Loops : loop'[k].at \in {"idle", "abandoned"} \/ (loop'[k] = loop[k] /\ k # l)
    BY <2>1, FailedLoops
  <2>3. \A k \in Loops \ {l} : loop'[k] = loop[k]
    BY <2>1, <1>t DEF LoopFails
  <2>4. ASSUME ~doubt', NEW k \in Loops, loop'[k].at \in Busy PROVE Awaited(k)'
    <3>1. k # l /\ loop[k].at \in Busy
      BY <2>2, <2>4 DEF Busy
    <3>2. Awaited(k)
      BY <2>1, <2>4, <3>1 DEF Once
    <3> QED BY <2>1, <3>1, <3>2 DEF LoopFails, Awaited
  <2> QED BY <2>1, <2>2, <2>3, <2>4, OnceKept
<1> QED BY <1>1, <1>2, <1>3, <1>4, <1>5, <1>6, <1>7, <1>8, <1>9, <1>10, <1>11, <1>12, <1>13
        DEF Next, MainStep, LoopStep

\* A lost or refused acknowledgement is retried without a second message, for any number
\* of generations, faults and loops.
THEOREM AnnouncedOnce == Spec => []OncePerGeneration
<1>1. Init => Once
  BY DEF Init, Once, Idle, Busy
<1>2. TypeOK /\ Working /\ Once /\ [Next]_vars => Once'
  BY OnceInductive
<1>3. Once => OncePerGeneration
  BY DEF Once, OncePerGeneration
<1> QED BY <1>1, <1>2, <1>3, TypeCorrect, PTL DEF Spec

-----------------------------------------------------------------------------
(* A handoff decides once.                                                 *)

\* A step that leaves the updates alone and at most ends the pass in a place where it has
\* decided nothing keeps Handoffs.
LEMMA HandoffsKept ==
  ASSUME Handoffs, UNCHANGED <<command, offset, used, consumed, cut>>,
         main' = main \/ (main.at # "consume" /\ main'.at \notin {"decide", "consume"})
  PROVE  Handoffs'
BY DEF Handoffs, Current

\* Every step keeps the account of used handoffs.
LEMMA HandoffsInductive ==
  ASSUME TypeOK, Working, Handoffs, [Next]_vars
  PROVE  Handoffs'
<1>t. main \in MainRow /\ used \in [Notices -> Nat] /\ offset \in Nat /\ Len(command) \in Nat
  BY DEF TypeOK, MainRow
<1>n. NoPass.at = "idle"
  BY DEF NoPass
<1>1. CASE OtherRequest \/ ReadinessMoves \/ UNCHANGED vars
  <2>1. UNCHANGED <<command, offset, used, consumed, cut, main>>
    BY <1>1 DEF OtherRequest, ReadinessMoves, vars, store, chat, history
  <2> QED BY <2>1, HandoffsKept
<1>2. CASE \E n \in Notices, action \in Actions : FounderDecides(n, action)
  <2>1. PICK n \in Notices, action \in Actions : FounderDecides(n, action)
    BY <1>2
  <2>2. UNCHANGED <<offset, used, consumed, cut, main>>
    BY <2>1 DEF FounderDecides, store, history
  <2>3. main.at \in {"decide", "consume"} => Current' = Current
    <3>1. command \in Seq([handoff : Notices, action : Actions])
          /\ command' = Append(command, [handoff |-> n, action |-> action])
      BY <2>1 DEF FounderDecides, TypeOK
    <3>2. offset < Len(command) => command'[offset + 1] = command[offset + 1]
      BY <3>1, <1>t
    <3> QED BY <2>2, <3>2 DEF Working, Current
  <2> QED BY <2>2, <2>3 DEF Handoffs
<1>3. CASE GatherDone \/ PollFails
  <2>1. UNCHANGED <<command, offset, used, consumed, cut>>
        /\ main.at = "gather" /\ main'.at \in {"idle", "updates"}
    BY <1>3, <1>n DEF GatherDone, PollFails, store, chat, history
  <2> QED BY <2>1, HandoffsKept
<1>4. CASE HandleUpdate
  <2>1. UNCHANGED <<command, offset, used, consumed, cut>> /\ main.at = "updates"
    BY <1>4 DEF HandleUpdate, store, chat, history
  <2>2. main'.at \in {"idle", "answer"} \/ (main'.at = "decide" /\ Current.handoff \notin consumed)
    BY <1>4, <1>n, <1>t DEF HandleUpdate, MainRow
  <2> QED BY <2>1, <2>2 DEF Handoffs, Current
<1>5. CASE DecideApproval
  <2>1. UNCHANGED <<command, offset, consumed, cut>> /\ main.at = "decide"
    BY <1>5 DEF DecideApproval, store, chat
  <2>2. CASE Restarted /\ UNCHANGED used
    BY <2>1, <2>2, <1>n, HandoffsKept DEF Restarted
  <2>3. CASE /\ used' = [used EXCEPT ![Current.handoff] = @ + 1]
             /\ main' = [main EXCEPT !.at = "consume"]
    <3>1. Current.handoff \in Notices /\ Current.handoff \notin consumed
      BY <2>1, CurrentIsCommand DEF Handoffs, Working
    <3>2. main'.at = "consume" /\ Current' = Current
      BY <2>1, <2>3, <1>t DEF MainRow, Current
    <3>3. \A n \in Notices : n # Current.handoff => used'[n] = used[n]
      BY <2>3, <1>t
    <3>4. used'[Current.handoff] > 1 => used[Current.handoff] > 0
      BY <2>3, <3>1, <1>t
    <3>5. used'[Current.handoff] > 1 => Current.handoff \in cut
      BY <2>1, <3>1, <3>4 DEF Handoffs
    <3> QED BY <2>1, <3>2, <3>3, <3>5 DEF Handoffs
  <2> QED BY <1>5, <2>2, <2>3 DEF DecideApproval
<1>6. CASE ConsumeHandoff
  <2>1. UNCHANGED <<command, offset, used, cut>> /\ main.at = "consume"
        /\ consumed' = consumed \cup {Current.handoff}
    BY <1>6 DEF ConsumeHandoff, chat, history
  <2>2. main'.at = "answer"
    BY <1>6, <1>t DEF ConsumeHandoff, MainRow
  <2> QED BY <2>1, <2>2 DEF Handoffs
<1>7. CASE Answer
  <2>1. UNCHANGED <<command, used, consumed, cut>> /\ main.at = "answer"
    BY <1>7 DEF Answer, chat, history
  <2>2. main'.at = "updates"
    BY <1>7, <1>t DEF Answer, MainRow
  <2> QED BY <2>1, <2>2 DEF Handoffs
<1>8. CASE UpdateRequestLost \/ GatewayCrashes
  <2>1. UNCHANGED <<command, offset, used, consumed>> /\ CutShort /\ main'.at = "idle"
    BY <1>8, <1>n DEF UpdateRequestLost, GatewayCrashes, Restarted, store, chat
  <2>2. cut \subseteq cut' /\ (main.at = "consume" => Current.handoff \in cut')
    BY <2>1 DEF CutShort
  <2> QED BY <2>1, <2>2 DEF Handoffs
<1>9. ASSUME NEW l \in Loops,
             ListRead(l) \/ ListWrite(l) \/ NextItem(l) \/ Send(l) \/ MarkDelivered(l)
      PROVE  Handoffs'
  <2>1. UNCHANGED <<command, offset, used, consumed, cut, main>>
    BY <1>9 DEF ListRead, ListWrite, NextItem, Send, MarkDelivered, store, chat, history
  <2> QED BY <2>1, HandoffsKept
<1>10. ASSUME NEW l \in Loops,
              Acknowledge(l) \/ LoopRequestLost(l) \/ AcknowledgementLost(l) \/ StartPass(l)
       PROVE  Handoffs'
  <2>1. UNCHANGED <<command, offset, used, consumed, cut>>
    BY <1>10 DEF Acknowledge, LoopRequestLost, AcknowledgementLost, StartPass, store, chat, history
  <2>2. main' = main \/ (main.at = "gather" /\ main' = NoPass) \/ (main.at = "idle" /\ main'.at = "gather")
    BY <1>10 DEF Acknowledge, LoopRequestLost, AcknowledgementLost, StartPass, Restarted, LoopFails, Awaited
  <2> QED BY <2>1, <2>2, <1>n, HandoffsKept
<1> QED BY <1>1, <1>2, <1>3, <1>4, <1>5, <1>6, <1>7, <1>8, <1>9, <1>10
        DEF Next, MainStep, LoopStep

\* A handoff decides once, unless the answer to its decision was lost, for any number of
\* commands, faults and generations.
THEOREM HandoffOnce == Spec => []HandoffUsedOnce
<1>1. Init => Handoffs
  BY DEF Init, Handoffs, NoPass
<1>2. TypeOK /\ Working /\ Handoffs /\ [Next]_vars => Handoffs'
  BY HandoffsInductive
<1>3. Handoffs => HandoffUsedOnce
  BY DEF Handoffs, HandoffUsedOnce
<1> QED BY <1>1, <1>2, <1>3, TypeCorrect, PTL DEF Spec

=============================================================================
