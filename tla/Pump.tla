-------------------------------- MODULE Pump --------------------------------
(***************************************************************************)
(* The pump task of one live subscription (subscriber.rs): it receives     *)
(* through the link it owns, hands the deliveries to the subscriber over a *)
(* bounded channel, settles what the message handles ask for, and tears    *)
(* the link and its session down.                                          *)
(*                                                                         *)
(* The pump's selects are biased, so a branch is guarded by the earlier    *)
(* ones having nothing to do.  The answer slots are SettleLine's concern:  *)
(* here a handle's command goes straight into the channel.                 *)
(***************************************************************************)
EXTENDS Naturals, FiniteSets, SequencesExt

CONSTANTS
    Deliveries,     \* what the peer has for the subscription
    Bad,            \* those whose body has no byte form
    Broken,         \* those the client reports as a per-message RecvError
    Credit,         \* the link credit, and the channel's capacity
    Workers         \* how many deliveries the subscriber handles at once

CONSTANTS Nobody, Stopped, Withdrawn, Abandoned

ASSUME PumpAssumption ==
    /\ IsFiniteSet(Deliveries)
    /\ Bad \cup Broken \subseteq Deliveries
    /\ Bad \cap Broken = {}
    /\ Credit \in Nat \ {0}
    /\ Workers \in Nat \ {0}
    /\ {Nobody, Stopped, Withdrawn, Abandoned} \cap Deliveries = {}
    /\ Nobody \notin {Stopped, Withdrawn, Abandoned}
    /\ Stopped \notin {Withdrawn, Abandoned}
    /\ Withdrawn # Abandoned

VARIABLES
    atMostOnce,     \* the registration settles deliveries as they arrive
    unsent,         \* deliveries the peer has not transferred yet
    credit,         \* how many it may transfer
    processed,      \* dispositions since the credit was last granted
    pc,             \* where the pump stands
    item,           \* the delivery, or the error about it, the pump holds
    inHand,         \* the delivery whose command is being applied
    back,           \* the loop that command was read from
    fatal,          \* the main loop ended on a link error
    stop,           \* the connection's stop signal
    out,            \* the delivery channel
    subscriber,     \* its receiving end: alive or dropped
    handle,         \* who holds the handle of each delivery
    commands,       \* the settlement commands not read yet
    answer,         \* what each settlement's slot contains
    result,         \* what each settlement returned
    applied,        \* history: deliveries settled through a command
    arrived,        \* history: readable deliveries in the order of the link
    received        \* history: those the handlers got, in their order

peer == <<atMostOnce, unsent, credit, processed>>
task == <<pc, item, inHand, back, fatal>>
consumer == <<subscriber, handle>>
settling == <<commands, answer, result, applied>>
history == <<arrived, received>>
vars == <<peer, task, stop, out, consumer, settling, history>>

Good == Deliveries \ (Bad \cup Broken)

MainLoop == {"loop", "pending", "permit", "rejecting", "delivering", "failing"}
Teardown == {"detaching", "ending", "releasing", "exiting", "ended"}

\* Where a handle can be: not made yet, with the pump, in the channel, with a
\* handler, in a running settlement, or gone.
Places == {"none", "pump", "channel", "handler", "settling", "gone"}
Live == {"pump", "channel", "handler", "settling"}

TypeOK ==
    /\ atMostOnce \in BOOLEAN
    /\ unsent \subseteq Deliveries
    /\ credit \in 0 .. Credit
    /\ processed \in 0 .. Credit
    /\ pc \in MainLoop \cup {"applying", "leaving", "drain"} \cup Teardown
    /\ item \in Deliveries \cup {Nobody}
    /\ inHand \in Deliveries \cup {Nobody}
    /\ back \in {"loop", "pending", "drain"}
    /\ fatal \in BOOLEAN
    /\ stop \in BOOLEAN
    /\ out \in Seq(Deliveries \cup {Nobody})
    /\ subscriber \in {"alive", "dropped"}
    /\ handle \in [Deliveries -> Places]
    /\ commands \in Seq(Deliveries)
    /\ answer \in [Deliveries -> Deliveries \cup {Nobody, Stopped}]
    /\ result \in [Deliveries ->
            Deliveries \cup {Nobody, Stopped, Withdrawn, Abandoned}]
    /\ applied \subseteq Deliveries
    /\ arrived \in Seq(Good)
    /\ received \in Seq(Good)

\* AmqpSubscriber::attach, for either registration.
Init ==
    /\ atMostOnce \in BOOLEAN
    /\ unsent = Deliveries
    /\ credit = Credit
    /\ processed = 0
    /\ pc = "loop"
    /\ item = Nobody
    /\ inHand = Nobody
    /\ back = "loop"
    /\ fatal = FALSE
    /\ stop = FALSE
    /\ out = <<>>
    /\ subscriber = "alive"
    /\ handle = [d \in Deliveries |-> "none"]
    /\ commands = <<>>
    /\ answer = [d \in Deliveries |-> Nobody]
    /\ result = [d \in Deliveries |-> Nobody]
    /\ applied = {}
    /\ arrived = <<>>
    /\ received = <<>>

Move(d, place) == handle' = [handle EXCEPT ![d] = place]

\* The client grants the whole credit again once half of it was settled.
Regrant(left) ==
    IF processed + 1 >= Credit \div 2
    THEN credit' = Credit /\ processed' = 0
    ELSE credit' = left /\ processed' = processed + 1

-----------------------------------------------------------------------------
(***************************************************************************)
(* The main loop.                                                          *)
(***************************************************************************)

\* Mutant of TakeCommand: the pending delivery is not put back.
TakeCommandLosing ==
    /\ pc \in {"loop", "pending", "drain"}
    /\ commands # <<>>
    /\ inHand' = Head(commands)
    /\ commands' = Tail(commands)
    /\ back' = IF pc = "pending" THEN "loop" ELSE pc
    /\ handle' = [d \in Deliveries |-> IF d = item THEN "gone" ELSE handle[d]]
    /\ item' = Nobody
    /\ pc' = "applying"
    /\ UNCHANGED <<peer, fatal, stop, out, subscriber, answer, result, applied,
                   history>>

\* Mutant of TakeCommand: no command is read while a delivery is pending.
TakeCommandIdle ==
    /\ pc \in {"loop", "drain"}
    /\ commands # <<>>
    /\ inHand' = Head(commands)
    /\ commands' = Tail(commands)
    /\ back' = pc
    /\ pc' = "applying"
    /\ UNCHANGED <<peer, item, fatal, stop, out, consumer, answer, result,
                   applied, history>>

\* commands.recv() in any of the three selects.
TakeCommand ==
    /\ pc \in {"loop", "pending", "drain"}
    /\ commands # <<>>
    /\ inHand' = Head(commands)
    /\ commands' = Tail(commands)
    /\ back' = pc
    /\ pc' = "applying"
    /\ UNCHANGED <<peer, item, fatal, stop, out, consumer, answer, result,
                   applied, history>>

\* apply: the client is given the disposition, and the handle its answer.
Apply ==
    /\ pc = "applying"
    /\ applied' = applied \cup {inHand}
    /\ answer' = [answer EXCEPT ![inHand] = inHand]
    /\ Regrant(credit)
    /\ inHand' = Nobody
    /\ pc' = back
    /\ UNCHANGED <<atMostOnce, unsent, item, back, fatal, stop, out, consumer, commands,
                   result, history>>

\* The subscriber is gone, or the connection shuts down.
LeaveLoop ==
    /\ pc = "loop"
    /\ commands = <<>>
    /\ subscriber = "dropped" \/ stop
    /\ pc' = "leaving"
    /\ UNCHANGED <<peer, item, inHand, back, fatal, stop, out, consumer,
                   settling, history>>

\* The last branch of the idle select is polled.
Receiving ==
    /\ pc = "loop"
    /\ commands = <<>>
    /\ subscriber = "alive"
    /\ ~stop

\* A delivery that reads.  At most once, the client accepted it on the way and
\* its message carries no settle handle.
Receive(d) ==
    /\ Receiving
    /\ credit > 0
    /\ d \in unsent \cap Good
    /\ unsent' = unsent \ {d}
    /\ IF atMostOnce
       THEN Regrant(credit - 1)
       ELSE credit' = credit - 1 /\ UNCHANGED processed
    /\ item' = d
    /\ Move(d, "pump")
    /\ arrived' = Append(arrived, d)
    /\ pc' = "pending"
    /\ UNCHANGED <<atMostOnce, inHand, back, fatal, stop, out, subscriber, settling,
                   received>>

\* A delivery whose body has no byte form, or that poisons only itself.
ReceiveUnreadable(d) ==
    /\ Receiving
    /\ credit > 0
    /\ d \in unsent \cap (Bad \cup Broken)
    /\ unsent' = unsent \ {d}
    /\ IF atMostOnce /\ d \in Bad
       THEN Regrant(credit - 1)
       ELSE credit' = credit - 1 /\ UNCHANGED processed
    /\ item' = d
    /\ pc' = IF d \in Bad /\ ~atMostOnce THEN "rejecting" ELSE "delivering"
    /\ UNCHANGED <<atMostOnce, inHand, back, fatal, stop, out, consumer, settling,
                   history>>

\* The link fails for good.
ReceiveFails ==
    /\ Receiving
    /\ pc' = "failing"
    /\ UNCHANGED <<peer, item, inHand, back, fatal, stop, out, consumer,
                   settling, history>>

\* receiver.reject: a delivery without a byte form is terminal.
Reject ==
    /\ pc = "rejecting"
    /\ Regrant(credit)
    /\ pc' = "delivering"
    /\ UNCHANGED <<atMostOnce, unsent, item, inHand, back, fatal, stop, out, consumer,
                   settling, history>>

Room == Len(out) < Credit

\* deliver: the error waits for room only until shutdown, and a fatal one ends
\* the loop either way.
Deliver ==
    /\ pc \in {"delivering", "failing"}
    /\ \/ /\ stop \/ subscriber = "dropped"
          /\ pc' = "leaving"
          /\ UNCHANGED out
       \/ /\ ~stop /\ subscriber = "alive" /\ Room
          /\ out' = Append(out, item)
          /\ pc' = IF pc = "failing" THEN "leaving" ELSE "loop"
    /\ item' = Nobody
    /\ fatal' = (pc = "failing")
    /\ UNCHANGED <<peer, inHand, back, stop, consumer, settling, history>>

\* A pending delivery gets a permit of the channel.
Reserve ==
    /\ pc = "pending"
    /\ commands = <<>>
    /\ subscriber = "alive"
    /\ Room
    /\ pc' = "permit"
    /\ UNCHANGED <<peer, item, inHand, back, fatal, stop, out, consumer,
                   settling, history>>

\* permit.send, which succeeds on a channel whose receiver was dropped since.
PermitSend ==
    /\ pc = "permit"
    /\ out' = Append(out, item)
    /\ Move(item, "channel")
    /\ item' = Nobody
    /\ pc' = "loop"
    /\ UNCHANGED <<peer, inHand, back, fatal, stop, subscriber, settling, history>>

\* Mutant of LeavePending: the stop signal is not heard while one is pending.
LeavePendingOnDrop ==
    /\ pc = "pending"
    /\ commands = <<>>
    /\ subscriber = "dropped"
    /\ Move(item, "gone")
    /\ item' = Nobody
    /\ pc' = "leaving"
    /\ UNCHANGED <<peer, inHand, back, fatal, stop, out, subscriber, settling,
                   history>>

\* A pending delivery nobody will take goes, and its handle with it.
LeavePending ==
    /\ pc = "pending"
    /\ commands = <<>>
    /\ \/ subscriber = "dropped"
       \/ stop /\ ~Room
    /\ Move(item, "gone")
    /\ item' = Nobody
    /\ pc' = "leaving"
    /\ UNCHANGED <<peer, inHand, back, fatal, stop, out, subscriber, settling,
                   history>>

-----------------------------------------------------------------------------
(***************************************************************************)
(* Drain and teardown.                                                     *)
(***************************************************************************)

\* Mutant of DropEnds: the pump keeps its end of the delivery channel.
DropLineOnly ==
    /\ pc = "leaving"
    /\ pc' = "drain"
    /\ UNCHANGED <<peer, item, inHand, back, fatal, stop, out, consumer, settling,
                   history>>

\* drop(p.out), drop(p.line): a channel without a receiver goes with its last
\* sender, and so do the handles of the deliveries it still holds.
DropEnds ==
    /\ pc = "leaving"
    /\ IF subscriber = "dropped"
       THEN /\ out' = <<>>
            /\ handle' = [d \in Deliveries |->
                            IF handle[d] = "channel" THEN "gone" ELSE handle[d]]
       ELSE UNCHANGED <<out, handle>>
    /\ pc' = "drain"
    /\ UNCHANGED <<peer, item, inHand, back, fatal, stop, subscriber, settling,
                   history>>

\* The deliveries whose live handle keeps the settle line open.
LineHolders ==
    IF atMostOnce THEN {} ELSE {d \in Deliveries : handle[d] \in Live}

\* Mutant of Drained: the drain ends with the commands there are.
DrainedEarly ==
    /\ pc = "drain"
    /\ commands = <<>>
    /\ pc' = IF fatal THEN "ending" ELSE "detaching"
    /\ UNCHANGED <<peer, item, inHand, back, fatal, stop, out, consumer,
                   settling, history>>

\* The command channel is closed and empty, or the connection shuts down.
Drained ==
    /\ pc = "drain"
    /\ commands = <<>>
    /\ LineHolders = {} \/ stop
    /\ pc' = IF fatal THEN "ending" ELSE "detaching"
    /\ UNCHANGED <<peer, item, inHand, back, fatal, stop, out, consumer,
                   settling, history>>

\* receiver.detach, session.end, drop(p.guard).
TearDown ==
    /\ \/ pc = "detaching" /\ pc' = "ending"
       \/ pc = "ending" /\ pc' = "releasing"
       \/ pc = "releasing" /\ pc' = "exiting"
    /\ UNCHANGED <<peer, item, inHand, back, fatal, stop, out, consumer,
                   settling, history>>

\* Mutant of Exit: every settlement under way is told that the pump stopped.
ExitTellsAll ==
    /\ pc = "exiting"
    /\ answer' = [d \in Deliveries |->
                    IF handle[d] = "settling" THEN Stopped ELSE answer[d]]
    /\ commands' = <<>>
    /\ pc' = "ended"
    /\ UNCHANGED <<peer, item, inHand, back, fatal, stop, out, consumer, result,
                   applied, history>>

\* The task ends, and the commands it never read are dropped unanswered.
Exit ==
    /\ pc = "exiting"
    /\ answer' = [d \in Deliveries |->
                    IF \E i \in 1 .. Len(commands) : commands[i] = d
                    THEN Stopped ELSE answer[d]]
    /\ commands' = <<>>
    /\ pc' = "ended"
    /\ UNCHANGED <<peer, item, inHand, back, fatal, stop, out, consumer, result,
                   applied, history>>

-----------------------------------------------------------------------------
(***************************************************************************)
(* The subscriber, its handlers and the connection.                        *)
(***************************************************************************)

Busy == {d \in Deliveries : handle[d] \in {"handler", "settling"}}

\* The subscriber polls its stream when a worker is free.
Poll ==
    /\ subscriber = "alive"
    /\ out # <<>>
    /\ Cardinality(Busy) < Workers
    /\ out' = Tail(out)
    /\ IF Head(out) \in Good
       THEN Move(Head(out), "handler") /\ received' = Append(received, Head(out))
       ELSE UNCHANGED <<handle, received>>
    /\ UNCHANGED <<peer, task, stop, subscriber, settling, arrived>>

\* A handler settles; once the pump is gone the command cannot be sent.  At
\* most once there is nothing to settle with.
Settle(d) ==
    /\ handle[d] = "handler"
    /\ IF atMostOnce
       THEN Move(d, "gone") /\ UNCHANGED settling
       ELSE IF pc = "ended"
       THEN /\ result' = [result EXCEPT ![d] = Stopped]
            /\ Move(d, "gone")
            /\ UNCHANGED <<commands, answer, applied>>
       ELSE /\ commands' = Append(commands, d)
            /\ Move(d, "settling")
            /\ UNCHANGED <<answer, result, applied>>
    /\ UNCHANGED <<peer, task, stop, out, subscriber, history>>

\* The settlement reads its answer and returns it.
Return(d) ==
    /\ handle[d] = "settling"
    /\ answer[d] # Nobody
    /\ result' = [result EXCEPT ![d] = answer[d]]
    /\ Move(d, "gone")
    /\ UNCHANGED <<peer, task, stop, out, subscriber, commands, answer, applied,
                   history>>

\* A handler drops its message, or a settlement's future is dropped.
DropHandle(d) ==
    /\ handle[d] \in {"handler", "settling"}
    /\ result' = [result EXCEPT ![d] =
                    IF handle[d] = "handler" THEN Withdrawn ELSE Abandoned]
    /\ Move(d, "gone")
    /\ UNCHANGED <<peer, task, stop, out, subscriber, commands, answer, applied,
                   history>>

\* The subscriber is dropped, and with it what the channel holds now.
DropSubscriber ==
    /\ subscriber = "alive"
    /\ subscriber' = "dropped"
    /\ out' = <<>>
    /\ handle' = [d \in Deliveries |->
                    IF handle[d] = "channel" THEN "gone" ELSE handle[d]]
    /\ UNCHANGED <<peer, task, stop, settling, history>>

\* The connection shuts down: Pumps::stop_all.
Stop ==
    /\ ~stop
    /\ stop' = TRUE
    /\ UNCHANGED <<peer, task, out, consumer, settling, history>>

-----------------------------------------------------------------------------

PumpStep ==
    \/ TakeCommand \/ Apply \/ LeaveLoop \/ Reject \/ Deliver
    \/ Reserve \/ PermitSend \/ LeavePending
    \/ DropEnds \/ Drained \/ TearDown \/ Exit
    \/ \E d \in Deliveries : Receive(d) \/ ReceiveUnreadable(d)

Next ==
    \/ PumpStep \/ ReceiveFails \/ Poll \/ DropSubscriber \/ Stop
    \/ \E d \in Deliveries : Settle(d) \/ Return(d) \/ DropHandle(d)

Spec == Init /\ [][Next]_vars

\* The pump task runs, the client and the peer answer it, and a handler settles
\* what it has.  Nobody must poll the stream, drop anything, shut down or fail.
Fairness ==
    /\ WF_vars(PumpStep)
    /\ \A d \in Deliveries : WF_vars(Settle(d)) /\ WF_vars(Return(d))

FairSpec == Spec /\ Fairness

\* A subscriber that also polls whenever a worker is free.
PolledSpec == FairSpec /\ WF_vars(Poll)

-----------------------------------------------------------------------------
(***************************************************************************)
(* What the pump promises.                                                 *)
(***************************************************************************)

\* What is on its way to a handler, oldest first: the deliveries that read, and
\* errors about others.
OnTheWay == out \o (IF pc \in {"pending", "permit"} THEN <<item>> ELSE <<>>)

\* Handlers get what the link brought, in the order of the link, whatever
\* settlements, errors and polls come in between; and while the main loop runs
\* and the subscriber lives, the rest is on its way in that order, each once,
\* and nothing falls out.
HandedOverInOrder ==
    /\ IsPrefix(received, arrived)
    /\ (subscriber = "alive" /\ pc \in MainLoop) =>
          LET rest == Len(received) + 1 .. Len(arrived)
          IN /\ \A i, j \in DOMAIN OnTheWay :
                   i <= j /\ OnTheWay[i] \in Good /\ OnTheWay[j] \in Good =>
                      \E k, l \in rest :
                         /\ k <= l /\ (k = l <=> i = j)
                         /\ arrived[k] = OnTheWay[i]
                         /\ arrived[l] = OnTheWay[j]
             /\ \A k \in rest : \E i \in DOMAIN OnTheWay : OnTheWay[i] = arrived[k]

\* The link is detached only once no handle can settle through it any more,
\* unless the connection shuts down.
DetachedAfterLastHandle ==
    (pc \in Teardown /\ ~stop) => LineHolders = {} /\ commands = <<>>

Promise == INSTANCE SettlePromise WITH Settlements <- Deliveries,
                                       open <- pc # "ended"

\* The pump keeps the promise the settle line makes to the handles: each is
\* settled at most once, told the truth, and told "stopped" only if the client
\* never got its disposition.
KeepsPromise == Promise!Spec

\* A settlement under way comes back, though nobody polls the stream ("a stream
\* nobody polls cannot hold the acknowledgements of the deliveries already
\* handed out").
AcksComeBack ==
    \A d \in Deliveries : (handle[d] = "settling") ~> (handle[d] = "gone")

\* That much holds: a settlement under way comes back, or an error about some
\* other delivery is waiting for room in the channel.
OnlyErrorsHoldAcks ==
    \A d \in Deliveries :
        (handle[d] = "settling") ~>
            (handle[d] = "gone" \/ pc \in {"delivering", "failing"})

\* Shutdown ends the pump, even one whose stream is full and never polled.
StopEndsPump == stop ~> (pc = "ended")

\* A dropped subscriber ends the pump once its handlers are done, a delivery
\* sent into the channel in the moment of the drop included.
DropEndsPump == (subscriber = "dropped") ~> (pc = "ended")

=============================================================================
