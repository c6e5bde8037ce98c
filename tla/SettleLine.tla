----------------------------- MODULE SettleLine -----------------------------
(***************************************************************************)
(* The settlement path every handle of one subscription shares             *)
(* (settle.rs).  Each settlement is one call of SettleLine::settle, and a  *)
(* message handle makes at most one, so a settlement stands for its        *)
(* delivery and for the command it sends.                                  *)
(*                                                                         *)
(* A settlement takes an answer slot, sends its command to the pump, reads *)
(* the answer out of the slot and puts the slot back.  The future that     *)
(* runs it can be dropped wherever it awaits.  Every access to the shared  *)
(* atomics and queues is a step of its own.                                *)
(***************************************************************************)
EXTENDS Naturals, FiniteSets, Sequences

CONSTANTS
    Settlements,    \* the settlements of the subscription's deliveries
    Credit          \* the line's capacity in answer slots

ASSUME SettleLineAssumption ==
    /\ IsFiniteSet(Settlements)
    /\ Credit \in Nat \ {0}

(***************************************************************************)
(* Results and slot contents that are not settlements.                     *)
(***************************************************************************)
CONSTANTS Nobody, Stopped, Withdrawn, Abandoned

ASSUME NullAssumption ==
    /\ {Nobody, Stopped, Withdrawn, Abandoned} \cap Settlements = {}
    /\ Nobody \notin {Stopped, Withdrawn, Abandoned}
    /\ Stopped \notin {Withdrawn, Abandoned}
    /\ Withdrawn # Abandoned

VARIABLES
    pc,         \* where each settlement stands
    slot,       \* the answer slot it holds; a slot is named by its maker
    notified,   \* its Notified future: none, listed, woken or spent
    result,     \* what it returned: the command that was answered, or why not
    permit,     \* Notify: a wake-up nobody was listed for
    waiting,    \* the counter of settlements waiting for a slot
    idle,       \* the slots no settlement uses
    made,       \* the counter of slots that exist, idle or in use
    answer,     \* what each slot contains
    commands,   \* the channel to the pump
    inHand,     \* the command the pump is applying
    pump,       \* serving or stopped
    applied     \* history: the settlements whose disposition the client was given

taking == <<slot, notified, permit, waiting, idle, made>>
serving == <<commands, inHand, pump, applied>>
vars == <<pc, taking, result, answer, serving>>

Command == [by : Settlements, reply : Settlements]
NoCommand == [by |-> Nobody, reply |-> Nobody]

Steps == {"new", "pop", "make", "register", "count", "parked", "uncount",
          "unlist", "send", "recv", "push", "giveup", "wake", "notify",
          "returned"}

TypeOK ==
    /\ pc \in [Settlements -> Steps]
    /\ slot \in [Settlements -> Settlements \cup {Nobody}]
    /\ notified \in [Settlements -> {"none", "listed", "woken", "spent"}]
    /\ result \in [Settlements ->
            Settlements \cup {Nobody, Stopped, Withdrawn, Abandoned}]
    /\ permit \in BOOLEAN
    /\ waiting \in Nat
    /\ idle \subseteq Settlements
    /\ made \in Nat
    /\ answer \in [Settlements -> Settlements \cup {Nobody, Stopped}]
    /\ commands \in Seq(Command)
    /\ inHand \in Command \cup {NoCommand}
    /\ pump \in {"serving", "stopped"}
    /\ applied \subseteq Settlements

\* SettleLine::open
Init ==
    /\ pc = [s \in Settlements |-> "new"]
    /\ slot = [s \in Settlements |-> Nobody]
    /\ notified = [s \in Settlements |-> "none"]
    /\ result = [s \in Settlements |-> Nobody]
    /\ permit = FALSE
    /\ waiting = 0
    /\ idle = {}
    /\ made = 0
    /\ answer = [s \in Settlements |-> Nobody]
    /\ commands = <<>>
    /\ inHand = NoCommand
    /\ pump = "serving"
    /\ applied = {}

Goto(s, step) == pc' = [pc EXCEPT ![s] = step]

-----------------------------------------------------------------------------
(***************************************************************************)
(* Taking a slot.                                                          *)
(***************************************************************************)

\* A handle calls settle.
Settle(s) ==
    /\ pc[s] = "new"
    /\ Goto(s, "pop")
    /\ UNCHANGED <<taking, result, answer, serving>>

\* A second look has its Notified registered and itself counted; taking a
\* slot there drops both before the settlement goes on.
Took(s, k) ==
    /\ slot' = [slot EXCEPT ![s] = k]
    /\ Goto(s, IF notified[s] = "none" THEN "send" ELSE "uncount")

\* Somebody who could still write into slot k holds its sender.
SenderOut(k) ==
    \/ \E s \in Settlements : slot[s] = k /\ pc[s] \in {"uncount", "unlist", "send"}
    \/ \E i \in 1 .. Len(commands) : commands[i].reply = k
    \/ inHand.reply = k

\* try_take: an idle slot, or nothing.  The channel refuses a second sender
\* while one is out, and may refuse one over an answer nobody read; then a
\* fresh receiver, named by s, takes the idle one's place.
Pop(s) ==
    /\ pc[s] = "pop"
    /\ \/ \E k \in idle :
            /\ idle' = idle \ {k}
            /\ \/ ~SenderOut(k) /\ Took(s, k)
               \/ (SenderOut(k) \/ answer[k] # Nobody) /\ Took(s, s)
       \/ /\ idle = {}
          /\ Goto(s, "make")
          /\ UNCHANGED <<slot, idle>>
    /\ UNCHANGED <<notified, permit, waiting, made, result, answer, serving>>

\* Mutant of Make: the limit is off by one.
MakeOneTooMany(s) ==
    /\ pc[s] = "make"
    /\ \/ /\ made <= Credit
          /\ made' = made + 1
          /\ Took(s, s)
       \/ /\ made > Credit
          /\ Goto(s, IF notified[s] = "none" THEN "register" ELSE "parked")
          /\ UNCHANGED <<slot, made>>
    /\ UNCHANGED <<notified, permit, waiting, idle, result, answer, serving>>

\* make_slot: the compare-and-swap on made, or the failed look.
Make(s) ==
    /\ pc[s] = "make"
    /\ \/ /\ made < Credit
          /\ made' = made + 1
          /\ Took(s, s)
       \/ /\ made >= Credit
          /\ Goto(s, IF notified[s] = "none" THEN "register" ELSE "parked")
          /\ UNCHANGED <<slot, made>>
    /\ UNCHANGED <<notified, permit, waiting, idle, result, answer, serving>>

\* freed.notified().enable(): a stored permit is spent at once, otherwise the
\* settlement is listed.
Register(s) ==
    /\ pc[s] = "register"
    /\ notified' = [notified EXCEPT ![s] = IF permit THEN "spent" ELSE "listed"]
    /\ permit' = FALSE
    /\ Goto(s, "count")
    /\ UNCHANGED <<slot, waiting, idle, made, result, answer, serving>>

\* Waiting::enter
Count(s) ==
    /\ pc[s] = "count"
    /\ waiting' = waiting + 1
    /\ Goto(s, "pop")
    /\ UNCHANGED <<slot, notified, permit, idle, made, result, answer, serving>>

\* freed.await returns, which spends the wake-up.
Awake(s) ==
    /\ pc[s] = "parked"
    /\ notified[s] \in {"woken", "spent"}
    /\ notified' = [notified EXCEPT ![s] = "spent"]
    /\ Goto(s, "uncount")
    /\ UNCHANGED <<slot, permit, waiting, idle, made, result, answer, serving>>

\* The future is dropped at freed.await, which suspends only a settlement that
\* found no permit stored.
CancelParked(s) ==
    /\ pc[s] = "parked"
    /\ notified[s] # "spent"
    /\ result' = [result EXCEPT ![s] = Withdrawn]
    /\ Goto(s, "uncount")
    /\ UNCHANGED <<taking, answer, serving>>

\* Drop for Waiting
Uncount(s) ==
    /\ pc[s] = "uncount"
    /\ waiting' = waiting - 1
    /\ Goto(s, "unlist")
    /\ UNCHANGED <<slot, notified, permit, idle, made, result, answer, serving>>

\* Notify::notify_one, given who is listed: one of them is woken, or the
\* wake-up is kept.
NotifyOne(futures) ==
    \/ \E t \in Settlements :
        /\ futures[t] = "listed"
        /\ notified' = [futures EXCEPT ![t] = "woken"]
        /\ UNCHANGED permit
    \/ /\ \A t \in Settlements : futures[t] # "listed"
       /\ notified' = futures
       /\ permit' = TRUE

\* Mutant of Unlist: a woken settlement takes for granted that it has a slot.
UnlistWithSlot(s) ==
    /\ pc[s] = "unlist"
    /\ LET left == [notified EXCEPT ![s] = "none"]
       IN IF notified[s] = "woken"
          THEN NotifyOne(left)
          ELSE notified' = left /\ UNCHANGED permit
    /\ Goto(s, IF result[s] = Withdrawn THEN "returned" ELSE "send")
    /\ UNCHANGED <<slot, waiting, idle, made, result, answer, serving>>

\* Mutant of Unlist: a wake-up the settlement did not use is lost.
UnlistWakesNobody(s) ==
    /\ pc[s] = "unlist"
    /\ notified' = [notified EXCEPT ![s] = "none"]
    /\ Goto(s, IF result[s] = Withdrawn THEN "returned"
               ELSE IF slot[s] = Nobody THEN "pop" ELSE "send")
    /\ UNCHANGED <<slot, permit, waiting, idle, made, result, answer, serving>>

\* The Notified is dropped, and hands on a wake-up it got but never returned.
Unlist(s) ==
    /\ pc[s] = "unlist"
    /\ LET left == [notified EXCEPT ![s] = "none"]
       IN IF notified[s] = "woken"
          THEN NotifyOne(left)
          ELSE notified' = left /\ UNCHANGED permit
    /\ Goto(s, IF result[s] = Withdrawn THEN "returned"
               ELSE IF slot[s] = Nobody THEN "pop" ELSE "send")
    /\ UNCHANGED <<slot, waiting, idle, made, result, answer, serving>>

-----------------------------------------------------------------------------
(***************************************************************************)
(* The command and its answer.                                             *)
(***************************************************************************)

\* commands.send: fails once the pump dropped its end, which drops the slot.
Send(s) ==
    /\ pc[s] = "send"
    /\ \/ /\ pump = "serving"
          /\ commands' = Append(commands, [by |-> s, reply |-> slot[s]])
          /\ Goto(s, "recv")
          /\ UNCHANGED result
       \/ /\ pump = "stopped"
          /\ result' = [result EXCEPT ![s] = Stopped]
          /\ Goto(s, "giveup")
          /\ UNCHANGED commands
    /\ UNCHANGED <<taking, answer, inHand, pump, applied>>

\* slot.recv().await: the answer, or word that the sender was dropped.
Recv(s) ==
    /\ pc[s] = "recv"
    /\ answer[slot[s]] # Nobody
    /\ result' = [result EXCEPT ![s] = answer[slot[s]]]
    /\ answer' = [answer EXCEPT ![slot[s]] = Nobody]
    /\ Goto(s, "push")
    /\ UNCHANGED <<taking, serving>>

\* The future is dropped at slot.recv().await.
CancelRecv(s) ==
    /\ pc[s] = "recv"
    /\ result' = [result EXCEPT ![s] = Abandoned]
    /\ Goto(s, "giveup")
    /\ UNCHANGED <<taking, answer, serving>>

\* Taken::release: push onto the idle queue, which has room for Credit slots.
Push(s) ==
    /\ pc[s] = "push"
    /\ IF Cardinality(idle) < Credit
       THEN idle' = idle \cup {slot[s]} /\ UNCHANGED made
       ELSE made' = made - 1 /\ UNCHANGED idle
    /\ slot' = [slot EXCEPT ![s] = Nobody]
    /\ Goto(s, "wake")
    /\ UNCHANGED <<notified, permit, waiting, result, answer, serving>>

\* Mutant of GiveUp: the slot of a dropped settlement is used again.
GiveUpReuses(s) ==
    /\ pc[s] = "giveup"
    /\ idle' = idle \cup {slot[s]}
    /\ slot' = [slot EXCEPT ![s] = Nobody]
    /\ Goto(s, "wake")
    /\ UNCHANGED <<notified, permit, waiting, made, result, answer, serving>>

\* Mutant of GiveUp: nobody is told that another slot may be made.
GiveUpQuietly(s) ==
    /\ pc[s] = "giveup"
    /\ made' = made - 1
    /\ slot' = [slot EXCEPT ![s] = Nobody]
    /\ Goto(s, "returned")
    /\ UNCHANGED <<notified, permit, waiting, idle, result, answer, serving>>

\* Drop for Taken: the slot is gone, another may be made in its place.
GiveUp(s) ==
    /\ pc[s] = "giveup"
    /\ made' = made - 1
    /\ slot' = [slot EXCEPT ![s] = Nobody]
    /\ Goto(s, "wake")
    /\ UNCHANGED <<notified, permit, waiting, idle, result, answer, serving>>

\* wake_one: the load of waiting.
Wake(s) ==
    /\ pc[s] = "wake"
    /\ Goto(s, IF waiting > 0 THEN "notify" ELSE "returned")
    /\ UNCHANGED <<taking, result, answer, serving>>

\* wake_one: the notification.
Notify(s) ==
    /\ pc[s] = "notify"
    /\ NotifyOne(notified)
    /\ Goto(s, "returned")
    /\ UNCHANGED <<slot, waiting, idle, made, result, answer, serving>>

-----------------------------------------------------------------------------
(***************************************************************************)
(* The pump's end of the line.                                             *)
(***************************************************************************)

PumpTakes ==
    /\ pump = "serving"
    /\ inHand = NoCommand
    /\ commands # <<>>
    /\ inHand' = Head(commands)
    /\ commands' = Tail(commands)
    /\ UNCHANGED <<pc, taking, result, answer, pump, applied>>

\* The client was given the disposition, and Reply::send hands back what it
\* answered: that it was taken, or why it was refused.
PumpReplies ==
    /\ inHand # NoCommand
    /\ applied' = applied \cup {inHand.by}
    /\ answer' = [answer EXCEPT ![inHand.reply] = inHand.by]
    /\ inHand' = NoCommand
    /\ UNCHANGED <<pc, taking, result, commands, pump>>

\* Mutant of PumpStops: the pump ends while the client still has a disposition.
PumpStopsMidway ==
    /\ pump = "serving"
    /\ pump' = "stopped"
    /\ commands' = <<>>
    /\ answer' = [k \in Settlements |->
                    IF \E i \in 1 .. Len(commands) : commands[i].reply = k
                    THEN Stopped ELSE answer[k]]
    /\ UNCHANGED <<pc, taking, result, inHand, applied>>

\* The pump ends between two commands and drops those it never read, their
\* senders with them.
PumpStops ==
    /\ pump = "serving"
    /\ inHand = NoCommand
    /\ pump' = "stopped"
    /\ commands' = <<>>
    /\ answer' = [k \in Settlements |->
                    IF \E i \in 1 .. Len(commands) : commands[i].reply = k
                    THEN Stopped ELSE answer[k]]
    /\ UNCHANGED <<pc, taking, result, inHand, applied>>

-----------------------------------------------------------------------------

\* What a settlement does once it is called and nobody drops its future.
Advance(s) ==
    \/ Pop(s) \/ Make(s) \/ Register(s) \/ Count(s) \/ Awake(s)
    \/ Uncount(s) \/ Unlist(s) \/ Send(s) \/ Recv(s) \/ Push(s)
    \/ GiveUp(s) \/ Wake(s) \/ Notify(s)

Next ==
    \/ \E s \in Settlements :
        Settle(s) \/ Advance(s) \/ CancelParked(s) \/ CancelRecv(s)
    \/ PumpTakes \/ PumpReplies \/ PumpStops

Spec == Init /\ [][Next]_vars

\* Tasks that can run are run, and a pump that serves keeps reading commands.
\* Nobody is obliged to settle, to drop a future or to stop the pump.
Fairness ==
    /\ \A s \in Settlements : WF_vars(Advance(s))
    /\ WF_vars(PumpTakes)
    /\ WF_vars(PumpReplies)

FairSpec == Spec /\ Fairness

-----------------------------------------------------------------------------
(***************************************************************************)
(* What the line promises.                                                 *)
(***************************************************************************)

\* Deliveries held unsettled can outnumber the credit, and however many
\* settlements run at once, and however many of their futures were dropped,
\* the slots the line still uses never outnumber it ("the line never holds
\* more slots than the credit").
SlotsWithinCredit ==
    Cardinality(idle) + Cardinality({s \in Settlements : slot[s] # Nobody})
        <= Credit

\* A slot the pump may still write into serves nobody but the settlement the
\* pending command came from: it is not idle and no other settlement reads it.
PendingSlotIsPrivate ==
    \A c \in {commands[i] : i \in 1 .. Len(commands)} \cup ({inHand} \ {NoCommand}) :
        /\ c.reply \notin idle
        /\ \A s \in Settlements : slot[s] = c.reply => s = c.by

\* A settlement that returns an answer returns the one to its own command,
\* which the client was given; one told that the pump stopped, or dropped before it
\* sent its command, left its delivery untouched.
AnswersAreHonest ==
    \A s \in Settlements :
        /\ result[s] \in Settlements => result[s] = s /\ s \in applied
        /\ result[s] \in {Stopped, Withdrawn} => s \notin applied

\* Some settlement that will look at the slots, or wake one that will.
Stirring ==
    \E s \in Settlements :
        \/ pc[s] \in Steps \ {"new", "parked", "recv", "returned"}
        \/ pc[s] = "parked" /\ notified[s] # "listed"

\* No wake-up is lost: while a settlement sleeps and a slot is free, or may be
\* made, somebody is on the way to take it or to wake a sleeper.
NoStrandedWaiter ==
    (idle # {} \/ made < Credit) /\ (\E s \in Settlements : pc[s] = "parked")
        => Stirring

\* Every settlement that is called returns, whatever is cancelled around it
\* and whether or not the pump stops.
EverySettlementReturns ==
    \A s \in Settlements : (pc[s] # "new") ~> (pc[s] = "returned")

Promise == INSTANCE SettlePromise WITH open <- pump = "serving"

\* Through all of that the line is nothing but the promise a handle sees.
KeepsPromise == Promise!Spec

=============================================================================
