---------------------------- MODULE Transactions ----------------------------
(***************************************************************************)
(* The transactional publisher (txn.rs, txn/owned.rs) over either of its   *)
(* transports: the live connection, or the in-process buffer               *)
(* (in_process/txn.rs).  One handle, shared by concurrent calls, holds at  *)
(* most one transaction in a slot behind an async mutex; owned             *)
(* transactions are declared next to it.  A transaction is named by the    *)
(* call that opens it.                                                     *)
(*                                                                         *)
(* The server is external: it holds what is posted under a transaction     *)
(* and shows it all on the commit.  Which link a message goes through is   *)
(* module Teardown's subject; here sender_for is a wait that may fail.     *)
(***************************************************************************)
EXTENDS FiniteSets

CONSTANTS
    Messages,       \* calls of publish, on the handle or on an owned transaction
    Transactions,   \* calls that open one: begin_transaction on the handle, or
                    \* transaction, which returns it as a value
    Discharges,     \* calls of commit and abort on the handle
    Transports,     \* those a behaviour may have
    PeerRefuses,    \* whether the peer may refuse a link, a declare, a discharge
    Nobody

\* An owned transaction settles itself.
Settlers == Discharges \cup Transactions
Calls == Messages \cup Settlers

ASSUME TransactionsAssumption ==
    /\ Messages \cap Settlers = {} /\ Discharges \cap Transactions = {}
    /\ Transports \subseteq {"live", "inprocess"}
    /\ PeerRefuses \in BOOLEAN
    /\ Nobody \notin Calls

VARIABLES
    transport,      \* the handle's Transport
    closed,         \* AmqpCore::closed, Bus::closed
    cut,            \* the session has ended, the router is closed
    slot,           \* the open transaction of the handle
    lock,           \* who holds the slot's mutex over an await
    at,             \* where each call stands
    under,          \* the transaction a message is posted under
    taken,          \* the transaction a settler took
    orphans,        \* transactions dropped undischarged
    fate,           \* what the server, or the buffer, made of each transaction
    held,           \* what was posted under it
    visible,        \* what subscribers may see
    told,           \* what each call returned: failed for an error or a drop
    within          \* history: the transaction whose span holds the publish

conn == <<transport, closed, cut>>
handle == <<slot, lock>>
server == <<orphans, fate, held, visible>>
vars == <<conn, handle, at, under, taken, server, told, within>>

Live == transport = "live"

TypeOK ==
    /\ transport \in Transports /\ closed \in BOOLEAN /\ cut \in BOOLEAN
    /\ slot \in Transactions \cup {Nobody}
    /\ lock \in Messages \cup Transactions \cup {Nobody}
    /\ at \in [Calls -> {"new", "sender", "lock", "posting", "sending", "routing",
                         "declaring", "opening", "open", "commit", "abort",
                         "committing", "aborting", "dropped", "returned"}]
    /\ under \in [Messages -> Transactions \cup {Nobody}]
    /\ taken \in [Settlers -> Transactions \cup {Nobody}]
    /\ \A c \in Settlers :
        at[c] \in {"committing", "aborting", "routing"} => taken[c] \in Transactions
    /\ orphans \subseteq Transactions
    /\ fate \in [Transactions -> {"none", "open", "committed", "discarded"}]
    /\ held \in [Transactions -> SUBSET Messages]
    /\ visible \subseteq Messages
    /\ told \in [Calls -> {"nothing", "ok", "committed", "aborted", "dropped",
                           "failed"}]
    /\ within \in [Messages -> Transactions \cup {Nobody}]

Init ==
    /\ transport \in Transports /\ closed = FALSE /\ cut = FALSE
    /\ slot = Nobody /\ lock = Nobody
    /\ at = [c \in Calls |-> "new"]
    /\ under = [m \in Messages |-> Nobody]
    /\ taken = [c \in Settlers |-> Nobody]
    /\ orphans = {}
    /\ fate = [t \in Transactions |-> "none"]
    /\ held = [t \in Transactions |-> {}]
    /\ visible = {}
    /\ told = [c \in Calls |-> "nothing"]
    /\ within = [m \in Messages |-> Nobody]

To(c, step) == at' = [at EXCEPT ![c] = step] /\ UNCHANGED told

Return(c, what) ==
    /\ at' = [at EXCEPT ![c] = "returned"]
    /\ told' = [told EXCEPT ![c] = what]

Unlock(c) == lock' = IF lock = c THEN Nobody ELSE lock

-----------------------------------------------------------------------------
(***************************************************************************)
(* What the server, or the buffer, does with transactions.                 *)
(***************************************************************************)

Hold(m, t) ==
    /\ held' = [held EXCEPT ![t] = @ \cup {m}]
    /\ UNCHANGED <<orphans, fate, visible>>

Show(m) == visible' = visible \cup {m} /\ UNCHANGED <<orphans, fate, held>>

Declare(t) ==
    /\ fate' = [fate EXCEPT ![t] = "open"]
    /\ UNCHANGED <<orphans, held, visible>>

CommitAll(t) ==
    /\ fate' = [fate EXCEPT ![t] = "committed"]
    /\ visible' = visible \cup held[t]
    /\ UNCHANGED <<orphans, held>>

Discard(t) ==
    /\ fate' = [fate EXCEPT ![t] = "discarded"]
    /\ UNCHANGED <<orphans, held, visible>>

\* The client rolls back a transaction dropped undischarged, without a wait.
Orphan(t) == orphans' = orphans \cup {t} /\ UNCHANGED <<fate, held, visible>>

OrphanEnds(t) ==
    /\ t \in orphans
    /\ orphans' = orphans \ {t}
    /\ fate' = [fate EXCEPT ![t] = IF @ = "open" THEN "discarded" ELSE @]
    /\ UNCHANGED <<conn, handle, at, under, taken, held, visible, told, within>>

\* A call whose answer does not come had its effect or not.
PostedOrNot(m, t) ==
    UNCHANGED server \/ (~cut /\ fate[t] = "open" /\ Hold(m, t))
SentOrNot(m) == UNCHANGED server \/ (~cut /\ Show(m))

-----------------------------------------------------------------------------
(***************************************************************************)
(* Shutting down, as far as transactions see it.                           *)
(***************************************************************************)

\* AmqpCore::shutdown and Bus::close say so first.
Close ==
    /\ ~closed
    /\ closed' = TRUE
    /\ UNCHANGED <<transport, cut, handle, at, under, taken, server, told, within>>

\* The session ends, and the server discards what it carried; or the router
\* closes, and the buffers stay.  (Module Teardown says what shutdown waits for
\* first; nothing here depends on it.)
Cut ==
    /\ closed /\ ~cut
    /\ cut' = TRUE
    /\ fate' = [t \in Transactions |->
                    IF Live /\ fate[t] = "open" THEN "discarded" ELSE fate[t]]
    /\ UNCHANGED <<transport, closed, handle, at, under, taken, orphans, held,
                   visible, told, within>>

-----------------------------------------------------------------------------
(***************************************************************************)
(* publish, on the handle.                                                 *)
(***************************************************************************)

\* No commit or abort was called and is still to come.
Undisturbed == \A d \in Discharges : at[d] \in {"new", "returned"}

\* ensure_open; in process, ensure_live.  A message that cannot be built fails.
Publish(m) ==
    /\ at[m] = "new"
    /\ \/ Return(m, "failed") /\ UNCHANGED within
       \/ /\ ~closed
          /\ To(m, IF Live THEN "sender" ELSE "lock")
          /\ within' = [within EXCEPT ![m] = IF Undisturbed THEN slot ELSE Nobody]
    /\ UNCHANGED <<conn, handle, under, taken, server>>

\* sender_for; an owned transaction posts without a lock.
SenderFor(m) ==
    /\ at[m] = "sender"
    /\ \/ To(m, IF under[m] = Nobody THEN "lock" ELSE "posting")
       \/ (PeerRefuses \/ cut) /\ Return(m, "failed")
    /\ UNCHANGED <<conn, handle, under, taken, server, within>>

\* Mutant of LockSlot: a slot that is locked is taken for an empty one.
TryLockSlot(m) ==
    /\ at[m] = "lock" /\ Live
    /\ IF slot # Nobody /\ lock = Nobody
       THEN /\ lock' = m
            /\ under' = [under EXCEPT ![m] = slot]
            /\ To(m, "posting")
       ELSE To(m, "sending") /\ UNCHANGED <<lock, under>>
    /\ UNCHANGED <<conn, slot, taken, server, within>>

\* live.txn.lock(): with a transaction open, the mutex is kept over the post.
LockSlot(m) ==
    /\ at[m] = "lock" /\ Live
    /\ lock = Nobody
    /\ IF slot # Nobody
       THEN /\ lock' = m
            /\ under' = [under EXCEPT ![m] = slot]
            /\ To(m, "posting")
       ELSE To(m, "sending") /\ UNCHANGED <<lock, under>>
    /\ UNCHANGED <<conn, slot, taken, server, within>>

\* TxnBuffer::publish pushes under its mutex, or drops that and routes.
Buffer(m) ==
    /\ at[m] = "lock" /\ ~Live
    /\ IF slot # Nobody
       THEN /\ under' = [under EXCEPT ![m] = slot]
            /\ Hold(m, slot)
            /\ Return(m, "ok")
       ELSE To(m, "routing") /\ UNCHANGED <<under, server>>
    /\ UNCHANGED <<conn, handle, taken, within>>

\* Bus::route
Route(m) ==
    /\ at[m] = "routing"
    /\ IF cut
       THEN Return(m, "failed") /\ UNCHANGED server
       ELSE Return(m, "ok") /\ Show(m)
    /\ UNCHANGED <<conn, handle, under, taken, within>>

\* txn.post comes back, and the mutex is free again.
Posted(m) ==
    /\ at[m] = "posting"
    /\ \/ ~cut /\ fate[under[m]] = "open" /\ Hold(m, under[m]) /\ Return(m, "ok")
       \/ PostedOrNot(m, under[m]) /\ Return(m, "failed")
    /\ Unlock(m)
    /\ UNCHANGED <<conn, slot, under, taken, within>>

\* send_message comes back.
Sent(m) ==
    /\ at[m] = "sending"
    /\ \/ ~cut /\ Show(m) /\ Return(m, "ok")
       \/ SentOrNot(m) /\ Return(m, "failed")
    /\ UNCHANGED <<conn, handle, under, taken, within>>

\* Mutant of CancelPublish: the slot stays locked.
CancelKeepsLock(m) ==
    /\ Live
    /\ \/ at[m] \in {"sender", "lock"} /\ UNCHANGED server
       \/ at[m] = "posting" /\ PostedOrNot(m, under[m])
       \/ at[m] = "sending" /\ SentOrNot(m)
    /\ Return(m, "failed")
    /\ UNCHANGED <<conn, handle, under, taken, within>>

\* The caller drops the publish where it waits.
CancelPublish(m) ==
    /\ Live
    /\ \/ at[m] \in {"sender", "lock"} /\ UNCHANGED server
       \/ at[m] = "posting" /\ PostedOrNot(m, under[m])
       \/ at[m] = "sending" /\ SentOrNot(m)
    /\ Return(m, "failed")
    /\ Unlock(m)
    /\ UNCHANGED <<conn, slot, under, taken, within>>

-----------------------------------------------------------------------------
(***************************************************************************)
(* begin_transaction, commit and abort, on the handle.                     *)
(***************************************************************************)

Begin(t) ==
    /\ at[t] = "new"
    /\ IF closed THEN Return(t, "failed") ELSE To(t, "lock")
    /\ UNCHANGED <<conn, handle, under, taken, server, within>>

\* Mutant of LockBegin: the mutex is released over the declare.
LockBeginBriefly(t) ==
    /\ at[t] = "lock"
    /\ lock = Nobody
    /\ IF slot # Nobody
       THEN Return(t, "failed") /\ UNCHANGED <<slot, server>>
       ELSE IF Live
            THEN To(t, "declaring") /\ UNCHANGED <<slot, server>>
            ELSE slot' = t /\ Declare(t) /\ Return(t, "ok")
    /\ UNCHANGED <<conn, lock, under, taken, within>>

\* An open transaction refuses the begin.  Live, the mutex is kept over the
\* declare; in process there is nothing to wait for.
LockBegin(t) ==
    /\ at[t] = "lock"
    /\ lock = Nobody
    /\ IF slot # Nobody
       THEN Return(t, "failed") /\ UNCHANGED <<handle, server>>
       ELSE IF Live
            THEN lock' = t /\ To(t, "declaring") /\ UNCHANGED <<slot, server>>
            ELSE slot' = t /\ Declare(t) /\ Return(t, "ok") /\ UNCHANGED lock
    /\ UNCHANGED <<conn, under, taken, within>>

\* declare comes back, for begin_transaction, which keeps the mutex over it, or
\* for transaction.
Declared(t) ==
    /\ at[t] \in {"declaring", "opening"}
    /\ \/ /\ ~cut
          /\ Declare(t)
          /\ IF at[t] = "declaring"
             THEN slot' = t /\ Return(t, "ok")
             ELSE To(t, "open") /\ UNCHANGED slot
       \/ /\ PeerRefuses \/ cut
          /\ Return(t, "failed")
          /\ UNCHANGED <<slot, server>>
    /\ Unlock(t)
    /\ UNCHANGED <<conn, under, taken, within>>

\* The caller drops the call; a declare the server has seen is orphaned.
CancelOpening(t) ==
    /\ Live
    /\ at[t] \in {"lock", "declaring", "opening"}
    /\ \/ UNCHANGED server
       \/ /\ at[t] # "lock" /\ ~cut
          /\ fate' = [fate EXCEPT ![t] = "open"]
          /\ orphans' = orphans \cup {t}
          /\ UNCHANGED <<held, visible>>
    /\ Return(t, "failed")
    /\ Unlock(t)
    /\ UNCHANGED <<conn, slot, under, taken, within>>

\* commit and abort do not look at closed first.
Discharge(d, how) ==
    /\ at[d] = "new"
    /\ To(d, how)
    /\ within' = [m \in Messages |->
                    IF at[m] = "returned" THEN within[m] ELSE Nobody]
    /\ UNCHANGED <<conn, handle, under, taken, server>>

Discharging(how) == IF how = "commit" THEN "committing" ELSE "aborting"

\* Mutant of Take: an empty slot is discharged like another.
TakeNothing(d) ==
    /\ at[d] \in {"commit", "abort"}
    /\ lock = Nobody
    /\ slot' = Nobody
    /\ taken' = [taken EXCEPT ![d] = slot]
    /\ To(d, Discharging(at[d]))
    /\ UNCHANGED <<conn, lock, under, server, within>>

\* live.txn.lock().await.take(), or TxnBuffer::take; an abort in process drops
\* the buffer at once.
Take(d) ==
    /\ at[d] \in {"commit", "abort"}
    /\ lock = Nobody
    /\ IF slot = Nobody
       THEN Return(d, "failed") /\ UNCHANGED <<slot, taken, server>>
       ELSE /\ slot' = Nobody
            /\ taken' = [taken EXCEPT ![d] = slot]
            /\ To(d, Discharging(at[d]))
            /\ IF ~Live /\ at[d] = "abort" THEN Discard(slot) ELSE UNCHANGED server
    /\ UNCHANGED <<conn, lock, under, within>>

\* The discharge comes back, of a borrowed or an owned transaction.  Refused, it
\* has consumed the transaction; cut off, it may have had its effect.
Discharged(c) ==
    LET t == taken[c] IN
    /\ Live
    /\ at[c] \in {"committing", "aborting"}
    /\ \/ /\ at[c] = "committing" /\ fate[t] = "open"
          /\ CommitAll(t) /\ Return(c, "committed")
       \/ /\ at[c] = "aborting" /\ fate[t] = "open"
          /\ Discard(t) /\ Return(c, "aborted")
       \/ /\ PeerRefuses /\ fate[t] = "open"
          /\ Discard(t) \/ (at[c] = "committing" /\ CommitAll(t))
          /\ Return(c, "failed")
       \/ cut /\ UNCHANGED server /\ Return(c, "failed")
    /\ UNCHANGED <<conn, handle, under, taken, within>>

\* The caller drops a commit or an abort where it waits.
CancelDischarge(c) ==
    /\ Live
    /\ \/ at[c] \in {"commit", "abort"} /\ UNCHANGED server
       \/ at[c] = "committing" /\ fate[taken[c]] = "open" /\ CommitAll(taken[c])
       \/ at[c] \in {"committing", "aborting"} /\ Orphan(taken[c])
    /\ Return(c, "failed")
    /\ UNCHANGED <<conn, handle, under, taken, within>>

\* In process, commit and abort look at closed after they took the buffer.
CheckLive(d) ==
    /\ ~Live
    /\ \/ /\ at[d] = "committing" /\ closed
          /\ Discard(taken[d]) /\ Return(d, "failed")
       \/ /\ at[d] = "committing" /\ ~closed
          /\ To(d, "routing") /\ UNCHANGED server
       \/ /\ at[d] = "aborting"
          /\ Return(d, IF closed THEN "failed" ELSE "aborted")
          /\ UNCHANGED server
    /\ UNCHANGED <<conn, handle, under, taken, within>>

\* Mutant of RouteAll: the messages are routed one by one.
RouteEach(c) ==
    LET t == taken[c] IN
    /\ at[c] = "routing"
    /\ \/ /\ cut
          /\ Discard(t) /\ Return(c, "failed")
       \/ /\ ~cut /\ held[t] \subseteq visible
          /\ CommitAll(t) /\ Return(c, "committed")
       \/ /\ ~cut
          /\ \E m \in held[t] \ visible : Show(m)
          /\ UNCHANGED <<at, told>>
    /\ UNCHANGED <<conn, handle, under, taken, within>>

\* Bus::route_all
RouteAll(c) ==
    LET t == taken[c] IN
    /\ at[c] = "routing"
    /\ IF cut
       THEN Discard(t) /\ Return(c, "failed")
       ELSE CommitAll(t) /\ Return(c, "committed")
    /\ UNCHANGED <<conn, handle, under, taken, within>>

-----------------------------------------------------------------------------
(***************************************************************************)
(* Owned transactions: each is one value, used by one call at a time.      *)
(***************************************************************************)

\* OwnedTransactions::transaction
Transaction(t) ==
    /\ at[t] = "new"
    /\ IF closed
       THEN Return(t, "failed") /\ UNCHANGED server
       ELSE IF Live
            THEN To(t, "opening") /\ UNCHANGED server
            ELSE To(t, "open") /\ Declare(t)
    /\ UNCHANGED <<conn, handle, under, taken, within>>

\* The value is not borrowed by a publish.
Free(t) ==
    at[t] = "open" /\ \A m \in Messages : under[m] = t => at[m] = "returned"

OwnPublish(t, m) ==
    /\ Free(t)
    /\ at[m] = "new"
    /\ \/ Return(m, "failed") /\ UNCHANGED <<under, server>>
       \/ /\ ~closed
          /\ under' = [under EXCEPT ![m] = t]
          /\ IF Live
             THEN To(m, "sender") /\ UNCHANGED server
             ELSE Hold(m, t) /\ Return(m, "ok")
    /\ UNCHANGED <<conn, handle, taken, within>>

\* Transaction::commit and abort take the value and look at closed, which drops
\* it undischarged.
Settle(t, how) ==
    /\ Free(t)
    /\ taken' = [taken EXCEPT ![t] = t]
    /\ IF closed
       THEN /\ Return(t, "failed")
            /\ IF Live THEN Orphan(t) ELSE Discard(t)
       ELSE IF Live
            THEN To(t, Discharging(how)) /\ UNCHANGED server
            ELSE IF how = "commit"
                 THEN To(t, "routing") /\ UNCHANGED server
                 ELSE Discard(t) /\ Return(t, "aborted")
    /\ UNCHANGED <<conn, handle, under, within>>

\* Mutant of Drop: the destructor does not spawn the rollback.
DropForgets(t) ==
    /\ Free(t)
    /\ Return(t, "dropped") /\ UNCHANGED server
    /\ UNCHANGED <<conn, handle, under, taken, within>>

\* Drop for AmqpTransaction: live, a task on the runtime rolls it back.
Drop(t) ==
    /\ Free(t)
    /\ IF Live
       THEN To(t, "dropped") /\ UNCHANGED server
       ELSE Discard(t) /\ Return(t, "dropped")
    /\ UNCHANGED <<conn, handle, under, taken, within>>

\* That task.
RolledBack(t) ==
    /\ at[t] = "dropped"
    /\ fate' = [fate EXCEPT ![t] = IF @ = "open" THEN "discarded" ELSE @]
    /\ Return(t, "dropped")
    /\ UNCHANGED <<conn, handle, under, taken, orphans, held, visible, within>>

-----------------------------------------------------------------------------

PublishStep(m) ==
    \/ SenderFor(m) \/ LockSlot(m) \/ Buffer(m) \/ Route(m) \/ Posted(m) \/ Sent(m)

SettleStep(c) == Take(c) \/ Discharged(c) \/ CheckLive(c) \/ RouteAll(c)

OwnStep(t) ==
    \/ LockBegin(t) \/ Declared(t) \/ SettleStep(t) \/ RolledBack(t) \/ OrphanEnds(t)

Next ==
    \/ Close \/ Cut
    \/ \E m \in Messages :
        \/ Publish(m) \/ PublishStep(m) \/ CancelPublish(m)
        \/ \E t \in Transactions : OwnPublish(t, m)
    \/ \E t \in Transactions :
        \/ Begin(t) \/ Transaction(t) \/ OwnStep(t) \/ CancelOpening(t)
        \/ Settle(t, "commit") \/ Settle(t, "abort") \/ Drop(t)
    \/ \E d \in Discharges :
        \/ Discharge(d, "commit") \/ Discharge(d, "abort") \/ SettleStep(d)
    \/ \E c \in Settlers : CancelDischarge(c)

Spec == Init /\ [][Next]_vars

\* Every task that can run does, and the server answers.  Nobody has to call,
\* cancel or shut down; an owned transaction may stay open.
Fairness ==
    /\ \A m \in Messages : WF_vars(PublishStep(m))
    /\ \A t \in Transactions : WF_vars(OwnStep(t))
    /\ \A d \in Discharges : WF_vars(SettleStep(d))

FairSpec == Spec /\ Fairness

-----------------------------------------------------------------------------
(***************************************************************************)
(* What the publisher promises.                                            *)
(***************************************************************************)

\* What is published between begin and commit belongs to the transaction: a
\* publish that starts with a transaction open and ends before anyone calls
\* commit or abort is posted under that transaction, never sent past it,
\* whatever other publishes hold the slot meanwhile.
JoinsItsTransaction ==
    \A m \in Messages :
        told[m] = "ok" /\ within[m] # Nobody => m \in held[within[m]]

\* A begun transaction stays with the handle until a commit or an abort takes
\* it: no second begin overwrites it ("two begins cannot race an open slot").
BegunIsKept ==
    \A t \in Transactions :
        told[t] = "ok" => slot = t \/ \E d \in Discharges : taken[d] = t

\* No message is on its way under a transaction that is being discharged: the
\* server would refuse it, or the commit leave it out.
NoPostWhileDischarging ==
    \A m \in Messages, c \in Settlers :
        at[m] = "posting" /\ at[c] \in {"committing", "aborting"} =>
            under[m] # taken[c]

\* Transactions are atomic and the callers told the truth about them, on either
\* transport.
Promise == INSTANCE AtomicPosting
PostsAtomically == Promise!Spec

\* Every call returns, cancelled calls and failed discharges before it or not:
\* the handle never wedges.  (Calls are finitely many, so in the end none is
\* under way.)
EveryCallReturns ==
    <>[](\A c \in Calls : at[c] \in {"new", "open", "returned"})

\* A transaction nobody can settle any more is rolled back in the end: one
\* dropped unsettled, or lost with a call that was dropped.
LooseOnesEnd ==
    <>[](\A t \in Transactions :
            t \in orphans \/ told[t] = "dropped" => fate[t] # "open")

=============================================================================
