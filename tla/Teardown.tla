------------------------------ MODULE Teardown ------------------------------
(***************************************************************************)
(* One live connection (broker.rs): subscriptions opening sessions of      *)
(* their own, publishes attaching and sharing sender links on the common   *)
(* session, and shutdowns tearing all of it down from the inside out.      *)
(* Handles connected through clones of one broker share the connection, so *)
(* any of these may run at once.                                           *)
(*                                                                         *)
(* A link is named by the publish that attached it.  An async mutex held   *)
(* over an await is a variable; one that is not is part of the step.       *)
(***************************************************************************)
EXTENDS Naturals, FiniteSets

CONSTANTS
    Subscriptions,  \* calls of subscribe_address
    Publishes,      \* calls of publish
    Shutdowns,      \* calls of shutdown
    Addresses,
    AddressOf,      \* the address each publish names
    PeerRefuses,    \* whether the peer may refuse a session or a link
    Nobody

ASSUME TeardownAssumption ==
    /\ IsFiniteSet(Subscriptions)
    /\ AddressOf \in [Publishes -> Addresses]
    /\ PeerRefuses \in BOOLEAN
    /\ Nobody \notin Publishes \cup Addresses

VARIABLES
    closed,         \* AmqpCore::closed
    running,        \* Pumps::running still hands out guards
    stop,           \* Pumps::stop
    guards,         \* the subscriptions whose guard is out
    connection,     \* open or closed
    session,        \* the publishers' session: open or ended
    subSession,     \* each subscription's session
    sub,            \* where each opening, then its pump, stands
    senders,        \* the map of sender links per address
    mapLock,        \* who holds that map
    sessionLock,    \* who holds the publishers' session
    link,           \* what became of each link
    slot,           \* the links still in their slots
    slotLock,       \* who holds each link's slot
    pub,            \* where each publish stands
    uses,           \* the link it goes through
    down,           \* where each shutdown stands
    todo,           \* the links it has still to close
    taken,          \* the link it is closing
    told            \* what each publish and shutdown returned

pumps == <<running, stop, guards>>
conns == <<connection, session>>
subs == <<sub, subSession>>
links == <<senders, mapLock, sessionLock, link, slot, slotLock>>
publishing == <<pub, uses>>
tearing == <<down, todo, taken>>
vars == <<closed, pumps, conns, subs, links, publishing, tearing, told>>

Locker == Publishes \cup {Nobody}

TypeOK ==
    /\ closed \in BOOLEAN /\ running \in BOOLEAN /\ stop \in BOOLEAN
    /\ guards \subseteq Subscriptions
    /\ connection \in {"open", "closed"}
    /\ session \in {"open", "ended"}
    /\ subSession \in [Subscriptions -> {"none", "open", "ending", "ended"}]
    /\ sub \in [Subscriptions -> {"new", "opening", "guarded", "begun", "live",
                                  "ended", "gone", "refused"}]
    /\ senders \in [Addresses -> Locker]
    /\ mapLock \in Locker /\ sessionLock \in Locker
    /\ link \in [Publishes -> {"none", "attached", "closed"}]
    /\ slot \subseteq Publishes
    /\ slotLock \in [Publishes -> Locker]
    /\ pub \in [Publishes -> {"new", "lookup", "attach", "attaching", "slot",
                              "sending", "returned"}]
    /\ uses \in [Publishes -> Locker]
    /\ down \in [Shutdowns -> {"new", "take", "signal", "wait", "drain",
                               "close", "detach", "end", "hangup", "returned"}]
    /\ todo \in [Shutdowns -> SUBSET Publishes]
    /\ taken \in [Shutdowns -> Locker]
    /\ told \in [Publishes \cup Shutdowns -> {"nothing", "ok", "NotConnected",
                    "Attach", "Publish", "Cancelled", "Detach", "Session",
                    "Connect"}]

Init ==
    /\ closed = FALSE /\ running = TRUE /\ stop = FALSE
    /\ guards = {}
    /\ connection = "open" /\ session = "open"
    /\ subSession = [s \in Subscriptions |-> "none"]
    /\ sub = [s \in Subscriptions |-> "new"]
    /\ senders = [a \in Addresses |-> Nobody]
    /\ mapLock = Nobody /\ sessionLock = Nobody
    /\ link = [p \in Publishes |-> "none"]
    /\ slot = {}
    /\ slotLock = [p \in Publishes |-> Nobody]
    /\ pub = [p \in Publishes |-> "new"]
    /\ uses = [p \in Publishes |-> Nobody]
    /\ down = [h \in Shutdowns |-> "new"]
    /\ todo = [h \in Shutdowns |-> {}]
    /\ taken = [h \in Shutdowns |-> Nobody]
    /\ told = [c \in Publishes \cup Shutdowns |-> "nothing"]

-----------------------------------------------------------------------------
(***************************************************************************)
(* Opening a subscription, and the end of its pump.                        *)
(***************************************************************************)

SubTo(s, step) == sub' = [sub EXCEPT ![s] = step]

\* open: ensure_open, then a task on the connection's runtime.
Open(s) ==
    /\ sub[s] = "new"
    /\ SubTo(s, IF closed THEN "refused" ELSE "opening")
    /\ UNCHANGED <<closed, pumps, conns, subSession, links, publishing, tearing, told>>

\* Mutant of Guard: a guard is handed out whenever one is asked for.
GuardAlways(s) ==
    /\ sub[s] = "opening"
    /\ SubTo(s, "guarded") /\ guards' = guards \cup {s}
    /\ UNCHANGED <<closed, running, stop, conns, subSession, links, publishing,
                   tearing, told>>

\* Pumps::guard
Guard(s) ==
    /\ sub[s] = "opening"
    /\ IF running
       THEN SubTo(s, "guarded") /\ guards' = guards \cup {s}
       ELSE SubTo(s, "refused") /\ UNCHANGED guards
    /\ UNCHANGED <<closed, running, stop, conns, subSession, links, publishing,
                   tearing, told>>

\* Session::begin under the connection's lock; a failure drops the guard.
Begin(s) ==
    /\ sub[s] = "guarded"
    /\ \/ /\ connection = "open"
          /\ SubTo(s, "begun")
          /\ subSession' = [subSession EXCEPT ![s] = "open"]
          /\ UNCHANGED guards
       \/ /\ PeerRefuses \/ connection = "closed"
          /\ SubTo(s, "refused")
          /\ guards' = guards \ {s}
          /\ UNCHANGED subSession
    /\ UNCHANGED <<closed, running, stop, conns, links, publishing, tearing, told>>

\* AmqpSubscriber::attach spawns the pump.
Attach(s) ==
    /\ sub[s] = "begun"
    /\ SubTo(s, "live")
    /\ UNCHANGED <<closed, pumps, conns, subSession, links, publishing, tearing, told>>

\* The peer refuses the link: the guard is dropped, and the session's handle
\* with it, which only queues the session's end.
AttachRefused(s) ==
    /\ PeerRefuses
    /\ sub[s] = "begun"
    /\ SubTo(s, "refused")
    /\ guards' = guards \ {s}
    /\ subSession' = [subSession EXCEPT ![s] = "ending"]
    /\ UNCHANGED <<closed, running, stop, conns, links, publishing, tearing, told>>

\* The client's session task gets the peer's answer to a queued end.
QueuedEnd(s) ==
    /\ subSession[s] = "ending"
    /\ subSession' = [subSession EXCEPT ![s] = "ended"]
    /\ UNCHANGED <<closed, pumps, conns, sub, links, publishing, tearing, told>>

\* The pump ends its session: because of the stop signal, or for its own
\* subscription's reasons.
PumpEnds(s) ==
    /\ sub[s] = "live"
    /\ SubTo(s, "ended")
    /\ subSession' = [subSession EXCEPT ![s] = "ended"]
    /\ UNCHANGED <<closed, pumps, conns, links, publishing, tearing, told>>

\* drop(p.guard)
Release(s) ==
    /\ sub[s] = "ended"
    /\ SubTo(s, "gone")
    /\ guards' = guards \ {s}
    /\ UNCHANGED <<closed, running, stop, conns, subSession, links, publishing,
                   tearing, told>>

-----------------------------------------------------------------------------
(***************************************************************************)
(* Publishing.                                                             *)
(***************************************************************************)

PubTo(p, step) == pub' = [pub EXCEPT ![p] = step]

Tell(c, what) == told' = [told EXCEPT ![c] = what]

\* ensure_open
Publish(p) ==
    /\ pub[p] = "new"
    /\ IF closed
       THEN PubTo(p, "returned") /\ Tell(p, "NotConnected")
       ELSE PubTo(p, "lookup") /\ UNCHANGED told
    /\ UNCHANGED <<closed, pumps, conns, subs, links, uses, tearing>>

\* Mutant of Lookup: the map is unlocked over the attach.
LookupUnlocked(p) ==
    /\ pub[p] = "lookup"
    /\ mapLock = Nobody
    /\ IF senders[AddressOf[p]] # Nobody
       THEN uses' = [uses EXCEPT ![p] = senders[AddressOf[p]]] /\ PubTo(p, "slot")
       ELSE PubTo(p, "attach") /\ UNCHANGED uses
    /\ UNCHANGED <<closed, pumps, conns, subs, links, tearing, told>>

\* sender_for: an address without a link keeps the map locked.
Lookup(p) ==
    /\ pub[p] = "lookup"
    /\ mapLock = Nobody
    /\ IF senders[AddressOf[p]] # Nobody
       THEN /\ uses' = [uses EXCEPT ![p] = senders[AddressOf[p]]]
            /\ PubTo(p, "slot")
            /\ UNCHANGED mapLock
       ELSE /\ mapLock' = p
            /\ PubTo(p, "attach")
            /\ UNCHANGED uses
    /\ UNCHANGED <<closed, pumps, conns, subs, senders, sessionLock, link, slot,
                   slotLock, tearing, told>>

\* attach_sender waits for the session.
LockSession(p) ==
    /\ pub[p] = "attach"
    /\ sessionLock = Nobody
    /\ sessionLock' = p
    /\ PubTo(p, "attaching")
    /\ UNCHANGED <<closed, pumps, conns, subs, senders, mapLock, link, slot,
                   slotLock, uses, tearing, told>>

Unlock(p) == mapLock' = Nobody /\ sessionLock' = Nobody

\* The peer answers the attach, and the link goes into the map.
Attached(p) ==
    /\ pub[p] = "attaching"
    /\ session = "open" /\ connection = "open"
    /\ link' = [link EXCEPT ![p] = "attached"]
    /\ slot' = slot \cup {p}
    /\ senders' = [senders EXCEPT ![AddressOf[p]] = p]
    /\ uses' = [uses EXCEPT ![p] = p]
    /\ Unlock(p)
    /\ PubTo(p, "slot")
    /\ UNCHANGED <<closed, pumps, conns, subs, slotLock, tearing, told>>

\* The peer refuses the attach, or the session is not there to carry it.
NotAttached(p) ==
    /\ pub[p] = "attaching"
    /\ PeerRefuses \/ session = "ended" \/ connection = "closed"
    /\ Unlock(p)
    /\ PubTo(p, "returned")
    /\ Tell(p, "Attach")
    /\ UNCHANGED <<closed, pumps, conns, subs, senders, link, slot, slotLock, uses,
                   tearing>>

\* SenderLink::with: the slot stays locked over the send, or is empty.
LockSlot(p) ==
    /\ pub[p] = "slot"
    /\ slotLock[uses[p]] = Nobody
    /\ IF uses[p] \in slot
       THEN /\ slotLock' = [slotLock EXCEPT ![uses[p]] = p]
            /\ PubTo(p, "sending")
            /\ UNCHANGED told
       ELSE /\ PubTo(p, "returned")
            /\ Tell(p, "NotConnected")
            /\ UNCHANGED slotLock
    /\ UNCHANGED <<closed, pumps, conns, subs, senders, mapLock, sessionLock, link,
                   slot, uses, tearing>>

\* The send comes back: accepted, refused, or cut off.
Sent(p, outcome) ==
    /\ pub[p] = "sending"
    /\ outcome = "ok" => session = "open" /\ connection = "open"
    /\ slotLock' = [slotLock EXCEPT ![uses[p]] = Nobody]
    /\ PubTo(p, "returned")
    /\ Tell(p, outcome)
    /\ UNCHANGED <<closed, pumps, conns, subs, senders, mapLock, sessionLock, link,
                   slot, uses, tearing>>

\* Mutant of CancelPublish: the link was taken out of its slot for the send, and
\* goes with the dropped future.
CancelLosesLink(p) ==
    /\ pub[p] \in {"lookup", "attach", "attaching", "slot", "sending"}
    /\ mapLock' = IF mapLock = p THEN Nobody ELSE mapLock
    /\ sessionLock' = IF sessionLock = p THEN Nobody ELSE sessionLock
    /\ slotLock' = [l \in Publishes |-> IF slotLock[l] = p THEN Nobody ELSE slotLock[l]]
    /\ slot' = IF pub[p] = "sending" THEN slot \ {uses[p]} ELSE slot
    /\ PubTo(p, "returned")
    /\ Tell(p, "Cancelled")
    /\ UNCHANGED <<closed, pumps, conns, subs, senders, link, uses, tearing>>

\* The caller drops the publish where it waits, which frees what it locked; a
\* link half attached goes with the dropped future.
CancelPublish(p) ==
    /\ pub[p] \in {"lookup", "attach", "attaching", "slot", "sending"}
    /\ mapLock' = IF mapLock = p THEN Nobody ELSE mapLock
    /\ sessionLock' = IF sessionLock = p THEN Nobody ELSE sessionLock
    /\ slotLock' = [l \in Publishes |-> IF slotLock[l] = p THEN Nobody ELSE slotLock[l]]
    /\ PubTo(p, "returned")
    /\ Tell(p, "Cancelled")
    /\ UNCHANGED <<closed, pumps, conns, subs, senders, link, slot, uses, tearing>>

-----------------------------------------------------------------------------
(***************************************************************************)
(* Shutting down, inwards.                                                 *)
(***************************************************************************)

DownTo(h, step) == down' = [down EXCEPT ![h] = step]

\* The first failure told is the innermost.
Report(h, failure) ==
    told' = [told EXCEPT ![h] = IF @ = "nothing" THEN failure ELSE @]

\* shutdown: nothing opens from here on.
Close(h) ==
    /\ down[h] = "new"
    /\ closed' = TRUE
    /\ DownTo(h, "take")
    /\ UNCHANGED <<pumps, conns, subs, links, publishing, todo, taken, told>>

\* Mutant of TakeRunning: the sender of the guards is used, not taken.
TakeRunningCopy(h) ==
    /\ down[h] = "take"
    /\ DownTo(h, "signal")
    /\ UNCHANGED <<closed, pumps, conns, subs, links, publishing, todo, taken, told>>

\* stop_all: no guard from here on.
TakeRunning(h) ==
    /\ down[h] = "take"
    /\ running' = FALSE
    /\ DownTo(h, "signal")
    /\ UNCHANGED <<closed, stop, guards, conns, subs, links, publishing, todo, taken,
                   told>>

Signal(h) ==
    /\ down[h] = "signal"
    /\ stop' = TRUE
    /\ DownTo(h, "wait")
    /\ UNCHANGED <<closed, running, guards, conns, subs, links, publishing, todo,
                   taken, told>>

\* Mutant of Wait: the signal is not followed by a wait.
WaitForNobody(h) ==
    /\ down[h] = "wait"
    /\ DownTo(h, "drain")
    /\ UNCHANGED <<closed, pumps, conns, subs, links, publishing, todo, taken, told>>

\* ended.recv() returns once the last guard is dropped.
Wait(h) ==
    /\ down[h] = "wait"
    /\ guards = {} /\ ~running
    /\ DownTo(h, "drain")
    /\ UNCHANGED <<closed, pumps, conns, subs, links, publishing, todo, taken, told>>

\* close_senders empties the map.
Drain(h) ==
    /\ down[h] = "drain"
    /\ mapLock = Nobody
    /\ todo' = [todo EXCEPT ![h] = {senders[a] : a \in Addresses} \ {Nobody}]
    /\ senders' = [a \in Addresses |-> Nobody]
    /\ DownTo(h, "close")
    /\ UNCHANGED <<closed, pumps, conns, subs, mapLock, sessionLock, link, slot,
                   slotLock, publishing, taken, told>>

\* SenderLink::close takes the link out of its slot, waiting for a send.
TakeSlot(h) ==
    /\ down[h] = "close"
    /\ \E l \in todo[h] :
        /\ slotLock[l] = Nobody
        /\ slot' = slot \ {l}
        /\ todo' = [todo EXCEPT ![h] = @ \ {l}]
        /\ taken' = [taken EXCEPT ![h] = l]
    /\ DownTo(h, "detach")
    /\ UNCHANGED <<closed, pumps, conns, subs, senders, mapLock, sessionLock, link,
                   slotLock, publishing, told>>

\* The peer answers the link's close, or the close fails.
Detached(h) ==
    /\ down[h] = "detach"
    /\ link' = [link EXCEPT ![taken[h]] = "closed"]
    /\ taken' = [taken EXCEPT ![h] = Nobody]
    /\ \/ session = "open" /\ connection = "open" /\ UNCHANGED told
       \/ Report(h, "Detach")
    /\ DownTo(h, "close")
    /\ UNCHANGED <<closed, pumps, conns, subs, senders, mapLock, sessionLock, slot,
                   slotLock, publishing, todo>>

\* Mutant of SendersClosed: the first link closed ends close_senders.
SomeSenderClosed(h) ==
    /\ down[h] = "close"
    /\ DownTo(h, "end")
    /\ UNCHANGED <<closed, pumps, conns, subs, links, publishing, todo, taken, told>>

\* close_senders found nothing more to close.
SendersClosed(h) ==
    /\ down[h] = "close"
    /\ todo[h] = {}
    /\ DownTo(h, "end")
    /\ UNCHANGED <<closed, pumps, conns, subs, links, publishing, todo, taken, told>>

\* Mutant of EndSession: the end is sent and its answer not awaited.
EndSessionUnanswered(h) ==
    /\ down[h] = "end"
    /\ sessionLock = Nobody
    /\ session' = "ending"
    /\ DownTo(h, "hangup")
    /\ UNCHANGED <<closed, pumps, connection, subs, links, publishing, todo, taken,
                   told>>

\* The publishers' session ends, under its lock.
EndSession(h) ==
    /\ down[h] = "end"
    /\ sessionLock = Nobody
    /\ session' = "ended"
    /\ \/ session = "open" /\ connection = "open" /\ UNCHANGED told
       \/ Report(h, "Session")
    /\ DownTo(h, "hangup")
    /\ UNCHANGED <<closed, pumps, connection, subs, links, publishing, todo, taken>>

\* close_connection: the innermost layer's outcome is what shutdown reports.
CloseConnection(h) ==
    /\ down[h] = "hangup"
    /\ connection' = "closed"
    /\ \/ connection = "open" /\ Report(h, "ok")
       \/ Report(h, "Connect")
    /\ DownTo(h, "returned")
    /\ UNCHANGED <<closed, pumps, session, subs, links, publishing, todo, taken>>

-----------------------------------------------------------------------------

SubStep(s) ==
    \/ Open(s) \/ Guard(s) \/ Begin(s) \/ Attach(s) \/ AttachRefused(s)
    \/ QueuedEnd(s) \/ PumpEnds(s) \/ Release(s)

PubStep(p) ==
    \/ Publish(p) \/ Lookup(p) \/ LockSession(p) \/ Attached(p) \/ NotAttached(p)
    \/ LockSlot(p) \/ Sent(p, "ok") \/ Sent(p, "Publish")

DownStep(h) ==
    \/ TakeRunning(h) \/ Signal(h) \/ Wait(h) \/ Drain(h) \/ TakeSlot(h)
    \/ Detached(h) \/ SendersClosed(h) \/ EndSession(h) \/ CloseConnection(h)

Next ==
    \/ \E s \in Subscriptions : SubStep(s)
    \/ \E p \in Publishes : PubStep(p) \/ CancelPublish(p)
    \/ \E h \in Shutdowns : Close(h) \/ DownStep(h)

Spec == Init /\ [][Next]_vars

\* Every task that can run does, the peer answers, and a pump ends once it is
\* told to.  Nobody has to subscribe, publish, cancel or shut down; tokio's
\* mutexes are queues, so a shutdown that waits for one gets it.
Fairness ==
    /\ \A s \in Subscriptions :
        /\ WF_vars(Guard(s) \/ Begin(s) \/ Attach(s) \/ QueuedEnd(s) \/ Release(s))
        /\ WF_vars(stop /\ PumpEnds(s))
    /\ \A p \in Publishes :
        WF_vars(pub[p] # "new" /\ PubStep(p))
    /\ \A h \in Shutdowns : WF_vars(DownStep(h))

FairSpec == Spec /\ Fairness

-----------------------------------------------------------------------------
(***************************************************************************)
(* What teardown promises.                                                 *)
(***************************************************************************)

\* The connection closes only after every subscription's session has ended
\* ("no subscription session is still ending"), a subscription that was being
\* opened on another handle meanwhile included; but for a session whose link the
\* peer refused, whose guard is dropped before its end is sent.
OnlyRefusedOutlives ==
    connection = "closed" =>
        \A s \in Subscriptions :
            subSession[s] \in {"none", "ended"} \/ sub[s] = "refused"

\* "Once shutdown has begun no session begins" past the ones whose guard was
\* out when it took the sender of the guards.
NoGuardAfterShutdown ==
    [][~running => guards' \subseteq guards]_vars

\* An address carries one link until the shutdown drains the map, however many
\* publishes race for it.
Drained == \E h \in Shutdowns : down[h] \in {"close", "detach", "end", "hangup", "returned"}
OneLinkPerAddress ==
    \A p, q \in Publishes :
        (link[p] = "attached" /\ link[q] = "attached" /\ AddressOf[p] = AddressOf[q])
            => p = q \/ Drained

\* A publish is told that the broker is not connected only once a shutdown has
\* begun: no race empties a slot before that.
NotConnectedMeansShutdown ==
    \A p \in Publishes : told[p] = "NotConnected" => closed

\* The links a shutdown found are all closed before the session that routes the
\* peer's answers ends ("Runs before the session ends, because the peer answers
\* each close with a detach the session still has to route").
FoundLinksCloseFirst ==
    session = "ended" =>
        \A h \in Shutdowns : todo[h] = {} /\ taken[h] = Nobody

\* It does so as long as one shutdown was called: a second one finds the map
\* empty and ends the session while the first still waits for its answers.
AloneClosesFound ==
    (\A g, h \in Shutdowns : down[g] # "new" /\ down[h] # "new" => g = h)
        => FoundLinksCloseFirst

\* Every link is closed before the session that carries it ends ("Shutdown
\* closes every link and waits for the peer's answer before it ends the
\* session carrying them").
LinksCloseFirst ==
    session = "ended" => \A p \in Publishes : link[p] # "attached"

\* A shutdown returns, whatever opens, publishes or is cancelled meanwhile.
ShutdownReturns ==
    \A h \in Shutdowns : (down[h] # "new") ~> (down[h] = "returned")

=============================================================================
