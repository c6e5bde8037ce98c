------------------------------- MODULE Router -------------------------------
(***************************************************************************)
(* One address of the in-process transport: the router's registry          *)
(* (in_process/router.rs), the subscriptions' streams and settlements      *)
(* (in_process/deliveries.rs) and the shutdown of the bus                  *)
(* (in_process/bus.rs).                                                    *)
(*                                                                         *)
(* A step under the router's lock is one action; detaching a subscription, *)
(* settling a delivery and closing the bus take several, which interleave. *)
(* The check of the bus's own flag before a publish or a subscribe is left *)
(* out: the lock repeats it, and what it saw may be stale by then.         *)
(***************************************************************************)
EXTENDS Naturals, FiniteSets, Sequences

CONSTANTS
    Messages,       \* what is published to the address, each once
    Queues,         \* the ids of the subscriptions with a queue terminus (anycast)
    Topics,         \* and of those with a topic terminus (multicast)
    EitherMode,     \* those that may settle on receipt, as registered
    TurnWidth,      \* where the turn counter wraps
    Threads         \* how many settlements may be running at once

CONSTANTS NoQueue, Shared

Subscriptions == Queues \cup Topics

\* A message and the copy of it that travels: the one the queues share, or
\* the one made for a topic subscription.  The code's delivery does not say
\* which copy it is.
Delivery == [msg : Messages, copy : Topics \cup {Shared}]

\* Subscriptions are numbered before they take the router's lock, so they may
\* register in another order than that of their ids.
ASSUME RouterAssumption ==
    /\ Subscriptions \subseteq Nat
    /\ IsFiniteSet(Subscriptions)
    /\ Queues \cap Topics = {}
    /\ EitherMode \subseteq Subscriptions
    /\ TurnWidth \in Nat \ {0}
    /\ Threads \in Nat \ {0}
    /\ NoQueue \notin Seq(Delivery)
    /\ Shared \notin Topics

Copy(m, c) == [msg |-> m, copy |-> c]

VARIABLES
    atMostOnce,     \* the subscriptions that settle on receipt
    bus,            \* "open"; "closing": only the bus's flag is set; "closed"
    subscriptions,  \* the registry: the ids that are attached
    receiver,       \* the receiving end of each subscription's channel
    channel,        \* what was sent to it and not read
    pending,        \* what a detaching subscription took out of its channel
    queue,          \* the address's queue, or NoQueue
    outstanding,    \* what each subscription's consumer dropped unsettled
    turn,           \* the competing consumers' turn
    log,            \* the messages published
    held,           \* the deliveries consumers hold, and how far each settled
    leaving,        \* settlements over, their count not released yet
    flight,         \* the harness's in-flight count
    orderly,        \* every consumer settles what it holds before it detaches
    owed            \* history: deliveries a consumer is still to get and settle

routes == <<subscriptions, channel, queue, turn, flight>>
given == <<atMostOnce, orderly>>
history == <<given, owed>>
vars == <<bus, routes, receiver, pending, outstanding, log, held, leaving,
          history>>

Held == [sub : Subscriptions, delivery : Delivery, stage : {"held", "returning"}]

TypeOK ==
    /\ atMostOnce \subseteq EitherMode
    /\ bus \in {"open", "closing", "closed"}
    /\ subscriptions \subseteq Subscriptions
    /\ receiver \in [Subscriptions -> {"none", "open", "closed", "gone"}]
    /\ channel \in [Subscriptions -> Seq(Delivery)]
    /\ pending \in [Subscriptions -> Seq(Delivery)]
    /\ outstanding \in [Subscriptions -> Seq(Delivery)]
    /\ queue \in Seq(Delivery) \cup {NoQueue}
    /\ turn \in 0 .. TurnWidth - 1
    /\ log \subseteq Messages
    /\ held \subseteq Held
    /\ leaving \in 0 .. Threads
    /\ flight \in Nat
    /\ orderly \in BOOLEAN
    /\ owed \subseteq Delivery

Init ==
    /\ atMostOnce \in SUBSET EitherMode
    /\ bus = "open"
    /\ subscriptions = {}
    /\ receiver = [s \in Subscriptions |-> "none"]
    /\ channel = [s \in Subscriptions |-> <<>>]
    /\ pending = [s \in Subscriptions |-> <<>>]
    /\ queue = NoQueue
    /\ outstanding = [s \in Subscriptions |-> <<>>]
    /\ turn = 0
    /\ log = {}
    /\ held = {}
    /\ leaving = 0
    /\ flight = 0
    /\ orderly \in BOOLEAN
    /\ owed = {}

-----------------------------------------------------------------------------
(* Routing.  The helpers map a record of the registry to the next one.     *)

Routes == [subs |-> subscriptions, channel |-> channel, queue |-> queue,
           turn |-> turn, flight |-> flight]

Commit(r) ==
    /\ subscriptions' = r.subs
    /\ channel' = r.channel
    /\ queue' = r.queue
    /\ turn' = r.turn
    /\ flight' = r.flight

Takes(s) == receiver[s] = "open"

\* Mutant of Send: a refused send stays counted.
SendCountsRefused(r, s, d) ==
    IF Takes(s)
    THEN [r EXCEPT !.channel[s] = Append(@, d), !.flight = @ + 1]
    ELSE [r EXCEPT !.flight = @ + 1]

\* A send to a receiver that was closed is refused, and uncounted again.
Send(r, s, d) ==
    IF Takes(s)
    THEN [r EXCEPT !.channel[s] = Append(@, d), !.flight = @ + 1]
    ELSE r

Keep(r, d) ==
    IF r.queue = NoQueue THEN r ELSE [r EXCEPT !.queue = Append(@, d)]

Competing(r) == r.subs \cap Queues

\* A consumer's index among the competing ones, which are sorted by id.
Rank(s, consumers) == Cardinality({q \in consumers : q < s})

\* The sends that are tried, from the consumer whose turn it is on.
Tries(r) ==
    LET n == Cardinality(Competing(r))
    IN {t \in [offset : 0 .. n - 1, sub : Competing(r)] :
            Rank(t.sub, Competing(r)) = ((r.turn + t.offset) % TurnWidth) % n}

FirstOf(tries) ==
    (CHOOSE t \in tries : \A u \in tries : t.offset <= u.offset).sub

Turned(r) == [r EXCEPT !.turn = (@ + 1) % TurnWidth]

\* Mutant of HandToOne: the send to the consumer whose turn it is is not
\* followed by the others when it fails.
HandToFirst(r, d) ==
    IF Competing(r) = {} THEN Keep(r, d)
    ELSE Send(Turned(r), FirstOf(Tries(r)), d)

\* Mutant of HandToOne: the turn is advanced before it is read.
HandToNext(r, d) ==
    LET taking == {t \in Tries(Turned(r)) : Takes(t.sub)}
    IN IF Competing(r) = {} THEN Keep(r, d)
       ELSE IF taking = {} THEN Keep(Turned(r), d)
       ELSE Send(Turned(r), FirstOf(taking), d)

HandToOne(r, d) ==
    LET taking == {t \in Tries(r) : Takes(t.sub)}
    IN IF Competing(r) = {} THEN Keep(r, d)
       ELSE IF taking = {} THEN Keep(Turned(r), d)
       ELSE Send(Turned(r), FirstOf(taking), d)

\* One after the other, as the rotation moves on with each.
HandEach(r, ds) ==
    LET handed[n \in 0 .. Len(ds)] ==
            IF n = 0 THEN r ELSE HandToOne(handed[n - 1], ds[n])
    IN handed[Len(ds)]

\* Whom the next message reaches.
Recipients ==
    LET competing == Competing(Routes)
    IN (subscriptions \cap Topics)
          \cup {s \in competing : Rank(s, competing) = turn % Cardinality(competing)}

\* How many termini of the address compete, and how many get copies.
Termini ==
    [anycast |-> Cardinality(Competing(Routes)),
     multicast |-> Cardinality(subscriptions \cap Topics)]

\* How many of the app's subscriptions of the address the harness is told of.
\* Where some have detached it is told of the first ones, so many as the
\* message reaches.
NamedCount ==
    LET opened == Cardinality({s \in Subscriptions : receiver[s] # "none"})
        reached == Termini.multicast + (IF Termini.anycast = 0 THEN 0 ELSE 1)
    IN IF Cardinality(subscriptions) = opened THEN Cardinality(Recipients)
       ELSE IF reached < opened THEN reached ELSE opened

-----------------------------------------------------------------------------
(* Subscribing, publishing and reading.                                    *)

Attached(s) == s \in subscriptions

\* Mutant of Subscribe: the shutdown is looked for before the lock only.
SubscribeLate(s) ==
    /\ receiver[s] = "none"
    /\ receiver' = [receiver EXCEPT ![s] = "open"]
    /\ subscriptions' = subscriptions \cup {s}
    /\ IF s \in Queues
       THEN LET stored == IF queue = NoQueue THEN <<>> ELSE queue
            IN /\ channel' = [channel EXCEPT ![s] = stored]
               /\ flight' = flight + Len(stored)
               /\ queue' = <<>>
       ELSE UNCHANGED <<channel, flight, queue>>
    /\ UNCHANGED <<bus, pending, outstanding, turn, log, held, leaving, history>>

\* A new queue subscription takes over what the queue holds.
Subscribe(s) ==
    /\ bus # "closed"
    /\ receiver[s] = "none"
    /\ receiver' = [receiver EXCEPT ![s] = "open"]
    /\ subscriptions' = subscriptions \cup {s}
    /\ IF s \in Queues
       THEN LET stored == IF queue = NoQueue THEN <<>> ELSE queue
            IN /\ channel' = [channel EXCEPT ![s] = stored]
               /\ flight' = flight + Len(stored)
               /\ queue' = <<>>
       ELSE UNCHANGED <<channel, flight, queue>>
    /\ UNCHANGED <<bus, pending, outstanding, turn, log, held, leaving, history>>

\* The copies of a message are sent in no particular order.
SendCopies(r, m) ==
    LET taking == {t \in r.subs \cap Topics : Takes(t)}
    IN [r EXCEPT !.channel = [s \in Subscriptions |->
                     IF s \in taking THEN Append(@[s], Copy(m, s)) ELSE @[s]],
                 !.flight = @ + Cardinality(taking)]

\* A copy to every topic subscription, and the message to one queue consumer.
PublishOne(m) ==
    HandToOne(SendCopies(Routes, m), Copy(m, Shared))

\* What a publish owes, while nothing has begun to shut down: the shared copy
\* where the address has a queue, and a copy to each topic subscription.
Debt(m) ==
    IF bus # "open" THEN {}
    ELSE {Copy(m, t) : t \in {u \in Topics : Attached(u) /\ Takes(u)}}
            \cup (IF queue = NoQueue THEN {} ELSE {Copy(m, Shared)})

Publish(m) ==
    /\ bus # "closed"
    /\ m \notin log
    /\ log' = log \cup {m}
    /\ Commit(PublishOne(m))
    /\ owed' = owed \cup Debt(m)
    /\ UNCHANGED <<bus, receiver, pending, outstanding, held, leaving, given>>

\* The stream yields what the channel holds; it ends once its sender is gone.
Receive(s) ==
    /\ receiver[s] = "open"
    /\ channel[s] # <<>>
    /\ channel' = [channel EXCEPT ![s] = Tail(@)]
    /\ held' = held \cup {[sub |-> s, delivery |-> Head(channel[s]), stage |-> "held"]}
    /\ UNCHANGED <<bus, subscriptions, queue, turn, flight, receiver, pending,
                   outstanding, log, leaving, history>>

-----------------------------------------------------------------------------
(* Settling.                                                               *)

Running == leaving + Cardinality({h \in held : h.stage = "returning"})

Over(h) ==
    /\ held' = held \ {h}
    /\ leaving' = leaving + 1

\* Accepted or rejected, or refused because the bus was closed: either way the
\* delivery is gone.  So it is when an at-most-once delivery is let go of.
Settle(h) ==
    /\ h.stage = "held"
    /\ Running < Threads
    /\ Over(h)
    /\ owed' = owed \ {h.delivery}
    /\ UNCHANGED <<bus, routes, receiver, pending, outstanding, log, given>>

\* A release passed the check of the bus's flag.
BeginReturn(h) ==
    /\ h.stage = "held"
    /\ h.sub \notin atMostOnce
    /\ Running < Threads
    /\ bus = "open"
    /\ held' = (held \ {h}) \cup {[h EXCEPT !.stage = "returning"]}
    /\ UNCHANGED <<bus, routes, receiver, pending, outstanding, log, leaving, history>>

\* Mutant of Requeue: the origin is not taken, so the drop finds it again.
RequeueUntaken(h) ==
    /\ h.stage = "returning"
    /\ held' = (held \ {h}) \cup {[h EXCEPT !.stage = "held"]}
    /\ IF bus = "closed" THEN UNCHANGED routes
       ELSE IF Attached(h.sub) THEN Commit(Send(Routes, h.sub, h.delivery))
       ELSE Commit(HandToOne(Routes, h.delivery))
    /\ UNCHANGED <<bus, receiver, pending, outstanding, log, leaving, history>>

\* The router takes it back, whatever became of the send, or refuses.
Requeue(h) ==
    /\ h.stage = "returning"
    /\ Over(h)
    /\ IF bus = "closed" THEN UNCHANGED routes
       ELSE IF Attached(h.sub) THEN Commit(Send(Routes, h.sub, h.delivery))
       ELSE Commit(HandToOne(Routes, h.delivery))
    /\ UNCHANGED <<bus, receiver, pending, outstanding, log, history>>

\* A delivery dropped without a settlement.
Release(h) ==
    /\ h.stage = "held"
    /\ h.sub \notin atMostOnce
    /\ Running < Threads
    /\ Over(h)
    /\ IF bus = "closed" THEN UNCHANGED <<routes, outstanding>>
       ELSE IF Attached(h.sub)
       THEN /\ outstanding' = [outstanding EXCEPT ![h.sub] = Append(@, h.delivery)]
            /\ UNCHANGED routes
       ELSE /\ Commit(HandToOne(Routes, h.delivery))
            /\ UNCHANGED outstanding
    /\ UNCHANGED <<bus, receiver, pending, log, history>>

\* The settlement's drop ends with its place in the in-flight count.
Consumed ==
    /\ leaving > 0
    /\ leaving' = leaving - 1
    /\ flight' = flight - 1
    /\ UNCHANGED <<bus, subscriptions, channel, queue, turn, receiver, pending,
                   outstanding, log, held, history>>

-----------------------------------------------------------------------------
(* Detaching: close the receiver, empty it, leave the registry.            *)

CloseReceiver(s) ==
    /\ receiver[s] = "open"
    /\ orderly => \A h \in held : h.sub # s
    /\ receiver' = [receiver EXCEPT ![s] = "closed"]
    /\ UNCHANGED <<bus, routes, pending, outstanding, log, held, leaving, history>>

Drain(s) ==
    /\ receiver[s] = "closed"
    /\ channel[s] # <<>>
    /\ channel' = [channel EXCEPT ![s] = Tail(@)]
    /\ flight' = flight - 1
    /\ pending' = IF s \in atMostOnce THEN pending
                  ELSE [pending EXCEPT ![s] = Append(@, Head(channel[s]))]
    /\ owed' = IF s \in atMostOnce THEN owed \ {Head(channel[s])} ELSE owed
    /\ UNCHANGED <<bus, subscriptions, queue, turn, receiver, outstanding, log,
                   held, leaving, given>>

\* The queue goes once it is empty with no consumer left.
LeaveQueue(r) ==
    IF r.queue = <<>> /\ Competing(r) = {} THEN [r EXCEPT !.queue = NoQueue] ELSE r

\* Mutant of HandsBack: a topic subscription's copies go to the queue too.
HandsBackAny(s) == outstanding[s] \o pending[s]

\* A queue subscription hands back what was dropped and what was never read; a
\* topic subscription's copies go with it.
HandsBack(s) == IF s \in Queues THEN outstanding[s] \o pending[s] ELSE <<>>

Unsubscribe(s) ==
    /\ receiver[s] = "closed"
    /\ channel[s] = <<>>
    /\ receiver' = [receiver EXCEPT ![s] = "gone"]
    /\ pending' = [pending EXCEPT ![s] = <<>>]
    /\ IF Attached(s)
       THEN LET rest == [Routes EXCEPT !.subs = @ \ {s}]
            IN /\ Commit(LeaveQueue(HandEach(rest, HandsBack(s))))
               /\ outstanding' = [outstanding EXCEPT ![s] = <<>>]
       ELSE UNCHANGED <<routes, outstanding>>
    /\ owed' = {d \in owed : d.copy # s}
    /\ UNCHANGED <<bus, log, held, leaving, given>>

-----------------------------------------------------------------------------
(* Shutdown: the bus's flag first, then the router under its lock.  What    *)
(* was owed is owed no more once it has begun.                             *)

BeginClose ==
    /\ bus = "open"
    /\ bus' = "closing"
    /\ owed' = {}
    /\ UNCHANGED <<routes, receiver, pending, outstanding, log, held, leaving, given>>

Close ==
    /\ bus = "closing"
    /\ bus' = "closed"
    /\ subscriptions' = {}
    /\ turn' = 0
    /\ queue' = NoQueue
    /\ outstanding' = [s \in Subscriptions |-> <<>>]
    /\ UNCHANGED <<channel, flight, receiver, pending, log, held, leaving, history>>

Next ==
    \/ \E s \in Subscriptions :
          Subscribe(s) \/ Receive(s) \/ CloseReceiver(s) \/ Drain(s) \/ Unsubscribe(s)
    \/ \E m \in Messages : Publish(m)
    \/ \E h \in held : Settle(h) \/ BeginReturn(h) \/ Requeue(h) \/ Release(h)
    \/ Consumed \/ BeginClose \/ Close

Spec == Init /\ [][Next]_vars

-----------------------------------------------------------------------------
(* Properties.                                                             *)

\* Where a delivery may be stored: a subscription's channel, what was drained
\* from it or dropped by its consumer, and the address's queue.
Shelves == ({"channel", "pending", "outstanding"} \X Subscriptions) \cup {<<"queue", Shared>>}

On(shelf) ==
    CASE shelf[1] = "channel" -> channel[shelf[2]]
      [] shelf[1] = "pending" -> pending[shelf[2]]
      [] shelf[1] = "outstanding" -> outstanding[shelf[2]]
      [] OTHER -> IF queue = NoQueue THEN <<>> ELSE queue

Spots(shelf, d) == {[at |-> shelf, index |-> i] : i \in {j \in DOMAIN On(shelf) : On(shelf)[j] = d}}

\* The places a delivery is in: on a shelf, or with a consumer.
Places(d) == (UNION {Spots(p, d) : p \in Shelves}) \cup {h \in held : h.delivery = d}

\* No copy of a message is ever in two places, whatever detaches, is returned
\* or shuts down meanwhile: no consumer gets it again while another has it.
NeverDoubled == \A d \in Delivery : \A a, b \in Places(d) : a = b

\* When consumers settle what they hold before they detach, a delivery stays
\* somewhere until a consumer settles it: no detach, hand-over or release
\* loses one.
OrderlyKeepsAll == orderly => \A d \in owed : \E p \in Places(d) : Places(d) = {p}

\* The broker keeps a released message and hands it to a consumer that is
\* still attached (router.rs:274-276), and a delivery that comes back after its
\* subscription detached goes back at once (router.rs:217-218).
ReleasedIsKept == \A d \in owed : Places(d) # {}

\* Whether queue consumers have a delivery or are still to get it.
InQueues(d) ==
    \/ \E p \in Shelves : p[2] \in Queues \cup {Shared} /\ \E i \in DOMAIN On(p) : On(p)[i] = d
    \/ \E h \in held : h.sub \in Queues /\ h.delivery = d

\* The queue consumers of an address get one delivery of each message
\* (in_process/mod.rs:14-15, "competing consumers, one delivery each"): a topic
\* subscription's copy never comes to them.
OneDeliveryEach == \A d \in Delivery : InQueues(d) => d.copy = Shared

\* They do where consumers settle what they hold before they detach; a topic
\* subscription's copy that is let go of after it detached reaches a queue.
OrderlyOneDeliveryEach == orderly => OneDeliveryEach

\* The positions of the subscriptions' channels.
Sent(channels) == UNION {{<<s, i>> : i \in DOMAIN channels[s]} : s \in Subscriptions}

\* The harness's count is every delivery sent and not settled, dropped or
\* drained: when it reads zero nothing is with a consumer, and it comes back to
\* zero.
FlightCounts ==
    flight = Cardinality(Sent(channel)) + Cardinality(held) + leaving

\* A router that was closed registers nobody and stores nothing again, so
\* every stream ends.
ClosedStaysEmpty ==
    bus = "closed" =>
        /\ subscriptions = {}
        /\ queue = NoQueue
        /\ \A s \in Subscriptions : outstanding[s] = <<>>

\* A publish reaches exactly the subscriptions the router names for it just
\* before, and as many as the harness is told of and waits on, while nobody is
\* detaching.
ForecastHolds ==
    [][ log' # log /\ (\A s \in Subscriptions : Attached(s) => Takes(s))
        => LET reached == {s \in Subscriptions : channel'[s] # channel[s]}
           IN reached = Recipients /\ Cardinality(reached) = NamedCount ]_vars

=============================================================================
