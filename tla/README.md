# Specifications of ruststream-amqp

TLA+ specifications of `crates/ruststream-amqp`, the AMQP 1.0 broker of the
ruststream messaging framework. The crate wraps the `fe2o3-amqp` client: a
subscription is a task that owns a link, a message handle settles by sending that
task a command, publishers share sender links, and shutdown takes the connection
apart from the inside out. Under the `testing` feature an in-process transport takes
the place of the connection. Its examples are services: handlers mounted on
addresses, with retries, dead letters, requests and transactions. Paths below are
relative to `crates/ruststream-amqp/src` unless they begin otherwise.

Every module is written from the code; its comments name the functions, and
`PROJECT.json` ("map") gives the lines of every definition.

## 1. The system

### Components

| Component | Source | State it keeps | Operations | Specified by |
|---|---|---|---|---|
| Settle line | `settle.rs` | idle answer slots, counters `made` and `waiting`, a `Notify`, the command channel | `settle` and the drop of its future, `take_slot`, `wake_one`, the pump's reply or its end | `SettleLine`, `SettlePromise` |
| Subscription pump | `subscriber.rs`, `message.rs` | the link, at most one pending delivery, the bounded delivery channel, the command channel | receive, reject, deliver, apply a command, stop, drain, detach, end; the subscriber's poll and drop | `Pump` |
| Connection, subscriptions, teardown | `broker.rs` | `closed`, the guards of running pumps and the stop signal, the session, the map of sender links and the slot of each | open a subscription, attach and share a link, publish, shut down | `Teardown` |
| Publisher | `publisher.rs` | none of its own | `publish`, `request` | `Teardown`, `RequestReply` |
| Request and reply | `publisher.rs`, `in_process/request.rs` | a reply link and a correlation id for each call | attach, send, wait with a timeout, detach | `RequestReply` |
| Transactional publisher | `txn.rs`, `txn/owned.rs`, `in_process/txn.rs` | a slot with at most one open transaction; owned transactions | publish, begin, commit, abort; open, post to, settle and drop an owned transaction | `Transactions`, `AtomicPosting` |
| In-process transport | `in_process/{router,bus,deliveries,mod}.rs` | the registry, each subscription's channel, the address's queue, the outstanding deliveries, the turn, the in-flight count | subscribe, publish, receive, settle, drop, detach, close | `Router`; the URL's check in `Connect`, framing in `Messages`, `publish_all` in `Transactions` |
| Connect cell | `broker.rs` 562-687 | a cell set once, read by publishers handed out early | `connect`, `connect_in_process`, their drop, `shutdown` | `Connect` |
| SASL and TLS settings | `config.rs`, `tls/` | settings | choose a profile, refuse settings, open a stream, log in | `Connect` |
| Header mapping | `message.rs`, `context.rs`, `publish_step.rs` | none: conversions | build and read a message, choose a correlation id | `Messages` |
| Address descriptors | `address.rs` | none | builders | `Mounts`, `Services` (partly) |
| Services | `examples/manual/` | what handlers keep (one gateway) | handlers, mounts, posts, requests, transactions | `Mounts`, `Services` |
| Errors, bindings, prelude | `error.rs`, `bindings.rs`, ... | none | | not modelled |

### How they interact

```
 handler --settle--> [settle line] --command--> [pump] --disposition--> peer
    ^                     ^                      |  ^
    |  delivery channel   '------answer slot-----'  | link, credit
    '--------------------------------------------- |
                                                    |
 broker clones --connect--> cell --> connection     |
               --open--> guard, session, pump ------'
               --publish, request--> sender map -> link slot -> session
               --shutdown--> closed; stop pumps, wait for guards; close links;
                             end session; close connection
```

- A handle and its pump share an `Arc` slot. The handle puts a command into the
  channel and waits on the slot; dropping the future leaves a command behind that
  still names the slot.
- A pump holds a guard (`Pumps::guard`), which is a sender of a channel;
  `stop_all` waits until the last one is dropped.
- Clones of a broker share one cell, filled once, and then one `AmqpCore`. Nothing
  serialises a subscribe, a publish and two shutdowns on different clones.
- In process, the router's lock serialises routing, but detaching a subscription,
  settling a delivery and closing the bus take several steps each.
- A service sees all this as outcomes: the runtime turns a handler's result into a
  disposition, a copy with a delay or a dead letter.

### What is hard about it

- *Interleavings*: the second look at the slots against a concurrent release
  (`settle.rs` 139-195); a subscription opening while a shutdown waits for pumps
  (`broker.rs` 183-265); a consumer detaching while messages are sent to it
  (`deliveries.rs` 46-64); publishes, a commit and a begin sharing the slot of one
  transactional handle, its mutex held over a post and a declare (`txn.rs` 201-290);
  `connect` and `connect_in_process` of two clones (`broker.rs` 566-687).
- *Dropped futures*: wherever `settle`, `publish`, `request`, `connect`,
  `begin_transaction` or `commit` awaits, its caller may go away: slots, links, locks,
  sockets and transactions must come back.
- *Biased selects*: what the pump hears while it waits for room in a channel
  decides whether settlements and shutdown get through (`subscriber.rs` 222-344).
- *Ordering*: sessions before the connection, links before the session, the detach
  after the last handle.
- *Partial failure*: the pump stops with unread commands; the peer refuses a link;
  a release fails halfway; a request times out with replies queued; a commit's answer
  is lost.
- *Counting twice*: the attempts of a message are counted by the broker and in a
  header of the runtime's copies, and a copy starts the broker's count over.

`PROJECT.json` ("hazards") lists these at their lines, with the property that
answers each one.

### What makes each component correct

- Settle line: no more slots than credit; a slot the pump may still write into
  serves nobody else; a settlement is told the truth about its own delivery; no
  sleeper is forgotten; every settlement returns.
- Pump: deliveries reach handlers in the order of the link and none is lost on the
  way; acknowledgements come back whether or not the stream is polled; the link goes
  after the last handle; stop and drop end the task.
- Teardown: one link per address; a closed connection has no session left; links
  close while their session still routes the answers; shutdown returns; "not
  connected" is only said of a connection that is.
- Requests: a request gets a reply to itself; it returns; it leaves no link, turn or
  count behind.
- Transactional publisher: a transaction's messages appear together or never; a publish
  between begin and commit is in the transaction; a begun transaction is not lost; no
  post is under way while its transaction is discharged; a transaction nobody can settle
  is rolled back; every call returns.
- Connect cell: one socket whatever races; logged in as asked; the transport that was
  asked for; a test and a service refuse the same settings; every connect returns.
- Messages: headers survive the two sections of a message; a reply carries its
  request's id in the type it was written in.
- In-process transport: a queue consumer gets each message once, a released message
  is kept, nothing is in two places, the in-flight count is exact, a publish reaches
  whom the router named, and a closed router stays empty.
- Services: a message is to be handled in one place until it ends, once, whatever is
  retried, delayed or dead-lettered, and only a crash takes it out of every hand; retries
  stay within their cap; what a handler posted agrees with how its message was
  settled; a service comes to rest.

## 2. The modules

### `SettlePromise` and `SettleLine`

`SettlePromise` is the abstract specification: which deliveries the client was given
a disposition for (`applied`), what each settlement was told (`result`), and whether
the pump still settles (`open`). There are no slots, channels or wake-ups in it. A
settlement is told its own answer after the disposition was given, or "stopped" only
if it never will be; a dropped one may still be applied.

`SettleLine` is the code. A settlement walks through `take_slot` one shared access
at a time: `Pop` (try_take), `Make` (the compare-and-swap on `made`), `Register`
(the `Notified` future), `Count` (`waiting`), a second `Pop` and `Make`, then asleep
until `Awake`. `Send` puts the command into the channel, `Recv` reads the answer,
`Push` frees the slot, `Wake` and `Notify` are `wake_one`. `CancelParked` and
`CancelRecv` are the dropped futures, which release what they
hold (`GiveUp`: the slot of a pending command is not used again). `PumpTakes`,
`PumpReplies` and `PumpStops` are the other end. All atomics involved are `SeqCst`, so
an interleaving of the steps is all there is; the `Notify` of tokio is modelled by
its documented list of waiters and single permit.

`KeepsPromise` is `SettlePromise` under the mapping `open <- pump = "serving"`.

### `Pump`

One subscription's pump with everything around it: the peer that transfers against
the credit, the bounded channel, the subscriber that polls with `Workers` handlers,
the handles, and the connection's stop signal. `pc` follows `pump` in
`subscriber.rs`: the main select, the select with a pending delivery, the wait for
room for an error (`deliver`), the drain, then detach, end, and the drop of the guard.
Because the selects are biased, an action's guard says that the branches before it
have nothing to do. `atMostOnce` is chosen in `Init`: such deliveries carry no handle.
The answer slots are not repeated here: a command goes straight into the channel, and
that abstraction is what `SettleLine` justifies; both implement `SettlePromise`.

### `Teardown`

One live connection used through clones. `sub` follows the opening of a subscription
(`ensure_open`, guard, session, receiver) and the end of its pump; `pub` follows
`sender_for` and the send through the link's slot, with the map, the session and the
slot as locks held across awaits; `down` follows `shutdown`: close, take the guards'
sender, signal, wait, drain the map, close each link, end the session, close the
connection. A publish can be cancelled wherever it waits. `PeerRefuses` says whether
the peer may refuse a session or a link.

### `Router`

One address of the in-process transport. A step under the router's lock is one
action; `CloseReceiver`, `Drain` and `Unsubscribe` are the drop of a subscription,
`BeginReturn` and `Requeue` a negative acknowledgement, `Release` the drop of an
unsettled delivery, `Consumed` the last step of each, `BeginClose` and `Close` the
shutdown of the bus. Subscriptions are numbers, as their ids are: the registry is a set
of them, and an id is taken before the lock, so that they may register in another order.
`HandToOne` is the rotation over the competing consumers sorted by id (`Tries` are its
sends, `FirstOf` the first whose receiver takes it). A delivery
in the model says which copy of its message it is (`copy`), which the code's does not:
that is how a copy is followed. `owed` is a history variable: the copies a consumer
is still to get and settle, as long as nothing has begun to shut down. `orderly` is
chosen in `Init`: in those behaviours consumers settle what they hold before they
detach.

### `AtomicPosting` and `Transactions`

`AtomicPosting` is the abstract specification: what became of each transaction (`fate`),
what is posted under it (`held`), what subscribers may see (`visible`), and what the
callers were told. A commit shows all of a transaction in one step, a message is posted
once, nobody is told what is not so, and no transaction is ended by two callers.

`Transactions` is the code, over either transport (`transport` is chosen in `Init`).
A transaction is named by the call that opens it. `at` says where each call
stands: a publish goes through `Publish` (the look at `closed`), `SenderFor`, `LockSlot`
and, under the slot's mutex (`lock`), the post, which `Posted` ends; with no transaction
open it drops the mutex and `Sent` ends the plain send. `Begin`, `LockBegin` and
`Declared` are `begin_transaction`, `Discharge`, `Take` and `Discharged` are `commit` and
`abort`. In process `Buffer`, `CheckLive` and `RouteAll` take the place of the answers.
`Transaction`, `OwnPublish`, `Settle`, `Drop` and `RolledBack` are the owned ones, which
need no lock because a value has one owner. `CancelPublish`, `CancelOpening` and
`CancelDischarge` drop a call where it waits: what it had sent may have had its effect,
and a transaction lost that way becomes an orphan that the client rolls back
(`OrphanEnds`, external). `within` is a history variable: the transaction a
publish must belong to, as long as nobody has called commit or abort.

`PostsAtomically` is `AtomicPosting` with the same variables.

### `RequestReply`

The requests of one publisher to one address, over either transport. Over a connection
a request attaches a reply link whose address the peer names (`AttachAnswered`), is
framed and sent through the shared sender link's slot (`Unsent`, `Send`, `Sent`), waits
for a reply that matches (`Receive`, `Matches`) and detaches (`Detach`). Until the session
ends it finds a sender link: the shared one, or, once the shutdown has drained the map, a
fresh one (`sender_for` does not look at `closed`), unless the peer refuses that or the
request holds a link the shutdown emptied. In process it subscribes, routes, waits and
unsubscribes. `Expire` is the timeout, which covers the
exchange but not the attach before it nor the detach after it; `Abandon` is the drop of
the call. `Answer` is a responder: late, twice, with the request's id or none, readable or
not. The peer may name an address again once no link holds it, so a late reply can reach
another request.

### `Connect`

The clones of one broker, each with its own SASL profile and TLS settings and all
with one URL, connecting into the shared cell. `pc` follows `connect` through the
cell's `get_or_try_init`: waiting for the turn, settings, socket, TLS, this crate's own
EXTERNAL login (`tls/open.rs`), the client's open, the session. Every step can be
refused by the peer (`Fails`) or be where the future is dropped (`Abandon`).
`ConnectInProcess` does not wait: a cell that is being filled is left alone and the
clone has a transport of its own. `Shutdown` closes a link and leaves the cell filled.
`logins` keeps every login made over a clone's socket, and whether TLS covered it.

### `Messages`

A header map and a typed correlation id become a message (`Build`), are read
(`HeadersOf`, `ReplyId`) and are answered with the transform `Correlate`
(`Correlation`), or a message of a foreign peer is. Values are byte strings, of which
only their being ASCII or UTF-8 counts; an id also has its AMQP type. Both transports
use these operators. The variables and the specification are named for the module
(`onWire`, `MessagesSpec`) because its proofs share a module with those of `RequestReply`.

### `Mounts` and `Services`

`Mounts` is the table of the services under `examples/manual`: what each subscribes to,
with which caps, dead letters, batches and workers, and what each handler does with a
message, as a plan: what it asks, what it posts, in a transaction or not, and the
outcome when all goes well or a step is refused. `Services` runs any one of them: inputs
arrive (`Produce`), workers take messages or batches (`Receive`), handlers ask, post,
commit or abort and settle (`Ask`, `Post`, `End`, `Settle`), each step may fail
(`TimeOut`, `OpenFails`, `PostFails`, `EndFails`), copies are published after their
delay (`Republish`), and the process may crash (`Crash`): the broker takes back what was
not settled and copies in memory are gone. A delivery that the runtime replaces by a copy
(`Copied`) it also rejects (`docs/components/settlement/retries.md` 17 and 20,
`retry-after.md` 14, `dead-letters.md` 15), so a broker that dead-letters rejected
deliveries keeps it beside the copy; `replaced` holds those deliveries. No service reads
them, and no property counts them as the message: `OnePlace` is about where the message is
still to be handled. The broker and the runtime's dispositions are
external (`ruststream` is a dependency), written from what the services and their tests
rely on. A message keeps its `origin` through redeliveries and copies.

How the rows of the table are put together is part of what makes them correct, and is
named: `WellMounted` says that a capped subscription, and one whose handler posts, has its
queue to itself (`Alone`); that a copy of a capped or delayed message comes back to its own
subscription and nowhere else (`ComesBack`), which a topic with a second subscriber or a
queue bound to the address would break; that a dead letter reaches one node, which nobody
reads under a cap (`DeadLettersArrive`), and comes with a cap (without one the dead-letter
address takes every retry, `docs/architecture/settlement.md` 102-103); that no handler
whose messages are settled on receipt puts one off or, under a cap, wants one again
(`MayDelay`, `MayRetry`), for which the runtime would publish a copy of a settled message
(75-76); and that a handler that posts takes its messages
one by one, uncapped, and settles them at the end. `ServicesAssumption` asks this of every
service on offer, and TLC evaluates it for each of those the repository ships. Services of
another make are outside the theorems.

### Model-checking modules

`MCPump`, `MCTeardown`, `MCRouter`, `MCTransactions`, `MCConnect`, `MCMessages` and
`MCServices` extend these with what TLC needs (symmetry sets, the function from
publishes to addresses, the URLs, header maps, the limits of each service). The
configurations give the constants; none replaces a definition.

## 3. The runs

| Run | Instance | Distinct states | What it shows |
|---|---|---|---|
| `settle_fair` | 3 settlements, credit 1 | 79 k | `SlotsWithinCredit`, `NoStrandedWaiter`, `EverySettlementReturns`, `KeepsPromise` (refinement) |
| `pump_fair` | 2 readable deliveries, 1 unreadable, 1 broken, credit 2, 2 workers | 120 k | `HandedOverInOrder`, `DetachedAfterLastHandle`, `KeepsPromise` (refinement), `OnlyErrorsHoldAcks`, `StopEndsPump`, `DropEndsPump` |
| `pump_wedge` | 1 readable, 3 unreadable, credit 2, 1 worker | violation | `AcksComeBack` |
| `teardown_fair` | 1 subscription, 2 publishes to one address, 2 shutdowns, refusals | 415 k | `OnlyRefusedOutlives`, `OneLinkPerAddress`, `NotConnectedMeansShutdown`, `AloneClosesFound`, `ShutdownReturns` |
| `teardown_late` | 1 publish, 1 shutdown | violation | `LinksCloseFirst` |
| `txn_fair` | 2 publishes, 2 transactions, 1 commit or abort, both transports, refusals | 823 k | `JoinsItsTransaction`, `BegunIsKept`, `EveryCallReturns`, `LooseOnesEnd`, `PostsAtomically` (refinement) |
| `router_safety` | 2 messages, 2 queue subscriptions, one of either mode, 1 topic subscription, 1 settlement at a time | 836 k | `NeverDoubled`, `OrderlyKeepsAll`, `OrderlyOneDeliveryEach`, `FlightCounts`, `ClosedStaysEmpty`, `ForecastHolds` |
| `router_kept` | the same, no subscription at most once, 2 settlements at once | violation | `ReleasedIsKept` |
| `request_fair` | 2 requests, 2 reply addresses, 2 replies, both transports | 238 k | `OwnReplyOnly`, `OverHoldsNothing`, `EveryRequestReturns` |
| `connect_fair` | 2 clones, 11 URLs, 3 profiles, 3 TLS settings | 55 k | `OneConnection`, `LoggedInAsAsked`, `ConnectedAsCalled`, `TestAgreesWithService`, `EveryConnectReturns` |
| `messages` | byte strings of 5 kinds, header maps over 5 names, foreign ids of 4 types | 24 k | `HeadersSurvive`, `ReplyCorrelates` |
| `services_fair` | each of 28 services alone, 1 or 2 inputs, a fault, a crash | 534 k | `OnePlace`, `AttemptsWithinCap`, `PostsMatchSettlement`, `ComesToRest` |

Deadlock is not checked: every one of these systems may come to rest, when all
calls were made and answered.

Runs of one module with safety and liveness on the same bounds are one run. Every
property of a passing run comes with a mutant: an altered definition next to the one it
alters ("Mutant of ..."), under which TLC finds the property violated. No specification
uses them.

### Bounds, and why they are enough

- *Settle line.* Three settlements for one slot give one in use and two asleep, or one
  asleep and one about to sleep or being cancelled, which is what a lost wake-up
  needs. Safety is proved for every number of settlements and any credit (section 5).
- *Pump.* With a credit of 2 the channel fills with one delivery left to be pending;
  two workers allow a settlement under way next to a handler; one delivery of each
  kind takes every branch of the receive. The order of what is handed over, the detach and
  the refinement are proved for any deliveries, credit and number of workers.
- *Teardown.* Of two publishes to one address one attaches while the other waits for
  the map, finds the link or is cancelled; the subscription is opening, open or
  refused when a shutdown comes; two shutdowns are one and its rival. The proofs cover
  any number of each.
- *Router.* Two queue consumers are the one that detaches and the one that takes
  over; two messages keep one in a channel and one in hand. `TurnWidth` stands for
  the width of the turn counter; 2 is a multiple of both numbers of consumers, so
  that its wrap, which 2^64 messages do not reach in practice, is not seen. `Threads`
  bounds how many settlements are between their first step and their last at once, and
  with it nacks that come back for ever; each holds the lock for its one step, and the
  detach of another subscription, publishes and the close still come between. All six
  properties are proved for any number of messages, subscriptions and settlements at once
  and any width, one that is no multiple of the number of consumers included.
- *Transactions.* Two publishes are one that holds the slot and one that finds it
  held; two transactions are the open one and the begin that must not overwrite it, or
  a borrowed one next to an owned one; a commit or abort takes one of them. Safety is
  proved for every number of each, rivals of one commit included.
- *Requests.* Two requests are an earlier one and the later one that gets its address
  or its reply; two replies are a good one and a foreign, doubled or unreadable one.
  `OwnReplyOnly` and `OverHoldsNothing` are proved for any number of each.
- *Connect.* Two clones are the one that fills the cell and the one that waits, finds it
  or connects in process meanwhile, with every scheme, host, userinfo, profile and TLS
  setting. With three, one may find what the second connected while the third is refused;
  that is in the proofs of all four safety properties, which hold for any number, and TLC
  went through it as well (774 k states under symmetry).
- *Messages.* A value is one of five byte strings, one for each thing the code tells
  apart; header maps range over every subset of five names. Both properties are proved for
  any byte strings, header maps, typed ids and foreign messages.
- *Services.* `MCServices` gives each service the inputs and faults that its
  interesting cases need: one input where messages multiply, no fault where the services
  behind it have them in a run of their own; two inputs elsewhere, so that batches and
  pairs of messages occur. `MaxRuns` follows twelve handler runs, more than twice the
  highest cap (5) and the run a crash adds. Random walks with three inputs, two faults, two
  crashes and twenty runs found nothing either, and the three safety properties are proved
  for any services that are `WellMounted` and any of these numbers.
- Each message, settlement, publish, request and subscription happens once: they are the
  model's names for calls, and the constants say how many calls there are.

### Fairness, and why the code justifies it

- *Settle line*: each step of a settlement that was called (`Advance`), except to be
  dropped; the pump takes and answers commands. The runtime polls a woken task. Nobody
  has to call, cancel or stop.
- *Pump*: the pump's own steps, and handlers that settle what they got and read the
  answer. Polling the stream is *not* fair, since that is what the documentation
  promises not to depend on. `PolledSpec`, used for the counterexample alone, adds a
  subscriber that polls whenever a worker is free: even then it stays stuck.
- *Teardown*: every task that can run does, the peer answers, a pump ends after the
  signal (`StopEndsPump` shows that it does), and tokio's mutexes are queues.
- *Transactions*: each step of a call under way, the rollback tasks, and the server, which
  answers. Nobody has to call, drop a call or shut down, and an owned transaction may
  stay open. Calls are finitely many, so that every call returns is stated as
  `<>[]` of none being under way.
- *Requests*: the peer answers the attach and the detach of the reply link, which the code
  waits for without a bound; the timer fires; an in-process request goes on. No
  disposition and no reply has to come.
- *Connect*: the peer answers each step of a connect, with a refusal if it likes, and
  the runtime polls it. Nobody has to connect, drop or shut down.
- *Services*: weak fairness of all work together (`Work`): deliveries, steps of handlers,
  timers of requests that nobody is left to answer, delayed copies. Which of two
  pieces of work goes first is not decided, since no property depends on it. Inputs,
  faults and crashes need not come, and are finitely many.
- *Router*, *Messages*: none; they have no liveness property.

## 4. Where the code departs from what it says

The first three are runs that TLC ends with a counterexample.

1. `pump_wedge`. `docs/architecture/lanes.md` 36-38 says that while a delivery waits for
   room "the pump keeps applying settlements, so a stream nobody polls cannot hold the
   acknowledgements of the deliveries already handed out". An error about a delivery
   waits in `deliver` for room in the channel, and no command is read meanwhile. If
   the only free worker is the handler waiting for its settlement, nothing moves
   again. `OnlyErrorsHoldAcks` shows that this is the only way to it.
2. `teardown_late`. A publish checks `closed` before `sender_for` but not after, so it
   can attach a link to an address once `close_senders` has drained the map; the
   session then ends with that link open.
3. `router_kept`. A delivery is held while the last queue consumer detaches. The queue is
   empty, so it goes; when the delivery is released or returned there is neither
   consumer nor queue, and it is dropped. A negative acknowledgement reports success.
   The same property has a second way to fail: `requeue` does not look at the result of
   its send (`router.rs` 292), so a delivery returned to a consumer between the close of
   its receiver (`deliveries.rs` 51) and its removal from the registry (63) is lost
   although other consumers are attached.

Others are exceptions that a property has to make, some of them against what the
documentation says; without the exception TLC refutes it or, in 4, what the
documentation says.

4. `LoggedInAsAsked` (`ExternalUncovered`): `docs/components/broker/security.md` 27 and
   `config.rs` 138-139 say that EXTERNAL on an `amqp` URL fails the connect. TLS settings on
   such a URL are refused; EXTERNAL without any is not, and the profile goes to the client
   (`broker.rs` 598-603). The login is then the client's and the peer's to refuse, both
   external here. With a peer that accepts it the clone is connected and logged in over a
   bare socket: that no clone with `ExternalUncovered` fills the cell is refuted by TLC
   with one clone.
5. `AloneClosesFound`: clones share a connection, and each may be shut down. `close_senders`
   empties the map before it closes the links, so a second shutdown finds none and ends the
   session while the first still waits for the answers to its closes, which
   `broker.rs` 139-141 says the session has to route. `FoundLinksCloseFirst`, which does
   not make the exception, is refuted by TLC with one publish and two shutdowns.
6. `OnlyRefusedOutlives`: when the peer refuses the receiver's link, `attach` returns
   and drops the guard with the session handle, whose drop only queues the end. Shutdown
   waits for guards, not for that, and may close the connection first.
7. `OrderlyOneDeliveryEach`: `release` and `requeue` hand back the delivery of a
   detached subscription without looking at its routing, as `unsubscribe` does: the copy
   of a topic subscription reaches the queue consumers, which had the message already.
8. `OverHoldsNothing`: an in-process request that is dropped while it waits leaves its
   subscription registered, and the replies that were queued for it in the in-flight count.
9. `ReplyCorrelates` (`Hidden`): `AmqpContext` takes a textual or binary correlation id
   from the header map, where an application property of the peer hides it
   (`context.rs` 54-55, `message.rs` 384-390), so the reply carries the property's bytes.
10. `TestAgreesWithService`: a test reads neither certificates nor the URL's userinfo,
    so it passes with settings that the service is refused for; and a clone that finds a
    connection in the cell has its own SASL and TLS settings neither read nor refused.
11. `ConnectedAsCalled`: an in-process connect that comes while another clone dials gets a
    transport of its own, which the cell will not hold.
12. `ForecastHolds`: `recipients` answers "whether the next message published to `address`
    reaches each subscription attached there" (`router.rs` 152). A subscription whose stream
    was dropped is closed (`deliveries.rs` 51) before it leaves the registry (63); between
    the two it is named, and the message goes to another or to the queue. The forecast is
    exact only while nobody is detaching.
13. `ComesToRest` (`Unpriced`): the handler of an order without a price retries it, and it
    is not mounted with a cap, so it asks for the price for ever.
14. `OnePlace`: a copy waits for its delay in memory, and a crash takes it with the process
    (`docs/components/settlement/retry-after.md` 19). Its original was rejected already, so
    the message is in no service's hands any more; a broker that dead-letters rejected
    deliveries has it (`Kept`, in `ServicesProofs`).

The in-process ones concern tests of services, not services: the transport is
there to stand in for a server. `OrderlyKeepsAll` and `OrderlyOneDeliveryEach` show
that consumers that settle what they hold before they detach meet neither.

Read, but about no state a module has: on a live connection, or once a consumer detached,
the names given for the next publish are the first positions of the address's
subscriptions whatever their kind (`broker.rs` 912-956), so that only their number is
right; `check_url` accepts userinfo that does not decode, which `connect` refuses; an
`amqps` URL with an IPv6 host fails only after the socket is open (`Establish`); a commit
after a shutdown fails with a transaction error over a connection and with `NotConnected`
in process.

## 5. What is proved

`tlapm` checks eight modules; every theorem holds for all values of the constants that
meet the named assumptions. Each has an inductive invariant, proved with one lemma per
action, because the properties are not inductive alone. Where a property needs more than
the refinement or the other properties do, a second invariant is proved on top of the
first (`Watching`, `Queueing`, `Held`, `BeforeShutdown`, `SettingsRead`).

Every safety property that a passing run checks is proved, each invariant and each action
property.

**`SettleLineProofs`** assumes that `Settlements` is finite, `Credit` is positive and
the null values are no settlements and differ. The inductive invariant `IInv` is a
conjunction of parts: what each step of a settlement implies (`Phases`); the counters
are true (`SlotCount`, `WaitingCount`: cardinalities, hence the finite sets); no two
settlements share a slot and no held one is idle (`SlotsApart`); an unmade slot is
nowhere (`UnmadeIsUnused`); each pending command is its settlement's only one and
its slot is its own or was given up (`PendingApart`, `PendingOwned`); an answer lies
in the slot of the settlement it is for (`AnswerOwned`); who was told what agrees
with what the client got (`ResultOwned`); a stopped pump has nothing left to do
(`PumpQuiet`). That a settlement reads its own answer depends on no pending command naming
its slot, and that on the slot of a dropped settlement never being idle again.

That no waiter is stranded is a matter of counting (`Watching`). While somebody sleeps, at
least `Credit` settlements hold a slot, owe a wake-up, look at the slots for the first
time since they were woken (`Engaged`) or have a wake-up they did not use (`Roused`):
`EnoughEngaged`. While one sleeps or is about to, the same bounds the slots made so far,
without those between their two looks, which may have seen too few (`EnoughVouching`). A
stored permit means that nobody is listed (`PermitIsLeft`). A slot that is idle, or not
made, leaves one of those counted without a slot of its own, and that one is on its way.
Theorems: `Invariance`, `TypeCorrect`, `SlotsStayWithinCredit`, `PendingSlotsStayPrivate`,
`AnswersStayHonest`, `NoWaiterIsStranded`, and `LineKeepsPromise`: every step of the line
is a step of `SettlePromise` or leaves its variables alone.

**`PumpProofs`** assumes that `Deliveries` is finite, `Credit` and `Workers` are
positive and the null values are no deliveries and differ. `Handing` says where each
handle is: with the pump exactly while its delivery waits for room (`PumpHoldsPending`,
`OtherItems`), nowhere before the transfer (`UnsentIsFresh`), in the channel once
(`ChannelHolds`). `Telling` says what was asked and answered: a delivery has one
command, from a settlement that waits or was dropped (`AskedOnce`), nothing is told of
one nobody settled (`UnsettledIsUntold`), an answer is true (`AnswersAreTrue`), and at
most once there is no command (`SettledOnReceipt`). `Queueing` follows the deliveries by
their position on the link: the handlers have a prefix (`ReceivedFirst`), the channel holds
later ones in their order (`ChannelInOrder`), a pending one is the last that arrived
(`PendingLast`), and for a living subscriber only the last can be missing, in a pump that
left its loop (`NothingLost`). The property is stated by positions too, not by filtering
the sequences. Theorems: `Invariance`, `TypeCorrect`, `DetachesAfterLastHandle`,
`HandsOverInOrder`, and `PumpKeepsPromise`, the refinement of
`SettlePromise`, whose guards follow from `Telling`.

**`TeardownProofs`** assumes `TeardownAssumption`. `IInv` says exactly when a guard is
out (`GuardsKept`), that a session is open only under a guard and its end queued only
for a refused subscription (`SessionsGuarded`), that a shutdown past its wait left no
guard and no way to get one (`NoneLeft`), what a publish that attaches holds
(`AttachingHoldsMap`), that until the map is drained every link is the map's
(`AttachedIsMapped`), and what a shutdown has closed at each step, unless another
was called (`ClosedBeforeEnd`). A second invariant, `BeforeShutdown`, says that until a
shutdown begins every link the map or a publish names is in its slot. Theorems:
`Invariance`, `TypeCorrect`, `NoGuardsAfterShutdown`, `AddressesCarryOneLink`,
`OnlyRefusedDoOutlive`, `AloneDoesCloseFound` and `NotConnectedDoesMeanShutdown`.

**`TransactionsProofs`** assumes `TransactionsAssumption`. `IInv` says where each kind of
call can stand over each transport (`Phases`), who holds the mutex and that what a post is
under stays put (`LockKept`), that a transaction is in the slot, with one discharge or in
its own value (`OnePlace`), that a publish still within a transaction finds it in the
slot and nobody about to take it (`Spans`), that nothing is open before its call opens it
(`Unopened`), that in process only its holder ends a transaction (`Buffers`), that what
settlers were told stays so (`SettledAsTold`) and that a message is out only once its
publish has returned (`Placed`). `JoinsItsTransaction` and `BegunIsKept` are conjuncts:
the first needs `Spans` and `LockKept`, for a publish that waits for the mutex joins
whatever it finds in the slot; the refinement needs `Unopened`, `Buffers` and `Placed`
for the guards of `AtomicPosting` and the others for what is told. Theorems:
`Invariance`, `TypeCorrect`, `PublishesJoin`, `BegunStaysKept`,
`NoPostMeetsItsDischarge`, `PublisherPostsAtomically` (every step is a step of
`AtomicPosting` or a stutter), and `TransactionsShowWhole`: a transaction's messages are
seen together or not at all, which follows from it.

**`RequestReplyProofs`** assumes `RequestAssumption`. A request has its id exactly when it
has an address (`IdsGiven`, `IdsGivenEarly`), ids are given once each (`IdsDiffer`), and a
queued reply has the id of the request it was made for or none (`MailHonest`); so a reply
that matches is the request's own, at whatever address it arrived. `Held` says at which
step a request may hold the sender link and its reply address (`Holds`), that in process
an address is one request's (`Mails`), and that unless a request was dropped the in-flight
count is the replies queued and those a caller has (`Counting`, over positions of the
mailboxes, so that no sum is needed). Theorems: `Invariance`, `TypeCorrect`,
`RepliesAreOwn`, `RequestsLetGo`.

**`ConnectProofs`** assumes `ConnectAssumption`. A clone dials exactly while it fills the
cell, which is then empty (`FillerDials`); a socket is the filler's or the cell's
(`SocketsHeld`); how far a dialling clone's login is at each step (`LoginUnderWay`), and
that of the connection in the cell (`LoggedIn`). `SettingsRead`, on top of it, says which
checks a clone has passed at each step, which `TestsAgree` compares with those of a test.
Theorems: `Invariance`, `TypeCorrect`, `SocketsAreOne`, `LoginsAreAsAsked`,
`LinksAreAsCalled`, `TestsAgree`.

**`RouterProofs`** assumes `RouterAssumption`. `Contents` puts all that is stored on
shelves: each subscription's channel, what was drained from it and what its consumer
dropped, and the address's queue. `Apart` says that no delivery is on them twice or on one
and with a consumer; `Sorted`, that a topic subscription has its own copies only, others
the shared one where consumers are orderly, and that every delivery is of a published
message, so that a publish brings in new ones; `Lives`, how registry and receivers go
together; `QueueStays`, that an address with a queue consumer has its queue, so that a
delivery no consumer takes is kept; `Counts` is the in-flight count, over positions of the
channels; `Promised`, that what is owed is stored or held. Four kinds of step carry the
proof: a delivery is put on a shelf, taken from one, moved between shelves, or a shelf is
emptied, each a lemma; `HandToOne` is then one of two outcomes, taken by one consumer
whose receiver is open or kept by the queue, whatever the turn. `HandEach`, which hands
back deliveries one by one, needs induction on their number: with no induction theorem to
cite, the smallest position at which the claim would fail is refuted (`SmallestOf`).
`ForecastsHold` compares the consumer that `HandToOne` picks with the one `Recipients`
names: the ranks of n consumers are the numbers below n, each once. Theorems: `Invariance`,
`TypeCorrect`, `DeliveriesNeverDoubled`, `OrderlyLosesNothing`,
`OrderlyQueuesGetShared`, `FlightIsCounted`, `ClosedDoesStayEmpty`, `ForecastsHold`.

The second half of `RequestReplyProofs` is about `Messages`, what requests and replies
travel in, and assumes `MessagesAssumption`. Its lemmas are about the conversions:
headers that no property refuses become a message AMQP can carry (`BuiltIsMessage`), what
is built reads back as it was but for the typed id (`ReadBack`), and the id of a handler's
context is the request's, in its type, unless the request hides it (`CorrelationIsId`).
`MessagesInv` says that the message on its way is the one built from the last publish, or a
peer's, and that a reply's id is what its request reads as. Theorems: `MessagesInvariance`,
`MessagesTypeCorrect`, `HeadersDoSurvive`, `RepliesCorrelate`.

**`ServicesProofs`** assumes `ServicesAssumption`: the services on offer are any that are
`WellMounted`. None of the three properties is inductive.

- That a message is in one place (`InOnePlace`, which says where, and so implies the count
  that `OnePlace` states, or that a crash took its copy, `Lost`) needs every copy on its
  way to be of a delivery that was rejected for it (`Kept`), new messages to have origins
  of their own (`Known`) and every copy on its way to reach one node (`Copying`), which is
  where `ComesBack` and `DeadLettersArrive` come in.
- That attempts stay within a cap is a budget (`Attempts`): what is queued, copied or held
  for a capped subscription counts at least as many deliveries as there were runs for it,
  but for the crashes, and what is queued or copied has an attempt left. There are two
  counts, and `Deliveries` reads the broker's where a message has a header section; a
  capped message without one is copied, never redelivered, which raises the other. It
  needs the runs to be named apart (`Named`, from `Finite`) and a message's holder to be
  its subscription's own (`OnNode`).
- That posts agree with the settlement needs a run to be as far as its stage and plan say
  (`Phased`, over what every plan of `Mounts` keeps to, `PlanFits`), the runs of a posting
  handler for one message to plan alike (`Planned`, `Alike`) and nobody else to have the
  message (`Stays`, from `Alone`). Then a message that is accepted was so by a run whose
  posts are whole (`Accepted`), none that a committing handler had is rejected
  (`Rejected`), and of the runs that ended well one is done and a crash cut off the
  others, one each (`DoneOnce`, `Died`): whoever takes the message again is then the only
  one at work for it.

The actions fall into five kinds of step, which are stated once (`GoesOn`, `Took`,
`Settled`, `Republished`, `Crashed`): each action is shown to be of its kind, and each
conjunct to be kept by each kind. Settlement is a case split on what becomes of a message
(`DisposedIs`: it goes back, is copied or ends). On the instances of `services_fair` TLC
found every conjunct to hold before it was proved. Theorems: `Invariance`,
`MessageInOnePlace`, `AttemptsCapped`, `PostsDoMatchSettlement`.

Proved and in no run, because a run would only repeat it on a small instance:
`PendingSlotIsPrivate`, `AnswersAreHonest` (`SettleLine`), `NoGuardAfterShutdown`
(`Teardown`), `NoPostWhileDischarging` (`Transactions`), and the type invariants.

**Only model-checked**: every liveness property (`EverySettlementReturns`,
`StopEndsPump`, `DropEndsPump`, `OnlyErrorsHoldAcks`, `ShutdownReturns`,
`EveryCallReturns`, `LooseOnesEnd`, `EveryRequestReturns`, `EveryConnectReturns`,
`ComesToRest`), which the prover cannot treat.

## 6. What is not modelled

- The protocol below the client: frames, flow control beyond the credit count,
  reconnection (the crate does none). The client, tokio, the server and the runtime
  `ruststream` are external: their behaviour is what the code relies on.
- Message contents. A delivery is a name, or the few marks a handler looks at; whether it
  is readable is a set it belongs to. The text forms of foreign application properties are
  one kind of bytes.
- In `Router`: several addresses, which share nothing but the lock and the in-flight
  count, and the delivery count, which `Services` has.
- In `Transactions`: the drop of the handle while its slot holds a transaction (the client
  orphans it, like a dropped call), and which link a message goes by, which is
  `Teardown`'s subject.
- In `Connect`: certificates, which are valid or not, and the handshakes, which the
  client libraries make.
- Of the services: schemas and transforms of bodies, the documents they generate, the
  question the greeter asks at startup, how long a partial batch waits, and the services'
  own tests. Those under `examples/` with macros are the same programs.
- In `PriceOrder` (`Mounts`): the drop of an order whose answer does not decode; the quoting
  service of the same example always answers one that does.
- `address.rs` refuses an empty address, which no service gives.
- `error.rs`, `bindings.rs`, `prelude.rs`, `lib.rs`: no state, no behaviour.
- Benchmarks and the site; tests were read for what they expect.

## 7. The plan

Done: every module is checked; the safety of all of them is proved, and the refinements of
`SettlePromise` (twice) and `AtomicPosting`. What could follow is a specification of the
router's promise (a set of copies, each with its owner) that `Router` implements for orderly
consumers; its content is what `DeliveriesNeverDoubled`, `OrderlyLosesNothing` and
`OrderlyQueuesGetShared` say separately.

## 8. Checking it

```
tlc -config SettleLine_fair.cfg SettleLine
tlapm SettleLineProofs.tla
```

and likewise for the other runs of `PROJECT.json` and the other proof modules. The longest
runs are `teardown_fair` and `txn_fair`, about three minutes on two cores, `services_fair`,
two, and `router_safety`, one; the longest proofs are those of `ServicesProofs`, three
minutes, and `RouterProofs`, two.
