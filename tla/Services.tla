------------------------------ MODULE Services ------------------------------
(***************************************************************************)
(* One of the services of Mounts.tla over a live broker: its inputs        *)
(* arrive, its handlers run, post, ask and settle, and the broker refuses, *)
(* a connection fails or the process stops and starts again in between.    *)
(*                                                                         *)
(* How the runtime (ruststream) turns an outcome into dispositions and     *)
(* copies is external: it is modelled as the services and their tests use  *)
(* it.                                                                     *)
(***************************************************************************)
EXTENDS Integers, FiniteSets, TLC, Mounts

CONSTANTS
    Offered,        \* the services, one of which runs, each with a limit of inputs and
                    \* of posts, discharges and requests that fail
    MaxCrashes,     \* how often the process stops
    MaxRuns         \* how many handler runs are followed

-----------------------------------------------------------------------------
(* Where messages go.                                                      *)

\* A topic subscription reads copies of its own, a queue is shared.
Node(mount) ==
    IF Capability(mount.from) = "topic" THEN mount.handler ELSE mount.from.address

\* Queues an operator bound to an address: what is sent there reaches them.
Bound(address) == IF address = "order-events" THEN {"order-events::ledger"} ELSE {}

\* The nodes of a service that a message to an address reaches.
ReachedIn(s, address) ==
    {Node(s.mounts[i]) :
        i \in {j \in DOMAIN s.mounts : s.mounts[j].from.address \in {address} \cup Bound(address)}}

\* The handlers that may post, those that may put a message off, and, of the
\* others, those that may want one again.
MayPost ==
    {"take_order", "confirm", "book", "ship", "ship_traced", "ship_keyed", "confirm_order",
     "issue_receipt", "quote", "price_order", "greet", "bill_with_ledger", "bill_invoices"}

MayDelay == {"process_refund", "charge", "price_order"}

MayRetry == {"process_refund", "charge", "charge_at_gateway", "pick", "record", "welcome"}

OnReceipt(mount) == mount.from.settle = "AtMostOnce"

\* No other mount reads the i-th one's node.
Alone(s, i) ==
    \A j \in DOMAIN s.mounts : Node(s.mounts[j]) = Node(s.mounts[i]) => j = i

\* A copy of the mount's messages comes back to it, and to nobody else.
ComesBack(s, mount) == ReachedIn(s, mount.from.address) = {Node(mount)}

\* A dead letter reaches one node, none that is read under a cap.
DeadLettersArrive(s, mount) ==
    \E i \in DOMAIN s.mounts :
        /\ ReachedIn(s, mount.dead) = {Node(s.mounts[i])}
        /\ \A j \in DOMAIN s.mounts : Node(s.mounts[j]) = Node(s.mounts[i]) => s.mounts[j].cap = 0

\* How the services are put together: a capped subscription and one whose
\* handler posts have their queue to themselves, and whoever posts takes its
\* messages one by one, uncapped, and settles them when it is done.  No handler
\* whose messages are settled on receipt puts one off or, under a cap, wants one
\* again, which the runtime would answer with a copy of a message that is settled
\* (docs/architecture/settlement.md:75-76), and a dead-letter address comes with a
\* cap (:102-103).  Every service the examples ship is put together so, which TLC
\* evaluates.
WellMounted(s) ==
    /\ s.mounts \in Seq({s.mounts[i] : i \in DOMAIN s.mounts})
    /\ \A input \in s.inputs : input.body \in Seq(STRING)
    /\ \A i \in DOMAIN s.mounts :
          LET mount == s.mounts[i]
          IN /\ mount.cap \in Nat
             /\ mount.cap # 0 \/ mount.handler \in MayPost => Alone(s, i)
             /\ mount.cap # 0 \/ mount.handler \in MayDelay =>
                   OnReceipt(mount) \/ ComesBack(s, mount)
             /\ mount.cap # 0 /\ mount.dead # NoAddress =>
                   OnReceipt(mount) \/ DeadLettersArrive(s, mount)
             /\ mount.handler \in MayPost =>
                   mount.cap = 0 /\ mount.batch = 1 /\ ~OnReceipt(mount)
             /\ OnReceipt(mount) =>
                   /\ mount.handler \notin MayDelay
                   /\ mount.cap # 0 => mount.handler \notin MayRetry
             /\ mount.dead # NoAddress => mount.cap # 0

ASSUME ServicesAssumption ==
    /\ {MaxCrashes, MaxRuns} \subseteq Nat
    /\ \A s \in Offered : WellMounted(s)

VARIABLES
    service,
    queue,          \* the messages on the broker's nodes
    runs,           \* the handler runs, by mount, message and number
    copies,         \* the copies the runtime has still to publish
    attempted,      \* what the gateway of Dispositions was asked to charge
    ended,          \* how messages left the service: <<origin, how>>
    replaced,       \* the deliveries that were rejected for a copy of theirs, which a
                    \* broker that dead-letters rejected deliveries keeps
    sent,           \* the origins of all messages that reached the service
    last,           \* the last message's number
    inputs,
    faults,
    crashes

world == <<service, sent, last, inputs>>
vars == <<world, queue, runs, copies, attempted, ended, replaced, faults, crashes>>

Mounted == DOMAIN service.mounts
At(i) == service.mounts[i]

Reached(address) == ReachedIn(service, address)

NoHeader == -1
NoRun == <<>>

\* What a message becomes where it arrives: a new one, of its own origin, or a
\* copy of another.
Landed(m, n) ==
    [m EXCEPT !.id = last + 1, !.node = n,
              !.origin = IF m.origin = <<>> THEN <<last + 1, n>> ELSE m.origin]

\* The messages a send to an address puts on the nodes.
Arrivals(address, m) == {Landed(m, n) : n \in Reached(address)}

Arrive(ms) ==
    /\ queue' = queue \cup ms
    /\ last' = last + 1
    /\ sent' = sent \cup {m.origin : m \in ms}

Fresh(body, count, asker) ==
    [id |-> 0, node |-> NoAddress, origin |-> <<>>, body |-> body, count |-> count,
     tries |-> 0, asker |-> asker]

Init ==
    /\ service \in Offered
    /\ queue = {}
    /\ runs = [r \in {} |-> <<>>]
    /\ copies = {}
    /\ attempted = {}
    /\ ended = {}
    /\ replaced = {}
    /\ sent = {}
    /\ last = 0
    /\ inputs = 0
    /\ faults = 0
    /\ crashes = 0

\* Another program sends, with a header section or without.
Produce ==
    /\ inputs < service.limit
    /\ inputs' = inputs + 1
    /\ \E input \in service.inputs, count \in {NoHeader, 0} :
          Arrive(Arrivals(input.to, Fresh(input.body, count, NoRun)))
    /\ UNCHANGED <<service, runs, copies, attempted, ended, replaced, faults, crashes>>

-----------------------------------------------------------------------------
(* Handler runs.                                                           *)

Asked(m) == m.asker # NoRun

Plan(handler, m) ==
    CASE handler = "process_refund" -> ProcessRefund(m.body)
      [] handler = "charge" -> Charge(m.body)
      [] handler = "charge_at_gateway" -> ChargeAtGateway(m.body, m.origin \in attempted)
      [] handler = "pick" -> Pick(m.body)
      [] handler = "record" -> Record(m.body)
      [] handler = "take_order" -> TakeOrder
      [] handler = "confirm" -> Confirm(Asked(m))
      [] handler = "book" -> Book
      [] handler = "ship" -> Ship
      [] handler = "ship_traced" -> ShipTraced
      [] handler = "ship_keyed" -> ShipKeyed
      [] handler = "confirm_order" -> ConfirmOrder
      [] handler = "take_first_order" -> TakeFirstOrder(m.body)
      [] handler = "accept" -> Accept(m.body)
      [] handler = "issue_receipt" -> IssueReceipt
      [] handler = "quote" -> Quote(m.body, Asked(m))
      [] handler = "price_order" -> PriceOrder(m.body)
      [] handler = "greet" -> Greet(m.body, Asked(m))
      [] handler = "welcome" -> Welcome
      [] handler = "bill_with_ledger" -> BillWithLedger(m.body)
      [] handler = "bill_invoices" -> BillInvoices(m.body)
      [] OTHER -> Return("ack")

Live(r) == runs[r].stage \notin {"over", "dead"}

Running(i) == {r \in DOMAIN runs : runs[r].mount = i /\ Live(r)}

\* The name of the next run of a mount for a message.
NextRun(i, m) ==
    <<i, m.id, Cardinality({r \in DOMAIN runs : r[1] = i /\ r[2] = m.id})>>

SettledOnReceipt(i) == OnReceipt(At(i))

\* Where a run begins; one that only returns has nothing left but to settle.
Begins(plan) ==
    IF plan.ask # NoAddress THEN "asking"
    ELSE IF plan.ends = "plain" /\ plan.posts = <<>> THEN "settling"
    ELSE "running"

Started(name, run) ==
    [r \in DOMAIN runs \cup {name} |-> IF r = name THEN run ELSE runs[r]]

\* A worker takes a message, or a batch's worker several.
Receive(i) ==
    /\ Cardinality(DOMAIN runs) < MaxRuns
    /\ Cardinality(Running(i)) < At(i).workers
    /\ \E ms \in SUBSET {m \in queue : m.node = Node(At(i))} :
          /\ ms # {}
          /\ Cardinality(ms) <= At(i).batch
          /\ queue' = queue \ ms
          /\ LET first == CHOOSE m \in ms : TRUE
                 plan == Plan(At(i).handler, first)
             IN runs' = Started(NextRun(i, first),
                    [mount |-> i, messages |-> ms, plan |-> plan, posted |-> 0, shown |-> 0,
                     stage |-> Begins(plan), outcome |-> plan.outcome])
          /\ attempted' = IF At(i).handler = "charge_at_gateway"
                          THEN attempted \cup
                               {m.origin : m \in {n \in ms : ~Contains(n.body, "nothing")}}
                          ELSE attempted
          /\ ended' = IF SettledOnReceipt(i)
                      THEN ended \cup {<<m.origin, "accepted">> : m \in ms} ELSE ended
    /\ UNCHANGED <<world, copies, replaced, faults, crashes>>

\* The run goes on to its settlement.
Returns(r, outcome) ==
    runs' = [runs EXCEPT ![r].stage = "settling", ![r].outcome = outcome]

\* The request goes out; from here on the run waits for its answer.
Ask(r) ==
    /\ runs[r].stage = "asking"
    /\ LET body == (CHOOSE m \in runs[r].messages : TRUE).body
       IN Arrive(Arrivals(runs[r].plan.ask, Fresh(body, NoHeader, r)))
    /\ runs' = [runs EXCEPT ![r].stage = "waiting"]
    /\ UNCHANGED <<service, inputs, copies, attempted, ended, replaced, faults, crashes>>

\* Somebody has the question and may still answer it.
Answerable(r) ==
    \/ \E m \in queue : m.asker = r
    \/ \E q \in DOMAIN runs : Live(q) /\ \E m \in runs[q].messages : m.asker = r
    \/ \E c \in copies : c.message.asker = r

\* The question is not accepted, or no answer comes in time.  That is a fault
\* unless nobody is left to answer.
TimeOut(r) ==
    /\ runs[r].stage \in {"asking", "waiting"}
    /\ LET fault == runs[r].stage = "asking" \/ Answerable(r)
       IN /\ fault => faults < service.faults
          /\ faults' = IF fault THEN faults + 1 ELSE faults
    /\ Returns(r, runs[r].plan.unanswered)
    /\ UNCHANGED <<world, queue, copies, attempted, ended, replaced, crashes>>

Inside(r) == runs[r].plan.ends # "plain"

\* A transaction does not open.
OpenFails(r) ==
    /\ runs[r].stage = "running"
    /\ Inside(r)
    /\ runs[r].posted = 0
    /\ faults < service.faults
    /\ faults' = faults + 1
    /\ Returns(r, "retry")
    /\ UNCHANGED <<world, queue, copies, attempted, ended, replaced, crashes>>

Posting(r) == runs[r].stage = "running" /\ runs[r].posted < Len(runs[r].plan.posts)

\* What a post that arrives does.  Inside a transaction nothing shows yet; an
\* answer goes to the run that asked, if it still waits.
Arrived(r, stage, outcome) ==
    LET message == runs[r].plan.posts[runs[r].posted + 1]
        asker == (CHOOSE m \in runs[r].messages : TRUE).asker
        after == [runs EXCEPT ![r].posted = @ + 1, ![r].stage = stage, ![r].outcome = outcome,
                              ![r].shown = IF Inside(r) THEN @ ELSE @ + 1]
    IN IF message.to = ReplyTo
       THEN /\ runs' = IF runs[asker].stage = "waiting"
                       THEN [after EXCEPT ![asker].stage = "running"] ELSE after
            /\ UNCHANGED <<queue, last, sent>>
       ELSE /\ runs' = after
            /\ IF Inside(r) THEN UNCHANGED <<queue, last, sent>>
               ELSE Arrive(Arrivals(message.to, Fresh(message.body, NoHeader, NoRun)))

Post(r) ==
    /\ Posting(r)
    /\ Arrived(r, "running", runs[r].outcome)
    /\ UNCHANGED <<service, inputs, copies, attempted, ended, replaced, faults, crashes>>

\* A post is not accepted, or the connection fails before or after it arrived.
\* An open transaction is aborted.
PostFails(r) ==
    /\ Posting(r)
    /\ faults < service.faults
    /\ faults' = faults + 1
    /\ \/ /\ \E outcome \in {runs[r].plan.refused, "retry"} : Returns(r, outcome)
          /\ UNCHANGED <<queue, last, sent>>
       \/ Arrived(r, "settling", "retry")
    /\ UNCHANGED <<service, inputs, copies, attempted, ended, replaced, crashes>>

Posted(r) == runs[r].stage = "running" /\ runs[r].posted = Len(runs[r].plan.posts)

\* A commit shows all that was posted under it; an abort shows nothing.
End(r) ==
    /\ Posted(r)
    /\ runs' = [runs EXCEPT ![r].stage = "settling",
                            ![r].shown = IF runs[r].plan.ends = "commit" THEN runs[r].posted ELSE @]
    /\ UNCHANGED <<world, queue, copies, attempted, ended, replaced, faults, crashes>>

\* The discharge fails: a failed abort or commit has ended the transaction, and
\* a commit whose answer was lost has shown it.
EndFails(r) ==
    /\ Posted(r)
    /\ Inside(r)
    /\ faults < service.faults
    /\ faults' = faults + 1
    /\ \E shown \in {0, runs[r].posted} :
          /\ shown # 0 => runs[r].plan.ends = "commit"
          /\ runs' = [runs EXCEPT ![r].stage = "settling", ![r].shown = shown,
                                  ![r].outcome = runs[r].plan.endRefused]
    /\ UNCHANGED <<world, queue, copies, attempted, ended, replaced, crashes>>

-----------------------------------------------------------------------------
(* Settlement.                                                             *)

\* Mutant of Deliveries: a message without a count is a first delivery.
DeliveriesCounted(m) == (IF m.count = NoHeader THEN 0 ELSE m.count) + 1

\* The deliveries of a message so far, this one included: the broker's count
\* where the message has a header section, the runtime's where it has none.
Deliveries(m) == (IF m.count = NoHeader THEN m.tries ELSE m.count) + 1

Spent(mount, m) == mount.cap # 0 /\ Deliveries(m) >= mount.cap

\* The broker redelivers with its count raised.
Redelivered(m) == [m EXCEPT !.count = IF @ = NoHeader THEN 1 ELSE @ + 1]

\* The runtime's copy has no header section and counts in a header of its own.
CopyTo(address, m) ==
    [to |-> address, message |-> [m EXCEPT !.count = NoHeader, !.tries = Deliveries(m)]]

\* What a settlement makes of a message: what goes back, what is copied, how it
\* ended, and what is rejected because its copy goes on for it.
Nothing == [back |-> {}, copied |-> {}, how |-> {}, replaced |-> {}]

Copied(address, m) == [Nothing EXCEPT !.copied = {CopyTo(address, m)}, !.replaced = {m}]

Disposed(mount, m, outcome) ==
    CASE outcome = "ack" -> [Nothing EXCEPT !.how = {<<m.origin, "accepted">>}]
      [] outcome = "drop" -> [Nothing EXCEPT !.how = {<<m.origin, "rejected">>}]
      [] outcome \in {"retry", "later"} /\ Spent(mount, m) ->
            IF mount.dead = NoAddress THEN [Nothing EXCEPT !.how = {<<m.origin, "rejected">>}]
            ELSE Copied(mount.dead, m)
      [] outcome = "later" /\ ~Spent(mount, m) -> Copied(mount.from.address, m)
      [] outcome = "retry" /\ ~Spent(mount, m) ->
            IF mount.cap = 0 \/ m.count # NoHeader
            THEN [Nothing EXCEPT !.back = {Redelivered(m)}]
            ELSE Copied(mount.from.address, m)

\* What the dispositions of a run's messages change.
Dispose(results) ==
    /\ queue' = queue \cup UNION {x.back : x \in results}
    /\ copies' = copies \cup UNION {x.copied : x \in results}
    /\ ended' = ended \cup UNION {x.how : x \in results}
    /\ replaced' = replaced \cup UNION {x.replaced : x \in results}

\* Mutant of Settle: what was settled on receipt is settled again.
SettleTwice(r) ==
    /\ runs[r].stage = "settling"
    /\ runs' = [runs EXCEPT ![r].stage = "over"]
    /\ Dispose({Disposed(At(runs[r].mount), m, runs[r].outcome) : m \in runs[r].messages})
    /\ UNCHANGED <<world, attempted, faults, crashes>>

\* Nothing is left to settle where a delivery was settled on receipt: the
\* dispositions are refused and logged.
Settle(r) ==
    /\ runs[r].stage = "settling"
    /\ runs' = [runs EXCEPT ![r].stage = "over"]
    /\ LET i == runs[r].mount
       IN IF SettledOnReceipt(i) THEN UNCHANGED <<queue, copies, ended, replaced>>
          ELSE Dispose({Disposed(At(i), m, runs[r].outcome) : m \in runs[r].messages})
    /\ UNCHANGED <<world, attempted, faults, crashes>>

\* A copy's delay, if it has one, is over.
Republish(c) ==
    /\ copies' = copies \ {c}
    /\ Arrive(Arrivals(c.to, c.message))
    /\ UNCHANGED <<service, inputs, runs, attempted, ended, replaced, faults, crashes>>

-----------------------------------------------------------------------------
(* The process stops: the broker takes back what was not settled and rolls  *)
(* open transactions back, and what was in memory is gone.                  *)

Unsettled ==
    UNION {runs[r].messages :
        r \in {q \in DOMAIN runs : Live(q) /\ ~SettledOnReceipt(runs[q].mount)}}

Crash ==
    /\ crashes < MaxCrashes
    /\ crashes' = crashes + 1
    /\ queue' = queue \cup Unsettled
    /\ runs' = [r \in DOMAIN runs |-> IF Live(r) THEN [runs[r] EXCEPT !.stage = "dead"] ELSE runs[r]]
    /\ copies' = {}
    /\ attempted' = {}
    /\ UNCHANGED <<world, ended, replaced, faults>>

Progress(r) == Ask(r) \/ Post(r) \/ End(r) \/ Settle(r)

Next ==
    \/ Produce
    \/ \E i \in Mounted : Receive(i)
    \/ \E r \in DOMAIN runs : Progress(r) \/ TimeOut(r) \/ OpenFails(r) \/ PostFails(r) \/ EndFails(r)
    \/ \E c \in copies : Republish(c)
    \/ Crash

Spec == Init /\ [][Next]_vars

\* The broker delivers, workers run, the client answers and timers fire; inputs,
\* faults and crashes need not come.
Work ==
    \/ \E i \in Mounted : Receive(i)
    \/ \E r \in DOMAIN runs :
          \/ Progress(r)
          \/ runs[r].stage = "waiting" /\ ~Answerable(r) /\ TimeOut(r)
    \/ \E c \in copies : Republish(c)

FairSpec == Spec /\ WF_vars(Work)

-----------------------------------------------------------------------------
(* Properties.                                                             *)

Carriers(o) ==
    {m \in queue : m.origin = o}
    \cup {c.message : c \in {d \in copies : d.message.origin = o}}
    \cup {m \in Unsettled : m.origin = o}

Endings(o) == {e \in ended : e[1] = o}

\* A message that reached a service is to be handled in one place, on a node, with
\* a handler or in a copy on its way, until it ends, once: a cap, a dead letter or
\* a delay puts a copy in the place of a delivery it has rejected, beside which no
\* second copy goes on and no ending is booked.  Nothing but a crash leaves a message
\* nowhere, while its copy waits in memory (retry-after.md:19), and then a delivery
\* of it was rejected, so a broker that dead-letters those has it still.
OnePlace ==
    \A o \in sent :
        LET places == Cardinality(Carriers(o)) + Cardinality(Endings(o))
        IN \/ places = 1
           \/ places = 0 /\ crashes > 0 /\ \E m \in replaced : m.origin = o

RunsOf(i, o) ==
    {r \in DOMAIN runs : runs[r].mount = i /\ \E m \in runs[r].messages : m.origin = o}

\* A capped mount runs its handler for a message no more often than its cap
\* says, whether the broker's count or the copies' header holds the number, and
\* across delays; a crash may add the run it interrupted.
AttemptsWithinCap ==
    \A i \in Mounted, o \in sent :
        At(i).cap # 0 => Cardinality(RunsOf(i, o)) <= At(i).cap + crashes

ShownBy(i, o) == {r \in RunsOf(i, o) : runs[r].shown > 0}
ShownWholeBy(i, o) == {r \in ShownBy(i, o) : runs[r].shown = Len(runs[r].plan.posts)}

\* What a message's handlers posted agrees with how it was settled.  Accepted:
\* all of it is there.  Inside a transaction, whatever is there is whole; what
\* a rejected message posted is not there; and it is there twice only after a
\* crash or a commit whose answer was lost.
PostsMatchSettlement ==
    \A i \in Mounted, o \in sent :
        LET posters == {r \in RunsOf(i, o) : runs[r].plan.posts # <<>>}
            inside == {r \in posters : Inside(r)}
            committed == {r \in ShownBy(i, o) : runs[r].outcome = "ack"}
        IN posters # {} =>
            /\ <<o, "accepted">> \in ended => ShownWholeBy(i, o) # {}
            /\ inside # {} =>
                  /\ ShownBy(i, o) = ShownWholeBy(i, o)
                  /\ <<o, "rejected">> \in ended => ShownBy(i, o) = {}
                  /\ Cardinality(committed) <= 1 + crashes

Idle == queue = {} /\ copies = {} /\ \A r \in DOMAIN runs : ~Live(r)

\* An order that has no price asks for it for ever.
Unpriced ==
    \E m \in queue \cup {c.message : c \in copies} \cup Unsettled : Contains(m.body, "no price")

\* Whatever was refused, lost or interrupted, a service that gets no more
\* inputs comes to rest with nothing left to handle.
ComesToRest == <>[]Idle \/ []<>Unpriced
=============================================================================
