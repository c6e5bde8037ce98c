--------------------------- MODULE ServicesProofs ---------------------------
(***************************************************************************)
(* Proofs about Services, for any services that are WellMounted and any    *)
(* numbers of inputs, faults, runs and crashes: a message is in one place  *)
(* at a time, a cap bounds the attempts, and what a handler posts goes     *)
(* with how its message settles.                                           *)
(*                                                                         *)
(* A step does one of five things, and each part of the invariant is shown *)
(* for each of them, by a lemma named for both: runs go on and messages    *)
(* arrive (GoesOn), a worker takes messages (Took), a run settles          *)
(* (Settled), a copy is published (Republished) or the process stops       *)
(* (Crashed), the last three of which only move messages (Moves).          *)
(***************************************************************************)
EXTENDS Services, FiniteSetTheorems, TLAPS

-----------------------------------------------------------------------------
(* The invariant's parts.                                                  *)

MessageFields == {"id", "node", "origin", "body", "count", "tries", "asker"}

\* A message, and the header section it has or has not.
MessageTyped(m) ==
    /\ DOMAIN m = MessageFields
    /\ m.body \in Seq(STRING)
    /\ m.count \in Nat \cup {NoHeader}
    /\ m.tries \in Nat

Stages == {"asking", "waiting", "running", "settling", "over", "dead"}
Outcomes == {"ack", "drop", "retry", "later"}

RunFields == {"mount", "messages", "plan", "posted", "shown", "stage", "outcome"}

\* A run of a handler.
RunTyped(x) ==
    /\ DOMAIN x = RunFields
    /\ x.posted \in Nat
    /\ x.shown \in Nat
    /\ x.stage \in Stages
    /\ x.outcome \in Outcomes

\* What every plan of a handler keeps to.
PlanFits(handler, plan) ==
    /\ plan.ends \in {"plain", "commit", "abort"}
    /\ plan.outcome \in Outcomes
    /\ plan.unanswered \in {"retry", "later"}
    /\ plan.refused \in {"retry", "drop"}
    /\ plan.endRefused \in {"retry", "drop"}
    /\ "later" \in {plan.outcome, plan.unanswered} => handler \in MayDelay
    /\ plan.posts # <<>> \/ plan.ends # "plain" => handler \in MayPost
    /\ plan.outcome = "ack" \/ plan.ends = "plain" =>
          Len(plan.posts) \in Nat /\ (Len(plan.posts) = 0 => plan.posts = <<>>)
    /\ plan.ends = "plain" =>
          \A k \in 1..Len(plan.posts) : plan.posts[k].body \in Seq(STRING)
    /\ plan.ends = "commit" => plan.outcome = "ack" /\ plan.refused = "retry"
                               /\ plan.endRefused = "retry"
    /\ plan.ends = "abort" => plan.outcome = "drop"

\* How far a run has come.
Phase(x) ==
    /\ x.stage \in {"asking", "waiting"} => x.posted = 0 /\ x.shown = 0
    /\ x.stage \in {"asking", "waiting", "running"} => x.outcome = x.plan.outcome
    /\ x.stage = "running" /\ x.plan.ends = "plain" => x.shown = x.posted
    /\ x.stage = "running" /\ x.plan.ends # "plain" => x.shown = 0
    /\ x.plan.ends # "plain" =>
          x.shown = 0 \/ (x.plan.ends = "commit" /\ x.shown = Len(x.plan.posts))
    /\ x.outcome = "ack" => x.plan.outcome = "ack"
    /\ x.stage \in {"settling", "over"} /\ x.outcome = "ack" => x.shown = Len(x.plan.posts)
    /\ x.outcome = "drop" => x.plan.ends # "commit"
    /\ x.outcome = "later" => "later" \in {x.plan.outcome, x.plan.unanswered}

\* The messages that are anywhere: on a node, in a copy, or with a run.
Everywhere ==
    queue \cup {c.message : c \in copies} \cup UNION {runs[r].messages : r \in DOMAIN runs}

Handler(r) == At(runs[r].mount).handler

\* The type invariant: what each part of the state consists of.
Typed ==
    /\ service \in Offered
    /\ last \in Nat
    /\ crashes \in Nat
    /\ \A m \in Everywhere : MessageTyped(m)
    /\ \A c \in copies : c = [to |-> c.to, message |-> c.message]
    /\ \A e \in ended : e = <<e[1], e[2]>>
    /\ \A r \in DOMAIN runs :
          /\ RunTyped(runs[r])
          /\ runs[r].mount \in Mounted
          /\ runs[r].messages # {}

\* What is counted is finite.
Finite ==
    /\ IsFiniteSet(queue)
    /\ IsFiniteSet(DOMAIN runs)
    /\ \A r \in DOMAIN runs : IsFiniteSet(runs[r].messages)

\* The runs of a mount for a message are numbered from 0, so the next number is free.
Named ==
    \A r \in DOMAIN runs :
        /\ r = <<r[1], r[2], r[3]>>
        /\ r[3] \in Nat
        /\ r[3] < Cardinality({q \in DOMAIN runs : q[1] = r[1] /\ q[2] = r[2]})

\* Every message is of an origin that was sent, and origins are numbered by `last`.
Known ==
    /\ \A m \in Everywhere : m.origin \in sent
    /\ \A e \in ended : e[1] \in sent
    /\ \A o \in sent : o = <<o[1], o[2]>> /\ o[1] \in Nat /\ o[1] <= last

\* A run has its messages in hand, to settle them when it is done.
Holds(r) == Live(r) /\ ~SettledOnReceipt(runs[r].mount)

\* Where a message of origin o is: x, on a node, in a copy, with run r, or gone.
Place(kind, r, x, o) ==
    \/ kind = "queue" /\ r = NoRun /\ x \in queue /\ x.origin = o
    \/ kind = "copy" /\ r = NoRun /\ x \in copies /\ x.message.origin = o
    \/ kind = "run" /\ r \in DOMAIN runs /\ Holds(r) /\ x \in runs[r].messages /\ x.origin = o
    \/ kind = "end" /\ r = NoRun /\ x \in ended /\ x[1] = o

\* It is there and nowhere else.
PlacedAt(kind, r, x, o) ==
    /\ Place(kind, r, x, o)
    /\ \A k, q, y : Place(k, q, y, o) => k = kind /\ q = r /\ y = x

\* It is nowhere: a crash took the copy a delivery of it was rejected for.
Lost(o) ==
    /\ \A k, q, y : ~Place(k, q, y, o)
    /\ crashes > 0
    /\ \E m \in replaced : m.origin = o

\* Every message that was sent is in one place: OnePlace, place by place.
InOnePlace == \A o \in sent : (\E kind, r, x : PlacedAt(kind, r, x, o)) \/ Lost(o)

\* Every copy on its way is of a delivery that was rejected for it: what a crash
\* takes is not gone without a trace.
Kept == \A c \in copies : \E m \in replaced : m.origin = c.message.origin

\* A run has messages of its mount's node.
OnNode == \A r \in DOMAIN runs : \A m \in runs[r].messages : m.node = Node(At(runs[r].mount))

\* A copy on its way reaches one node.
Copying == \A c \in copies : \E n \in Reached(c.to) : Reached(c.to) = {n}

\* Every run is as far as its stage and its plan say.
Phased == \A r \in DOMAIN runs : PlanFits(Handler(r), runs[r].plan) /\ Phase(runs[r])

\* A handler that posts takes one message and does what it plans for it.
Planned ==
    \A r \in DOMAIN runs :
        Handler(r) \in MayPost =>
            \E m \in runs[r].messages : runs[r].messages = {m} /\ runs[r].plan = Plan(Handler(r), m)

\* What is redelivered or copied of a message has its body and its asker.
Alike == \A m1, m2 \in Everywhere :
            m1.origin = m2.origin => m1.body = m2.body /\ m1.asker = m2.asker

\* A mount has had a message at most so often, and once more for each crash.
Budget(i, o, most) == Cardinality(RunsOf(i, o)) <= most + crashes

\* The delivery count of a capped mount's message keeps up with the attempts made,
\* and what is on its way back to it has one left (broker.rs, delivery count; the
\* cap of the runtime): without the counts, AttemptsWithinCap is not inductive.
Attempts ==
    \A i \in Mounted :
        At(i).cap # 0 =>
            /\ \A o \in sent : Budget(i, o, At(i).cap)
            /\ \A m \in queue : m.node = Node(At(i)) =>
                  Budget(i, m.origin, Deliveries(m) - 1) /\ Budget(i, m.origin, At(i).cap - 1)
            /\ \A c \in copies : Reached(c.to) = {Node(At(i))} =>
                  Budget(i, c.message.origin, Deliveries(c.message) - 1)
                  /\ Budget(i, c.message.origin, At(i).cap - 1)
            /\ \A r \in DOMAIN runs : runs[r].mount = i /\ Holds(r) =>
                  \A m \in runs[r].messages : Budget(i, m.origin, Deliveries(m))

\* A message that a posting handler has had never goes to another node.
Stays ==
    \A r \in DOMAIN runs : Handler(r) \in MayPost =>
        \A m \in runs[r].messages :
            /\ \A n \in queue : n.origin = m.origin => n.node = m.node
            /\ \A c \in copies : c.message.origin = m.origin => Reached(c.to) = {m.node}
            /\ \A q \in DOMAIN runs : Holds(q) =>
                  \A n \in runs[q].messages : n.origin = m.origin => n.node = m.node

\* All posts of the run are with their readers.
Whole(q) == runs[q].shown = Len(runs[q].plan.posts)

\* The run settled its messages with accepted.
Done(r) == runs[r].stage = "over" /\ runs[r].outcome = "ack"

\* A message that is accepted was so by a run whose posts all are with their readers.
Accepted ==
    \A r \in DOMAIN runs : Handler(r) \in MayPost =>
        \A m \in runs[r].messages :
            <<m.origin, "accepted">> \in ended =>
                \E q \in RunsOf(runs[r].mount, m.origin) : Done(q) /\ Whole(q)

\* A message that a committing handler has had is never rejected.
Rejected ==
    \A r \in DOMAIN runs : Handler(r) \in MayPost =>
        \A m \in runs[r].messages :
            <<m.origin, "rejected">> \in ended => runs[r].plan.ends # "commit"

\* The runs a crash cut off.
DeadOf(i, o) == {r \in RunsOf(i, o) : runs[r].stage = "dead"}

\* A crash cuts off one run of a mount for a message.
Died == \A i \in Mounted, o \in sent : ~SettledOnReceipt(i) => Cardinality(DeadOf(i, o)) <= crashes

\* A run that is done is the only one: its message is gone.
DoneOnce ==
    \A r \in DOMAIN runs : Done(r) /\ ~SettledOnReceipt(runs[r].mount) =>
        \A m \in runs[r].messages :
            /\ <<m.origin, "accepted">> \in ended
            /\ \A q \in RunsOf(runs[r].mount, m.origin) : Done(q) => q = r

-----------------------------------------------------------------------------
(* What the handlers plan.                                                 *)

\* The four shapes of a plan: a settlement without posts, a reply, ...
LEMMA ReturnFits ==
  ASSUME NEW handler, NEW outcome \in Outcomes,
         outcome = "later" => handler \in MayDelay
  PROVE  PlanFits(handler, Return(outcome))
  BY DEF PlanFits, Return, Outcomes

LEMMA ReplyFits ==
  ASSUME NEW handler \in MayPost, NEW to, NEW body \in Seq(STRING)
  PROVE  PlanFits(handler, Reply(to, body))
<1> DEFINE plan == Reply(to, body)
<1>1. plan = [Return("ack") EXCEPT !.posts = <<Message(to, body)>>]
  BY DEF Reply
<1>2. /\ plan.ends = "plain" /\ plan.outcome = "ack" /\ plan.unanswered = "retry"
      /\ plan.refused = "retry" /\ plan.endRefused = "retry"
      /\ plan.posts = <<Message(to, body)>>
  BY <1>1 DEF Return
<1>3. Len(plan.posts) = 1 /\ plan.posts[1].body = body
  BY <1>2 DEF Message
<1> HIDE DEF plan
<1>4. PlanFits(handler, plan)
  BY <1>2, <1>3 DEF PlanFits, Outcomes
<1> QED BY <1>4 DEF plan

\* ... a transaction that commits, and one that aborts.
LEMMA CommitFits ==
  ASSUME NEW handler \in MayPost, NEW posts,
         Len(posts) \in Nat, Len(posts) = 0 => posts = <<>>
  PROVE  PlanFits(handler, Commit(posts))
  BY DEF PlanFits, Commit, Return, Outcomes

LEMMA AbortFits ==
  ASSUME NEW handler \in MayPost, NEW posts, NEW endRefused \in {"retry", "drop"}
  PROVE  PlanFits(handler, Abort(posts, endRefused))
  BY DEF PlanFits, Abort, Return, Outcomes

\* An order without a void line is billed line by line.
LEMMA LinesOfSound ==
  ASSUME NEW order \in Seq(STRING), ~Contains(order, "void"), NEW to
  PROVE  /\ Lines(order, to) \in Seq({Message(to, <<>>)})
         /\ Len(Lines(order, to)) = Len(order)
<1>1. \A i \in 1..Len(order) : order[i] # "void"
  BY DEF Contains
<1>2. SelectInSeq(order, LAMBDA line : line = "void") = 0
  BY <1>1 DEF SelectInSeq
<1>3. Lines(order, to) = [i \in DOMAIN order |-> Message(to, <<>>)]
  BY <1>2 DEF Lines
<1>4. DOMAIN order = 1..Len(order) /\ Len(order) \in Nat
  OBVIOUS
<1> QED BY <1>3, <1>4

\* The transactions of billing, by the lines of an order.
LEMMA OrderFits ==
  ASSUME NEW order \in Seq(STRING)
  PROVE  /\ PlanFits("bill_with_ledger", BillWithLedger(order))
         /\ PlanFits("bill_invoices", BillInvoices(order))
<1>1. {"bill_with_ledger", "bill_invoices"} \subseteq MayPost
  BY DEF MayPost
<1>2. CASE Contains(order, "void")
  <2>1. BillWithLedger(order) = Abort(Lines(order, "ledger"), "drop")
    BY <1>2 DEF BillWithLedger
  <2>2. BillInvoices(order) = Abort(Lines(order, "invoices"), "retry")
    BY <1>2 DEF BillInvoices
  <2> QED BY <1>1, <2>1, <2>2, AbortFits
<1>3. CASE ~Contains(order, "void")
  <2> DEFINE ledger == Append(Lines(order, "ledger"), Message("invoices", <<>>))
             invoices == Lines(order, "invoices")
             M == {Message("ledger", <<>>), Message("invoices", <<>>)}
  <2>1. BillWithLedger(order) = Commit(ledger)
    BY <1>3 DEF BillWithLedger
  <2>2. BillInvoices(order) = Commit(invoices)
    BY <1>3 DEF BillInvoices
  <2>3. Lines(order, "ledger") \in Seq({Message("ledger", <<>>)})
    BY <1>3, LinesOfSound
  <2>4. invoices \in Seq({Message("invoices", <<>>)})
    BY <1>3, LinesOfSound
  <2>5. Len(ledger) \in Nat /\ Len(ledger) # 0
    <3>1. Lines(order, "ledger") \in Seq(M)
      BY <2>3
    <3> QED BY <3>1
  <2>6. Len(invoices) \in Nat /\ (Len(invoices) = 0 => invoices = <<>>)
    BY <2>4
  <2> HIDE DEF ledger, invoices
  <2> QED BY <1>1, <2>1, <2>2, <2>5, <2>6, CommitFits
<1> QED BY <1>2, <1>3

\* Booking is one that aborts.
LEMMA BookFits == PlanFits("book", Book)
<1>1. Len(<<Message("ledger", <<>>)>>) = 1
  OBVIOUS
<1>2. "book" \in MayPost
  BY DEF MayPost
<1> QED BY <1>1, <1>2, CommitFits DEF Book

\* Pricing asks, and gives up or puts the order off without an answer.
LEMMA AskingFits ==
  ASSUME NEW order \in Seq(STRING)
  PROVE  PlanFits("price_order", PriceOrder(order))
<1> DEFINE reply == Reply("orders.priced", order)
<1>1. "price_order" \in MayPost /\ "price_order" \in MayDelay
  BY DEF MayPost, MayDelay
<1>2. PlanFits("price_order", reply)
  BY <1>1, ReplyFits
<1>3. reply = [ask |-> reply.ask, unanswered |-> reply.unanswered, posts |-> reply.posts,
               ends |-> reply.ends, outcome |-> reply.outcome, refused |-> reply.refused,
               endRefused |-> reply.endRefused]
  BY DEF Reply, Return
<1> HIDE DEF reply
<1>4. PlanFits("price_order", [reply EXCEPT !.ask = "prices.quote", !.unanswered = "later"])
  BY <1>1, <1>2, <1>3 DEF PlanFits
<1> QED BY <1>4 DEF PriceOrder, reply

\* Shipping posts one after another, without a transaction.
LEMMA ShipFits == PlanFits("ship", Ship)
<1> DEFINE reply == Reply("warehouse", <<>>)
<1>1. "ship" \in MayPost /\ <<>> \in Seq(STRING)
  BY DEF MayPost
<1>2. PlanFits("ship", reply)
  BY <1>1, ReplyFits
<1>3. reply = [ask |-> reply.ask, unanswered |-> reply.unanswered, posts |-> reply.posts,
               ends |-> reply.ends, outcome |-> reply.outcome, refused |-> reply.refused,
               endRefused |-> reply.endRefused] /\ reply.ends = "plain"
  BY DEF Reply, Return
<1> HIDE DEF reply
<1>4. PlanFits("ship", [reply EXCEPT !.refused = "drop"])
  BY <1>1, <1>2, <1>3 DEF PlanFits
<1> QED BY <1>4 DEF Ship, reply

LEMMA RepliesFit ==
  /\ PlanFits("take_order", TakeOrder)
  /\ PlanFits("ship_traced", ShipTraced)
  /\ PlanFits("ship_keyed", ShipKeyed)
  /\ PlanFits("confirm_order", ConfirmOrder)
  /\ PlanFits("issue_receipt", IssueReceipt)
  /\ \A asked \in BOOLEAN : PlanFits("confirm", Confirm(asked))
  /\ \A body \in Seq(STRING), asked \in BOOLEAN : PlanFits("quote", Quote(body, asked))
  /\ \A body \in Seq(STRING), asked \in BOOLEAN : PlanFits("greet", Greet(body, asked))
<1>1. \A h \in MayPost, body \in Seq(STRING) : \A to : PlanFits(h, Reply(to, body))
  BY ReplyFits
<1>2. \A h : PlanFits(h, Return("drop"))
  BY ReturnFits DEF Outcomes
<1>3. <<>> \in Seq(STRING)
  OBVIOUS
<1>4. {"take_order", "ship_traced", "ship_keyed", "confirm_order", "issue_receipt",
       "confirm", "quote", "greet"} \subseteq MayPost
  BY DEF MayPost
<1> QED BY <1>1, <1>2, <1>3, <1>4, Zenon
      DEF TakeOrder, ShipTraced, ShipKeyed, ConfirmOrder, IssueReceipt, Confirm, Quote, Greet

LEMMA ReturnsFit ==
  /\ \A body : PlanFits("process_refund", ProcessRefund(body))
  /\ \A body : PlanFits("charge", Charge(body))
  /\ \A body, b : PlanFits("charge_at_gateway", ChargeAtGateway(body, b))
  /\ \A body : PlanFits("pick", Pick(body))
  /\ \A body : PlanFits("record", Record(body))
  /\ \A body : PlanFits("take_first_order", TakeFirstOrder(body))
  /\ \A body : PlanFits("accept", Accept(body))
  /\ PlanFits("welcome", Welcome)
  /\ \A h : PlanFits(h, Return("ack"))
<1>1. \A h : \A outcome \in Outcomes \ {"later"} : PlanFits(h, Return(outcome))
  BY ReturnFits
<1>2. \A h \in {"process_refund", "charge"} : PlanFits(h, Return("later"))
  BY ReturnFits DEF Outcomes, MayDelay
<1>3. \A body : PlanFits("process_refund", ProcessRefund(body))
  <2> SUFFICES ASSUME NEW body PROVE PlanFits("process_refund", ProcessRefund(body))
    OBVIOUS
  <2>1. [Ok |-> "ack", Busy |-> "later", Unavailable |-> "retry",
         Declined |-> "drop"][SendRefund(body)] \in Outcomes
    BY DEF SendRefund, Outcomes
  <2> QED BY <2>1, <1>1, <1>2 DEF ProcessRefund
<1>4. \A body : ChargeCard(body) \in Outcomes
  BY DEF ChargeCard, Outcomes
<1>5. \A body : PlanFits("charge", Charge(body))
  BY <1>1, <1>2, <1>4 DEF Charge
<1>6. PlanFits("welcome", Welcome)
  <2>1. Welcome = [ask |-> "greeter", unanswered |-> "retry", posts |-> <<>>,
                   ends |-> "plain", outcome |-> "ack", refused |-> "retry",
                   endRefused |-> "retry"]
    BY DEF Welcome, Return
  <2> QED BY <2>1 DEF PlanFits, Outcomes
<1>7. {"ack", "drop", "retry"} \subseteq Outcomes \ {"later"}
  BY DEF Outcomes
<1> QED BY <1>1, <1>3, <1>5, <1>6, <1>7
      DEF ChargeAtGateway, Pick, Record, TakeFirstOrder, Accept

\* Whatever a handler is given, its plan is one of those.
LEMMA PlanFit ==
  ASSUME NEW handler, NEW m, m.body \in Seq(STRING)
  PROVE  PlanFits(handler, Plan(handler, m))
<1>1. Asked(m) \in BOOLEAN
  BY DEF Asked
<1>2. CASE handler \in {"book", "ship", "price_order", "bill_with_ledger", "bill_invoices"}
  BY <1>2, BookFits, ShipFits, AskingFits, OrderFits DEF Plan
<1>3. CASE handler \in {"take_order", "ship_traced", "ship_keyed", "confirm_order",
                        "issue_receipt", "confirm", "quote", "greet"}
  BY <1>3, <1>1, RepliesFit DEF Plan
<1>4. CASE handler \in {"process_refund", "charge", "charge_at_gateway", "pick", "record",
                        "take_first_order", "accept", "welcome"}
  BY <1>4, ReturnsFit DEF Plan
<1>5. CASE handler \notin {"book", "ship", "price_order", "bill_with_ledger", "bill_invoices",
                        "take_order", "ship_traced", "ship_keyed", "confirm_order",
                        "issue_receipt", "confirm", "quote", "greet",
                        "process_refund", "charge", "charge_at_gateway", "pick", "record",
                        "take_first_order", "accept", "welcome"}
  <2>1. Plan(handler, m) = Return("ack")
    BY <1>5 DEF Plan
  <2> QED BY <2>1, ReturnsFit
<1> QED BY <1>2, <1>3, <1>4, <1>5

\* What a handler that posts plans depends on nothing but the body and who asked.
LEMMA SamePlan ==
  ASSUME NEW handler \in MayPost, NEW m, NEW n, m.body = n.body, m.asker = n.asker
  PROVE  Plan(handler, m) = Plan(handler, n)
<1>1. handler # "charge_at_gateway"
  BY DEF MayPost
<1> QED BY <1>1 DEF Plan, Asked

\* It does not change from one step to the next.
LEMMA PlanStays ==
  ASSUME NEW handler \in MayPost, NEW m
  PROVE  Plan(handler, m)' = Plan(handler, m)
<1>1. handler # "charge_at_gateway"
  BY DEF MayPost
<1> QED BY <1>1 DEF Plan, Asked

-----------------------------------------------------------------------------
(* How services are mounted.                                               *)

\* What ServicesAssumption says of the service that runs.
Mounting(i) ==
    /\ At(i).cap \in Nat
    /\ At(i).cap # 0 \/ At(i).handler \in MayPost =>
          \A j \in Mounted : Node(At(j)) = Node(At(i)) => j = i
    /\ (At(i).cap # 0 \/ At(i).handler \in MayDelay) /\ ~SettledOnReceipt(i) =>
          Reached(At(i).from.address) = {Node(At(i))}
    /\ At(i).cap # 0 /\ At(i).dead # NoAddress /\ ~SettledOnReceipt(i) =>
          \E n : /\ Reached(At(i).dead) = {n}
                 /\ \A j \in Mounted : Node(At(j)) = n => At(j).cap = 0
    /\ At(i).handler \in MayPost =>
          At(i).cap = 0 /\ At(i).batch = 1 /\ ~SettledOnReceipt(i)

LEMMA MountingHolds ==
  ASSUME service \in Offered
  PROVE  /\ \A i \in Mounted : Mounting(i)
         /\ IsFiniteSet(Mounted)
         /\ \A input \in service.inputs : input.body \in Seq(STRING)
<1>1. WellMounted(service)
  BY ServicesAssumption
<1>2. IsFiniteSet(Mounted)
  <2>1. Mounted = 1..Len(service.mounts) /\ Len(service.mounts) \in Nat
    BY <1>1 DEF WellMounted, Mounted
  <2> QED BY <2>1, FS_Interval
<1>3. ASSUME NEW i \in Mounted PROVE Mounting(i)
  <2> DEFINE mount == service.mounts[i]
  <2>1. /\ mount.cap \in Nat
        /\ mount.cap # 0 \/ mount.handler \in MayPost => Alone(service, i)
        /\ mount.cap # 0 \/ mount.handler \in MayDelay =>
              OnReceipt(mount) \/ ComesBack(service, mount)
        /\ mount.cap # 0 /\ mount.dead # NoAddress =>
              OnReceipt(mount) \/ DeadLettersArrive(service, mount)
        /\ mount.handler \in MayPost =>
              mount.cap = 0 /\ mount.batch = 1 /\ ~OnReceipt(mount)
    BY <1>1 DEF WellMounted, Mounted
  <2>2. At(i) = mount
    BY DEF At
  <2>3. Alone(service, i) => \A j \in Mounted : Node(At(j)) = Node(mount) => j = i
    BY DEF Alone, Mounted, At
  <2>4. DeadLettersArrive(service, mount) =>
          \E n : /\ Reached(mount.dead) = {n}
                 /\ \A j \in Mounted : Node(At(j)) = n => At(j).cap = 0
    BY Zenon DEF DeadLettersArrive, Mounted, At, Reached
  <2>5. ComesBack(service, mount) => Reached(mount.from.address) = {Node(mount)}
    BY DEF ComesBack, Reached
  <2>6. SettledOnReceipt(i) <=> OnReceipt(mount)
    BY <2>2 DEF SettledOnReceipt
  <2> HIDE DEF mount
  <2> QED BY <2>1, <2>2, <2>3, <2>4, <2>5, <2>6 DEF Mounting
<1> QED BY <1>1, <1>2, <1>3 DEF WellMounted

\* The image of a finite set is finite.
LEMMA ImageIsFinite ==
  ASSUME NEW f, IsFiniteSet(DOMAIN f), f = [x \in DOMAIN f |-> f[x]]
  PROVE  IsFiniteSet({f[x] : x \in DOMAIN f})
<1> DEFINE T == {f[x] : x \in DOMAIN f}
<1>1. f \in Surjection(DOMAIN f, T)
  BY DEF Surjection
<1> QED BY <1>1, FS_Surjection

\* An address reaches finitely many nodes.
LEMMA ReachedFinite ==
  ASSUME service \in Offered, NEW address
  PROVE  IsFiniteSet(Reached(address))
<1> DEFINE D == {j \in Mounted : At(j).from.address \in {address} \cup Bound(address)}
<1>1. IsFiniteSet(D)
  BY MountingHolds, FS_Subset, Zenon
<1>2. Reached(address) = {Node(At(i)) : i \in D}
  BY DEF Reached, ReachedIn, Mounted, At
<1> DEFINE f == [i \in D |-> Node(At(i))]
<1>3. Reached(address) = {f[i] : i \in DOMAIN f} /\ DOMAIN f = D /\ f = [i \in DOMAIN f |-> f[i]]
  BY <1>2
<1> HIDE DEF D, f
<1> QED BY <1>1, <1>3, ImageIsFinite

-----------------------------------------------------------------------------
(* Steps that settle nothing: the runs go on and new messages arrive.      *)

\* The queue grows by messages of origins of their own.
Grows(ms) ==
    /\ queue' = queue \cup ms
    /\ sent' = sent \cup {m.origin : m \in ms}
    /\ last' \in {last, last + 1}
    /\ IsFiniteSet(ms)
    /\ \A m \in ms :
          /\ MessageTyped(m)
          /\ last' = last + 1
          /\ m.origin = <<last + 1, m.node>>
          /\ Deliveries(m) = 1
    /\ \A m, n \in ms : m.origin = n.origin => m = n

\* A run that is not over is still the run it was, and nothing else changes.
RunGoesOn(x, y) ==
    /\ RunTyped(y)
    /\ y.mount = x.mount /\ y.messages = x.messages /\ y.plan = x.plan
    /\ IF x.stage \in {"over", "dead"} THEN y = x ELSE y.stage \notin {"over", "dead"}

\* A step that neither takes nor settles a message.
GoesOn ==
    /\ \E ms : Grows(ms)
    /\ DOMAIN runs' = DOMAIN runs
    /\ \A r \in DOMAIN runs : RunGoesOn(runs[r], runs'[r])
    /\ UNCHANGED <<service, copies, ended, replaced, crashes>>

\* A message that lands has a number and a node of its own.
LEMMA LandedIs ==
  ASSUME NEW m, NEW n, DOMAIN m = MessageFields
  PROVE  /\ DOMAIN Landed(m, n) = MessageFields
         /\ Landed(m, n).node = n
         /\ Landed(m, n).origin = IF m.origin = <<>> THEN <<last + 1, n>> ELSE m.origin
         /\ Landed(m, n).body = m.body
         /\ Landed(m, n).count = m.count
         /\ Landed(m, n).tries = m.tries
         /\ Landed(m, n).asker = m.asker
  BY DEF Landed, MessageFields

\* What a program, a handler or a request sends makes the queue grow, or nothing does.
LEMMA NewArrivals ==
  ASSUME Typed, NEW to, NEW body \in Seq(STRING), NEW count \in {NoHeader, 0}, NEW asker,
         Arrive(Arrivals(to, Fresh(body, count, asker)))
  PROVE  \E ms : Grows(ms)
<1> DEFINE fresh == Fresh(body, count, asker)
           f == [n \in Reached(to) |-> Landed(fresh, n)]
           ms == {f[n] : n \in DOMAIN f}
<1>1. Arrivals(to, fresh) = ms
  BY DEF Arrivals
<1>2. IsFiniteSet(ms)
  <2>1. DOMAIN f = Reached(to) /\ f = [n \in DOMAIN f |-> f[n]]
    OBVIOUS
  <2>2. IsFiniteSet(Reached(to))
    BY ReachedFinite DEF Typed
  <2> HIDE DEF f
  <2> QED BY <2>1, <2>2, ImageIsFinite
<1>3. /\ DOMAIN fresh = MessageFields /\ fresh.origin = <<>> /\ fresh.body = body
      /\ fresh.count = count /\ fresh.tries = 0
  BY DEF Fresh, MessageFields
<1>4. queue' = queue \cup ms /\ last' = last + 1 /\ sent' = sent \cup {m.origin : m \in ms}
  BY <1>1 DEF Arrive
<1>5. \A m \in ms : \E n : m = Landed(fresh, n)
  OBVIOUS
<1> HIDE DEF fresh, ms
<1>6. ASSUME NEW n
      PROVE  LET m == Landed(fresh, n)
             IN  /\ MessageTyped(m) /\ Deliveries(m) = 1 /\ m.node = n
                 /\ m.origin = <<last + 1, n>>
  <2> DEFINE m == Landed(fresh, n)
  <2>1. /\ DOMAIN m = MessageFields /\ m.node = n /\ m.origin = <<last + 1, n>>
        /\ m.body = body /\ m.count = count /\ m.tries = 0
    BY <1>3, LandedIs
  <2> HIDE DEF m
  <2>2. MessageTyped(m) /\ Deliveries(m) = 1
    BY <2>1 DEF MessageTyped, Deliveries, NoHeader
  <2> QED BY <2>1, <2>2 DEF m
<1>7. \A m \in ms : MessageTyped(m) /\ m.origin = <<last + 1, m.node>> /\ Deliveries(m) = 1
  BY <1>5, <1>6
<1>8. \A m, n \in ms : m.origin = n.origin => m = n
  BY <1>5, <1>6
<1> QED BY <1>2, <1>4, <1>7, <1>8 DEF Grows

LEMMA NothingArrives ==
  ASSUME UNCHANGED <<queue, last, sent>>
  PROVE  \E ms : Grows(ms)
<1>1. Grows({})
  BY FS_EmptySet DEF Grows
<1> QED BY <1>1

\* A run that waited for an answer goes on.
Resumed(x, y) == x.stage = "waiting" /\ y = [x EXCEPT !.stage = "running"]

\* What became of the run that takes a step, and of the others.
Became(r, posted, shown, stage, outcome) ==
    /\ DOMAIN runs' = DOMAIN runs
    /\ \A q \in DOMAIN runs \ {r} : runs'[q] = runs[q] \/ Resumed(runs[q], runs'[q])
    /\ DOMAIN runs'[r] = DOMAIN runs[r]
    /\ runs'[r].mount = runs[r].mount
    /\ runs'[r].messages = runs[r].messages
    /\ runs'[r].plan = runs[r].plan
    /\ runs'[r].posted = posted
    /\ runs'[r].shown = shown
    /\ runs'[r].stage = stage
    /\ runs'[r].outcome = outcome

\* A run that returns is to settle.
LEMMA ReturnsBecame ==
  ASSUME Typed, NEW r \in DOMAIN runs, NEW outcome, Returns(r, outcome)
  PROVE  Became(r, runs[r].posted, runs[r].shown, "settling", outcome)
<1>1. DOMAIN runs[r] = RunFields
  BY DEF Typed, RunTyped
<1>2. /\ DOMAIN runs' = DOMAIN runs
      /\ \A q \in DOMAIN runs \ {r} : runs'[q] = runs[q]
      /\ runs'[r] = [runs[r] EXCEPT !.stage = "settling", !.outcome = outcome]
  BY DEF Returns
<1> QED BY <1>1, <1>2 DEF Became, RunFields

\* A run that takes such a step goes on.
LEMMA BecameGoesOn ==
  ASSUME Typed, NEW r \in DOMAIN runs, Live(r),
         NEW posted \in Nat, NEW shown \in Nat, NEW stage \in Stages \ {"over", "dead"},
         NEW outcome \in Outcomes, Became(r, posted, shown, stage, outcome)
  PROVE  DOMAIN runs' = DOMAIN runs /\ \A q \in DOMAIN runs : RunGoesOn(runs[q], runs'[q])
<1>1. \A q \in DOMAIN runs : RunTyped(runs[q])
  BY DEF Typed
<1>2. RunGoesOn(runs[r], runs'[r])
  BY <1>1 DEF Became, RunGoesOn, RunTyped, Live, Stages
<1>3. ASSUME NEW q \in DOMAIN runs \ {r} PROVE RunGoesOn(runs[q], runs'[q])
  <2> DEFINE x == runs[q]
             y == runs'[q]
  <2>1. RunTyped(x)
    BY <1>1
  <2>2. y = x \/ Resumed(x, y)
    BY <1>3 DEF Became
  <2> HIDE DEF x, y
  <2>3. ASSUME y = x PROVE RunGoesOn(x, y)
    BY <2>1, <2>3 DEF RunGoesOn, RunTyped
  <2>4. ASSUME Resumed(x, y) PROVE RunGoesOn(x, y)
    <3>1. DOMAIN x = RunFields /\ x.stage = "waiting" /\ y = [x EXCEPT !.stage = "running"]
      BY <2>1, <2>4 DEF RunTyped, Resumed
    <3>2. /\ DOMAIN y = RunFields /\ y.mount = x.mount /\ y.messages = x.messages
          /\ y.plan = x.plan /\ y.posted = x.posted /\ y.shown = x.shown
          /\ y.stage = "running" /\ y.outcome = x.outcome
      BY <3>1 DEF RunFields
    <3> QED BY <2>1, <3>1, <3>2 DEF RunGoesOn, RunTyped, Stages
  <2> QED BY <2>2, <2>3, <2>4 DEF x, y
<1> QED BY <1>2, <1>3 DEF Became

\* It is as far as its new stage says, and no other run is concerned.
LEMMA BecamePhased ==
  ASSUME Typed, Phased, NEW r \in DOMAIN runs, NEW posted, NEW shown, NEW stage, NEW outcome,
         Became(r, posted, shown, stage, outcome), Phase(runs'[r]), service' = service
  PROVE  Phased'
<1>1. DOMAIN runs' = DOMAIN runs
  BY DEF Became
<1>2. SUFFICES ASSUME NEW q \in DOMAIN runs
      PROVE  PlanFits(Handler(q)', runs'[q].plan) /\ Phase(runs'[q])
  BY <1>1 DEF Phased
<1>3. PlanFits(Handler(q), runs[q].plan) /\ Phase(runs[q])
  BY DEF Phased
<1>4. Handler(q)' = Handler(q) <=> At(runs'[q].mount).handler = At(runs[q].mount).handler
  BY DEF Handler, At
<1>5. CASE q = r
  BY <1>3, <1>4, <1>5 DEF Became
<1>6. CASE q # r
  <2> DEFINE x == runs[q]
             y == runs'[q]
  <2>1. DOMAIN x = RunFields
    BY DEF Typed, RunTyped
  <2>2. y = x \/ Resumed(x, y)
    BY <1>6 DEF Became
  <2>3. PlanFits(Handler(q), x.plan) /\ Phase(x)
    BY <1>3
  <2>4. y.mount = x.mount => Handler(q)' = Handler(q)
    BY <1>4
  <2> HIDE DEF x, y
  <2>5. ASSUME y = x PROVE PlanFits(Handler(q)', y.plan) /\ Phase(y)
    BY <2>3, <2>4, <2>5
  <2>6. ASSUME Resumed(x, y) PROVE PlanFits(Handler(q)', y.plan) /\ Phase(y)
    <3>1. /\ x.stage = "waiting"
          /\ y.mount = x.mount
          /\ y.plan = x.plan /\ y.posted = x.posted /\ y.shown = x.shown
          /\ y.stage = "running" /\ y.outcome = x.outcome
      BY <2>1, <2>6 DEF Resumed, RunFields
    <3>2. Phase(y)
      BY <2>3, <3>1 DEF Phase
    <3> QED BY <2>3, <2>4, <3>1, <3>2
  <2>7. PlanFits(Handler(q)', y.plan) /\ Phase(y)
    BY <2>2, <2>5, <2>6
  <2> QED BY <2>7 DEF y
<1> QED BY <1>5, <1>6

\* No run takes a step.
LEMMA SameRuns ==
  ASSUME Typed, Phased, UNCHANGED <<service, runs>>
  PROVE  /\ DOMAIN runs' = DOMAIN runs
         /\ \A r \in DOMAIN runs : RunGoesOn(runs[r], runs'[r])
         /\ Phased'
<1>1. \A r \in DOMAIN runs : RunGoesOn(runs[r], runs'[r])
  BY DEF Typed, RunGoesOn
<1>2. Phased'
  BY DEF Phased, Handler, At
<1> QED BY <1>1, <1>2

\* The steps that settle nothing: Produce, Ask, TimeOut, OpenFails, Post,
\* PostFails, and the end of a transaction.
LEMMA ProduceGoesOn ==
  ASSUME Typed, Phased, Produce
  PROVE  GoesOn /\ Phased'
<1>1. PICK input \in service.inputs, count \in {NoHeader, 0} :
        Arrive(Arrivals(input.to, Fresh(input.body, count, NoRun)))
  BY DEF Produce
<1>2. input.body \in Seq(STRING)
  BY MountingHolds DEF Typed
<1>3. \E ms : Grows(ms)
  BY <1>1, <1>2, NewArrivals
<1>4. UNCHANGED <<service, runs, copies, ended, replaced, crashes>>
  BY DEF Produce
<1> QED BY <1>3, <1>4, SameRuns DEF GoesOn

\* The one message of a run, or some message of a batch.
First(r) == CHOOSE m \in runs[r].messages : TRUE

LEMMA FirstTyped ==
  ASSUME Typed, NEW r \in DOMAIN runs
  PROVE  First(r) \in runs[r].messages /\ MessageTyped(First(r))
<1>1. First(r) \in runs[r].messages
  BY DEF First, Typed
<1>2. First(r) \in Everywhere
  BY <1>1 DEF Everywhere
<1> QED BY <1>1, <1>2 DEF Typed

LEMMA AskGoesOn ==
  ASSUME Typed, Phased, NEW r \in DOMAIN runs, Ask(r)
  PROVE  GoesOn /\ Phased'
<1> DEFINE x == runs[r]
<1>1. Arrive(Arrivals(x.plan.ask, Fresh(First(r).body, NoHeader, r)))
  BY DEF Ask, First
<1>2. \E ms : Grows(ms)
  BY <1>1, FirstTyped, NewArrivals DEF MessageTyped
<1>3. RunTyped(x) /\ x.stage = "asking" /\ Phase(x)
  BY DEF Typed, Phased, Ask
<1>4. runs' = [runs EXCEPT ![r].stage = "waiting"]
  BY DEF Ask
<1>5. Became(r, x.posted, x.shown, "waiting", x.outcome)
  BY <1>3, <1>4 DEF Became, RunTyped, RunFields
<1>6. Phase(runs'[r])
  BY <1>3, <1>5 DEF Phase, Became
<1>7. UNCHANGED <<service, copies, ended, replaced, crashes>>
  BY DEF Ask
<1>8. Live(r) /\ "waiting" \in Stages \ {"over", "dead"} /\ x.posted \in Nat /\ x.shown \in Nat
      /\ x.outcome \in Outcomes
  BY <1>3 DEF Live, RunTyped, Stages
<1> HIDE DEF x
<1> QED BY <1>2, <1>5, <1>6, <1>7, <1>8, BecameGoesOn, BecamePhased DEF GoesOn

\* A run that goes on to its settlement with another outcome than it planned.
LEMMA ReturnsPhase ==
  ASSUME Typed, Phased, NEW r \in DOMAIN runs, Live(r), NEW outcome,
         runs[r].stage \in {"asking", "waiting", "running"}, service' = service,
         outcome \in {"retry", "drop", "later"},
         outcome = "drop" => runs[r].plan.ends # "commit",
         outcome = "later" => runs[r].plan.unanswered = "later",
         Returns(r, outcome)
  PROVE  /\ DOMAIN runs' = DOMAIN runs
         /\ \A q \in DOMAIN runs : RunGoesOn(runs[q], runs'[q])
         /\ Phased'
<1> DEFINE x == runs[r]
<1>1. RunTyped(x) /\ Phase(x) /\ PlanFits(Handler(r), x.plan)
  BY DEF Typed, Phased
<1>2. Became(r, x.posted, x.shown, "settling", outcome)
  BY ReturnsBecame
<1>3. Phase(runs'[r])
  BY <1>1, <1>2 DEF Phase, Became
<1>4. "settling" \in Stages \ {"over", "dead"} /\ x.posted \in Nat /\ x.shown \in Nat
      /\ outcome \in Outcomes
  BY <1>1 DEF RunTyped, Stages, Outcomes
<1> HIDE DEF x
<1>5. Phased'
  BY <1>2, <1>3, BecamePhased
<1> QED BY <1>2, <1>4, <1>5, BecameGoesOn

LEMMA TimeOutGoesOn ==
  ASSUME Typed, Phased, NEW r \in DOMAIN runs, TimeOut(r)
  PROVE  GoesOn /\ Phased'
<1>1. PlanFits(Handler(r), runs[r].plan)
  BY DEF Phased
<1>2. /\ runs[r].stage \in {"asking", "waiting"}
      /\ Returns(r, runs[r].plan.unanswered)
      /\ UNCHANGED <<world, queue, copies, ended, replaced, crashes>>
  BY DEF TimeOut
<1>3. Live(r)
  BY <1>2 DEF Live
<1>4. \E ms : Grows(ms)
  BY <1>2, NothingArrives DEF world
<1>5. service' = service
  BY <1>2 DEF world
<1>6. runs[r].plan.unanswered \in {"retry", "later"}
  BY <1>1 DEF PlanFits
<1> QED BY <1>2, <1>3, <1>4, <1>5, <1>6, ReturnsPhase DEF GoesOn

LEMMA OpenFailsGoesOn ==
  ASSUME Typed, Phased, NEW r \in DOMAIN runs, OpenFails(r)
  PROVE  GoesOn /\ Phased'
<1>2. /\ runs[r].stage = "running"
      /\ Returns(r, "retry")
      /\ UNCHANGED <<world, queue, copies, ended, replaced, crashes>>
  BY DEF OpenFails
<1>3. Live(r)
  BY <1>2 DEF Live
<1>4. \E ms : Grows(ms)
  BY <1>2, NothingArrives DEF world
<1>5. service' = service
  BY <1>2 DEF world
<1> QED BY <1>2, <1>3, <1>4, <1>5, ReturnsPhase DEF GoesOn

\* What a post that arrives does to the runs, and to the queue.
LEMMA ArrivedIs ==
  ASSUME Typed, Phased, NEW r \in DOMAIN runs, Posting(r), NEW stage, NEW outcome,
         Arrived(r, stage, outcome)
  PROVE  /\ Became(r, runs[r].posted + 1,
                   IF Inside(r) THEN runs[r].shown ELSE runs[r].shown + 1, stage, outcome)
         /\ \E ms : Grows(ms)
<1> DEFINE x == runs[r]
           shown == IF Inside(r) THEN x.shown ELSE x.shown + 1
           message == x.plan.posts[x.posted + 1]
           asker == First(r).asker
           after == [runs EXCEPT ![r].posted = @ + 1, ![r].stage = stage, ![r].outcome = outcome,
                                 ![r].shown = IF Inside(r) THEN @ ELSE @ + 1]
<1>1. DOMAIN x = RunFields /\ x.posted \in Nat /\ x.stage = "running" /\ x.posted < Len(x.plan.posts)
  BY DEF Typed, RunTyped, Posting
<1>2. /\ DOMAIN after = DOMAIN runs
      /\ \A q \in DOMAIN runs \ {r} : after[q] = runs[q]
      /\ DOMAIN after[r] = DOMAIN x /\ after[r].mount = x.mount
      /\ after[r].messages = x.messages /\ after[r].plan = x.plan
      /\ after[r].posted = x.posted + 1 /\ after[r].shown = shown
      /\ after[r].stage = stage /\ after[r].outcome = outcome
  BY <1>1 DEF RunFields
<1>3. \/ /\ runs' = IF runs[asker].stage = "waiting"
                    THEN [after EXCEPT ![asker].stage = "running"] ELSE after
         /\ UNCHANGED <<queue, last, sent>>
      \/ /\ runs' = after
         /\ UNCHANGED <<queue, last, sent>>
      \/ /\ runs' = after
         /\ ~Inside(r)
         /\ Arrive(Arrivals(message.to, Fresh(message.body, NoHeader, NoRun)))
  BY DEF Arrived, First
<1>4. ASSUME runs' = after PROVE Became(r, x.posted + 1, shown, stage, outcome)
  <2> HIDE DEF after, shown
  <2> QED BY <1>2, <1>4 DEF Became
<1>5. ASSUME runs' = [after EXCEPT ![asker].stage = "running"], runs[asker].stage = "waiting"
      PROVE  Became(r, x.posted + 1, shown, stage, outcome)
  <2>1. asker # r
    BY <1>1, <1>5
  <2> HIDE DEF after, shown, asker
  <2>2. DOMAIN runs' = DOMAIN after /\ \A q \in DOMAIN after \ {asker} : runs'[q] = after[q]
    BY <1>5
  <2>3. asker \in DOMAIN after => runs'[asker] = [after[asker] EXCEPT !.stage = "running"]
    BY <1>5
  <2>4. \A q \in DOMAIN runs \ {r} : runs'[q] = runs[q] \/ Resumed(runs[q], runs'[q])
    BY <1>2, <1>5, <2>1, <2>2, <2>3 DEF Resumed
  <2> QED BY <1>2, <2>1, <2>2, <2>4 DEF Became
<1>6. ASSUME ~Inside(r), Arrive(Arrivals(message.to, Fresh(message.body, NoHeader, NoRun)))
      PROVE  \E ms : Grows(ms)
  <2>1. PlanFits(Handler(r), x.plan) /\ x.plan.ends = "plain"
    BY <1>6 DEF Phased, Inside
  <2>2. Len(x.plan.posts) \in Nat /\ \A k \in 1..Len(x.plan.posts) : x.plan.posts[k].body \in Seq(STRING)
    BY <2>1 DEF PlanFits
  <2>3. x.posted + 1 \in 1..Len(x.plan.posts)
    <3> DEFINE most == Len(x.plan.posts)
               posted == x.posted
    <3>1. most \in Nat /\ posted \in Nat /\ posted < most
      BY <1>1, <2>2
    <3> HIDE DEF most, posted
    <3>2. posted + 1 \in 1..most
      BY <3>1
    <3> QED BY <3>2 DEF most, posted
  <2>4. message.body \in Seq(STRING)
    BY <2>2, <2>3
  <2> QED BY <1>6, <2>4, NewArrivals
<1> HIDE DEF after, asker, message
<1>7. Became(r, x.posted + 1, shown, stage, outcome)
  BY <1>3, <1>4, <1>5
<1>8. \E ms : Grows(ms)
  BY <1>3, <1>6, NothingArrives
<1> QED BY <1>7, <1>8

LEMMA PostGoesOn ==
  ASSUME Typed, Phased, NEW r \in DOMAIN runs, Post(r)
  PROVE  GoesOn /\ Phased'
<1> DEFINE x == runs[r]
           shown == IF Inside(r) THEN x.shown ELSE x.shown + 1
<1>1. Posting(r) /\ Arrived(r, "running", x.outcome)
      /\ UNCHANGED <<service, copies, ended, replaced, crashes>>
  BY DEF Post
<1>2. RunTyped(x) /\ x.stage = "running" /\ Phase(x) /\ (Inside(r) <=> x.plan.ends # "plain")
  BY <1>1 DEF Typed, Phased, Posting, Inside
<1>3. Became(r, x.posted + 1, shown, "running", x.outcome) /\ \E ms : Grows(ms)
  BY <1>1, ArrivedIs
<1>4. Live(r) /\ "running" \in Stages \ {"over", "dead"} /\ x.posted + 1 \in Nat /\ shown \in Nat
      /\ x.outcome \in Outcomes /\ x.posted \in Nat
  BY <1>2 DEF Live, RunTyped, Stages
<1>5. Phase(runs'[r])
  <2> DEFINE y == runs'[r]
  <2>1. /\ y.stage = "running" /\ y.posted = x.posted + 1 /\ y.shown = shown
        /\ y.outcome = x.outcome /\ y.plan = x.plan
    BY <1>3 DEF Became
  <2> HIDE DEF y, x
  <2>2. Phase(y)
    BY <1>2, <1>4, <2>1 DEF Phase
  <2> QED BY <2>2 DEF y
<1> HIDE DEF x, shown
<1>6. Phased'
  BY <1>1, <1>3, <1>5, BecamePhased
<1> QED BY <1>1, <1>3, <1>4, <1>6, BecameGoesOn DEF GoesOn

LEMMA PostFailsGoesOn ==
  ASSUME Typed, Phased, NEW r \in DOMAIN runs, PostFails(r)
  PROVE  GoesOn /\ Phased'
<1> DEFINE x == runs[r]
           shown == IF Inside(r) THEN x.shown ELSE x.shown + 1
<1>1. Posting(r) /\ UNCHANGED <<service, copies, ended, replaced, crashes>>
  BY DEF PostFails
<1>2. /\ RunTyped(x) /\ x.stage = "running" /\ Phase(x) /\ PlanFits(Handler(r), x.plan)
      /\ (Inside(r) <=> x.plan.ends # "plain")
  BY <1>1 DEF Typed, Phased, Posting, Inside
<1>3. Live(r)
  BY <1>2 DEF Live
<1>4. CASE /\ \E outcome \in {x.plan.refused, "retry"} : Returns(r, outcome)
           /\ UNCHANGED <<queue, last, sent>>
  <2>1. PICK outcome \in {x.plan.refused, "retry"} : Returns(r, outcome)
    BY <1>4
  <2>2. outcome \in {"retry", "drop"} /\ (outcome = "drop" => x.plan.ends # "commit")
    BY <1>2, <2>1 DEF PlanFits
  <2>3. \E ms : Grows(ms)
    BY <1>4, NothingArrives
  <2> QED BY <1>1, <1>2, <1>3, <2>1, <2>2, <2>3, ReturnsPhase DEF GoesOn
<1>5. CASE Arrived(r, "settling", "retry")
  <2>3. Became(r, x.posted + 1, shown, "settling", "retry") /\ \E ms : Grows(ms)
    BY <1>1, <1>5, ArrivedIs
  <2>4. "settling" \in Stages \ {"over", "dead"} /\ x.posted + 1 \in Nat /\ shown \in Nat
        /\ "retry" \in Outcomes
    BY <1>2 DEF RunTyped, Stages, Outcomes
  <2>5. Phase(runs'[r])
    <3> DEFINE y == runs'[r]
    <3>1. /\ y.stage = "settling" /\ y.posted = x.posted + 1 /\ y.shown = shown
          /\ y.outcome = "retry" /\ y.plan = x.plan
      BY <2>3 DEF Became
    <3> HIDE DEF y, x
    <3>2. Phase(y)
      BY <1>2, <3>1 DEF Phase
    <3> QED BY <3>2 DEF y
  <2> HIDE DEF x, shown
  <2>6. Phased'
    BY <1>1, <2>3, <2>5, BecamePhased
  <2> QED BY <1>1, <1>3, <2>3, <2>4, <2>6, BecameGoesOn DEF GoesOn
<1> QED BY <1>4, <1>5 DEF PostFails

LEMMA EndGoesOn ==
  ASSUME Typed, Phased, NEW r \in DOMAIN runs, End(r) \/ EndFails(r)
  PROVE  GoesOn /\ Phased'
<1> DEFINE x == runs[r]
<1>1. Posted(r) /\ UNCHANGED <<service, queue, last, sent, copies, ended, replaced, crashes>>
  BY DEF End, EndFails, world
<1>2. /\ RunTyped(x) /\ x.stage = "running" /\ x.posted = Len(x.plan.posts) /\ Phase(x)
      /\ PlanFits(Handler(r), x.plan)
      /\ (Inside(r) <=> x.plan.ends # "plain")
  BY <1>1 DEF Typed, Phased, Posted, Inside
<1>3. Live(r)
  BY <1>2 DEF Live
<1>4. \E ms : Grows(ms)
  BY <1>1, NothingArrives
<1>5. \E shown \in Nat, outcome \in Outcomes :
          /\ Became(r, x.posted, shown, "settling", outcome)
          /\ Phase(runs'[r])
  <2> DEFINE y == runs'[r]
  <2>1. ASSUME NEW shown \in Nat, NEW outcome \in Outcomes,
               /\ DOMAIN runs' = DOMAIN runs
               /\ \A q \in DOMAIN runs \ {r} : runs'[q] = runs[q],
               \/ runs'[r] = [x EXCEPT !.stage = "settling", !.shown = shown]
                  /\ outcome = x.outcome
               \/ runs'[r] = [x EXCEPT !.stage = "settling", !.shown = shown, !.outcome = outcome]
        PROVE  Became(r, x.posted, shown, "settling", outcome)
    BY <2>1, <1>2 DEF Became, RunTyped, RunFields
  <2>2. CASE End(r)
    <3> DEFINE shown == IF x.plan.ends = "commit" THEN x.posted ELSE x.shown
    <3>1. runs' = [runs EXCEPT ![r].stage = "settling", ![r].shown = shown]
      BY <2>2 DEF End
    <3>2. /\ DOMAIN runs' = DOMAIN runs
          /\ \A q \in DOMAIN runs \ {r} : runs'[q] = runs[q]
          /\ runs'[r] = [x EXCEPT !.stage = "settling", !.shown = shown]
      BY <3>1
    <3>3. shown \in Nat /\ x.outcome \in Outcomes
      BY <1>2 DEF RunTyped
    <3>4. Became(r, x.posted, shown, "settling", x.outcome)
      BY <2>1, <3>2, <3>3
    <3>5. Phase(y)
      <4>1. /\ y.stage = "settling" /\ y.posted = x.posted /\ y.shown = shown
            /\ y.outcome = x.outcome /\ y.plan = x.plan
        BY <3>4 DEF Became
      <4> HIDE DEF y, x
      <4> QED BY <1>2, <4>1 DEF Phase, PlanFits
    <3> QED BY <3>3, <3>4, <3>5
  <2>3. CASE EndFails(r)
    <3>1. PICK shown \in {0, x.posted} :
             /\ shown # 0 => x.plan.ends = "commit"
             /\ runs' = [runs EXCEPT ![r].stage = "settling", ![r].shown = shown,
                                     ![r].outcome = x.plan.endRefused]
      BY <2>3 DEF EndFails
    <3>2. /\ DOMAIN runs' = DOMAIN runs
          /\ \A q \in DOMAIN runs \ {r} : runs'[q] = runs[q]
          /\ runs'[r] = [x EXCEPT !.stage = "settling", !.shown = shown,
                                  !.outcome = x.plan.endRefused]
      BY <3>1
    <3>3. shown \in Nat /\ x.plan.endRefused \in Outcomes
      BY <1>2, <3>1 DEF RunTyped, PlanFits, Outcomes
    <3>4. Became(r, x.posted, shown, "settling", x.plan.endRefused)
      BY <2>1, <3>2, <3>3
    <3>5. Phase(y)
      <4>1. /\ y.stage = "settling" /\ y.posted = x.posted /\ y.shown = shown
            /\ y.outcome = x.plan.endRefused /\ y.plan = x.plan
        BY <3>4 DEF Became
      <4>2. Inside(r)
        BY <2>3 DEF EndFails
      <4>3. x.plan.endRefused \in {"retry", "drop"}
            /\ (x.plan.ends = "commit" => x.plan.endRefused = "retry")
        BY <1>2 DEF PlanFits
      <4>4. shown = 0 \/ shown = Len(x.plan.posts)
        BY <1>2, <3>1
      <4> HIDE DEF y, x
      <4> QED BY <1>2, <3>1, <4>1, <4>2, <4>3, <4>4 DEF Phase
    <3> QED BY <3>3, <3>4, <3>5
  <2> QED BY <2>2, <2>3
<1>6. x.posted \in Nat /\ "settling" \in Stages \ {"over", "dead"}
  BY <1>2 DEF RunTyped, Stages
<1> HIDE DEF x
<1>7. Phased'
  BY <1>1, <1>5, BecamePhased
<1> QED BY <1>1, <1>3, <1>4, <1>5, <1>6, <1>7, BecameGoesOn DEF GoesOn

-----------------------------------------------------------------------------
(* What such a step keeps.                                                 *)

\* The service that runs stays, and with it all that is read off its mounts.
LEMMA ServiceStays ==
  ASSUME service' = service
  PROVE  /\ Mounted' = Mounted
         /\ \A i : At(i)' = At(i)
         /\ \A i : SettledOnReceipt(i)' <=> SettledOnReceipt(i)
         /\ \A a : Reached(a)' = Reached(a)
<1>1. \A i : At(i)' = At(i)
  BY DEF At
<1>2. \A i : SettledOnReceipt(i)' <=> SettledOnReceipt(i)
  BY <1>1 DEF SettledOnReceipt
<1> QED BY <1>1, <1>2 DEF Mounted, Reached

\* Whoever holds messages still does.
LEMMA GoesOnHolds ==
  ASSUME GoesOn, NEW r \in DOMAIN runs
  PROVE  (Live(r)' <=> Live(r)) /\ (Holds(r)' <=> Holds(r))
<1>1. RunGoesOn(runs[r], runs'[r]) /\ service' = service
  BY DEF GoesOn
<1>2. Live(r)' <=> Live(r)
  BY <1>1 DEF Live, RunGoesOn
<1>3. runs'[r].mount = runs[r].mount
  BY <1>1 DEF RunGoesOn
<1>4. SettledOnReceipt(runs[r].mount)' <=> SettledOnReceipt(runs[r].mount)
  BY <1>1, <1>3 DEF SettledOnReceipt, At
<1> QED BY <1>2, <1>4 DEF Holds

\* There are the new messages besides those there were.
LEMMA GoesOnEverywhere ==
  ASSUME GoesOn, NEW ms, Grows(ms)
  PROVE  Everywhere' = Everywhere \cup ms
<1>1. /\ queue' = queue \cup ms
      /\ copies' = copies
      /\ DOMAIN runs' = DOMAIN runs
      /\ \A r \in DOMAIN runs : runs'[r].messages = runs[r].messages
  BY DEF GoesOn, Grows, RunGoesOn
<1>2. {runs'[r].messages : r \in DOMAIN runs'} = {runs[r].messages : r \in DOMAIN runs}
  BY <1>1
<1> QED BY <1>1, <1>2 DEF Everywhere

LEMMA TypedGoesOn ==
  ASSUME Typed, GoesOn
  PROVE  Typed'
<1> PICK ms : Grows(ms)
  BY DEF GoesOn
<1>1. Everywhere' = Everywhere \cup ms
  BY GoesOnEverywhere
<1>2. \A m \in Everywhere' : MessageTyped(m)
  BY <1>1 DEF Typed, Grows
<1>3. ASSUME NEW r \in DOMAIN runs
      PROVE  /\ RunTyped(runs'[r]) /\ runs'[r].mount \in Mounted' /\ runs'[r].messages # {}
  BY ServiceStays DEF Typed, GoesOn, RunGoesOn
<1>4. last' \in Nat
  BY DEF Typed, Grows
<1> QED BY <1>2, <1>3, <1>4 DEF Typed, GoesOn

LEMMA FiniteGoesOn ==
  ASSUME Finite, GoesOn
  PROVE  Finite'
<1> PICK ms : Grows(ms)
  BY DEF GoesOn
<1>1. IsFiniteSet(queue')
  BY FS_Union DEF Finite, Grows
<1> QED BY <1>1 DEF Finite, GoesOn, RunGoesOn

LEMMA NamedGoesOn ==
  ASSUME Named, GoesOn
  PROVE  Named'
  BY DEF Named, GoesOn

LEMMA KnownGoesOn ==
  ASSUME Typed, Known, GoesOn
  PROVE  Known'
<1> PICK ms : Grows(ms)
  BY DEF GoesOn
<1>1. Everywhere' = Everywhere \cup ms
  BY GoesOnEverywhere
<1>2. \A m \in Everywhere' : m.origin \in sent'
  BY <1>1 DEF Known, Grows
<1>3. \A e \in ended' : e[1] \in sent'
  BY DEF Known, GoesOn, Grows
<1>4. ASSUME NEW o \in sent' PROVE o = <<o[1], o[2]>> /\ o[1] \in Nat /\ o[1] <= last'
  <2>0. last \in Nat
    BY DEF Typed
  <2>1. CASE o \in sent
    <3>1. o = <<o[1], o[2]>> /\ o[1] \in Nat /\ o[1] <= last
      BY <2>1 DEF Known
    <3>2. last' \in {last, last + 1}
      BY DEF Grows
    <3> QED BY <2>0, <3>1, <3>2
  <2>2. ASSUME NEW m \in ms, o = m.origin PROVE o = <<o[1], o[2]>> /\ o[1] \in Nat /\ o[1] <= last'
    <3>1. o = <<last + 1, m.node>> /\ last' = last + 1
      BY <2>2 DEF Grows
    <3> QED BY <2>0, <3>1
  <2> QED BY <2>1, <2>2 DEF Grows
<1> QED BY <1>2, <1>3, <1>4 DEF Known

LEMMA OnNodeGoesOn ==
  ASSUME OnNode, GoesOn
  PROVE  OnNode'
  BY ServiceStays DEF OnNode, GoesOn, RunGoesOn

LEMMA CopyingGoesOn ==
  ASSUME Copying, GoesOn
  PROVE  Copying'
  BY ServiceStays DEF Copying, GoesOn

\* A message of an origin that was not there before.
LEMMA NewOrigins ==
  ASSUME Typed, Known, NEW ms, Grows(ms), NEW m \in ms
  PROVE  m.origin \notin sent
<1>1. m.origin = <<last + 1, m.node>> /\ last \in Nat
  BY DEF Typed, Grows
<1> QED BY <1>1 DEF Known

\* Only what was sent is anywhere.
LEMMA PlacesKnown ==
  ASSUME Known, NEW kind, NEW r, NEW x, NEW o, Place(kind, r, x, o)
  PROVE  o \in sent
<1>1. CASE kind = "queue" /\ x \in queue /\ x.origin = o
  BY <1>1 DEF Known, Everywhere
<1>2. CASE kind = "copy" /\ x \in copies /\ x.message.origin = o
  BY <1>2 DEF Known, Everywhere
<1>3. CASE kind = "run" /\ r \in DOMAIN runs /\ x \in runs[r].messages /\ x.origin = o
  BY <1>3 DEF Known, Everywhere
<1>4. CASE kind = "end" /\ x \in ended /\ x[1] = o
  BY <1>4 DEF Known
<1> QED BY <1>1, <1>2, <1>3, <1>4 DEF Place

\* Everything is where it was, and the new messages are queued.
LEMMA PlaceGoesOn ==
  ASSUME GoesOn, NEW ms, Grows(ms), NEW kind, NEW r, NEW x, NEW o
  PROVE  Place(kind, r, x, o)' <=>
            \/ Place(kind, r, x, o)
            \/ kind = "queue" /\ r = NoRun /\ x \in ms /\ x.origin = o
<1>1. /\ queue' = queue \cup ms /\ copies' = copies /\ ended' = ended
      /\ DOMAIN runs' = DOMAIN runs
  BY DEF GoesOn, Grows
<1>2. r \in DOMAIN runs => (Holds(r)' <=> Holds(r)) /\ runs'[r].messages = runs[r].messages
  BY GoesOnHolds DEF GoesOn, RunGoesOn
<1> QED BY <1>1, <1>2 DEF Place

LEMMA InOnePlaceGoesOn ==
  ASSUME Typed, Known, InOnePlace, GoesOn
  PROVE  InOnePlace'
<1> PICK ms : Grows(ms)
  BY DEF GoesOn
<1> SUFFICES ASSUME NEW o \in sent' PROVE (\E k, r, x : PlacedAt(k, r, x, o)') \/ Lost(o)'
  BY DEF InOnePlace
<1>1. CASE o \in sent
  <2>1. \A m \in ms : m.origin # o
    BY <1>1, NewOrigins
  <2>2. \A k, r, x : Place(k, r, x, o)' <=> Place(k, r, x, o)
    BY <2>1, PlaceGoesOn
  <2>3. ASSUME NEW k, NEW r, NEW x, PlacedAt(k, r, x, o) PROVE PlacedAt(k, r, x, o)'
    BY <2>2, <2>3 DEF PlacedAt
  <2>4. CASE Lost(o)
    BY <2>2, <2>4 DEF Lost, GoesOn
  <2> QED BY <1>1, <2>3, <2>4 DEF InOnePlace
<1>2. CASE o \notin sent
  <2>1. PICK m \in ms : m.origin = o
    BY <1>2 DEF Grows
  <2>2. \A k, r, x : ~Place(k, r, x, o)
    BY <1>2, PlacesKnown
  <2>3. \A k, r, x : Place(k, r, x, o)' <=> k = "queue" /\ r = NoRun /\ x \in ms /\ x.origin = o
    BY <2>2, PlaceGoesOn
  <2>4. \A x \in ms : x.origin = o => x = m
    BY <2>1 DEF Grows
  <2>5. PlacedAt("queue", NoRun, m, o)'
    BY <2>1, <2>3, <2>4 DEF PlacedAt
  <2> QED BY <2>5
<1> QED BY <1>1, <1>2

LEMMA KeptGoesOn ==
  ASSUME Kept, GoesOn
  PROVE  Kept'
  BY DEF Kept, GoesOn

LEMMA RunsOfGoesOn ==
  ASSUME GoesOn, NEW i, NEW o
  PROVE  RunsOf(i, o)' = RunsOf(i, o)
  BY DEF RunsOf, GoesOn, RunGoesOn

LEMMA PlannedGoesOn ==
  ASSUME Planned, GoesOn
  PROVE  Planned'
<1> SUFFICES ASSUME NEW r \in DOMAIN runs, Handler(r)' \in MayPost
             PROVE  \E m \in runs'[r].messages :
                       runs'[r].messages = {m} /\ runs'[r].plan = Plan(Handler(r), m)'
  BY DEF Planned, GoesOn
<1>1. Handler(r)' = Handler(r) /\ runs'[r].messages = runs[r].messages
      /\ runs'[r].plan = runs[r].plan
  BY DEF Handler, At, GoesOn, RunGoesOn
<1>2. PICK m \in runs[r].messages :
        runs[r].messages = {m} /\ runs[r].plan = Plan(Handler(r), m)
  BY <1>1 DEF Planned
<1>3. Plan(Handler(r), m)' = Plan(Handler(r), m)
  <2> DEFINE h == Handler(r)
  <2>1. Plan(Handler(r), m)' = Plan(Handler(r), m) <=> TRUE
    BY <1>1, PlanStays
  <2> QED BY <2>1
<1> QED BY <1>1, <1>2, <1>3

LEMMA AlikeGoesOn ==
  ASSUME Typed, Known, Alike, GoesOn
  PROVE  Alike'
<1> PICK ms : Grows(ms)
  BY DEF GoesOn
<1>1. Everywhere' = Everywhere \cup ms
  BY GoesOnEverywhere
<1>2. \A m \in ms : m.origin \notin sent
  BY NewOrigins
<1>3. \A m \in Everywhere : m.origin \in sent
  BY DEF Known
<1> QED BY <1>1, <1>2, <1>3 DEF Alike, Grows

\* No run has had a message that was not sent.
LEMMA FreshRuns ==
  ASSUME Known, Finite, NEW i, NEW o, o \notin sent
  PROVE  RunsOf(i, o) = {} /\ Cardinality(RunsOf(i, o)) = 0
<1>1. RunsOf(i, o) = {}
  BY DEF RunsOf, Known, Everywhere
<1> QED BY <1>1, FS_EmptySet

LEMMA AttemptsGoesOn ==
  ASSUME Typed, Known, Finite, Attempts, GoesOn
  PROVE  Attempts'
<1> PICK ms : Grows(ms)
  BY DEF GoesOn
<1>1. \A i, o, most : Budget(i, o, most)' <=> Budget(i, o, most)
  BY RunsOfGoesOn DEF Budget, GoesOn
<1>2. ASSUME NEW i, NEW m \in ms, NEW most \in Nat PROVE Budget(i, m.origin, most)
  <2>1. Cardinality(RunsOf(i, m.origin)) = 0
    BY NewOrigins, FreshRuns
  <2> QED BY <2>1 DEF Budget, Typed
<1> SUFFICES ASSUME NEW i \in Mounted, At(i).cap # 0
    PROVE  /\ \A o \in sent' : Budget(i, o, At(i).cap)
           /\ \A m \in queue' : m.node = Node(At(i)) =>
                 Budget(i, m.origin, Deliveries(m) - 1) /\ Budget(i, m.origin, At(i).cap - 1)
           /\ \A c \in copies : Reached(c.to) = {Node(At(i))} =>
                 Budget(i, c.message.origin, Deliveries(c.message) - 1)
                 /\ Budget(i, c.message.origin, At(i).cap - 1)
           /\ \A r \in DOMAIN runs : runs[r].mount = i /\ Holds(r) =>
                 \A m \in runs[r].messages : Budget(i, m.origin, Deliveries(m))
  <2>1. Mounted' = Mounted /\ (\A i : At(i)' = At(i)) /\ \A a : Reached(a)' = Reached(a)
    BY ServiceStays DEF GoesOn
  <2>2. \A r \in DOMAIN runs : (Holds(r)' <=> Holds(r)) /\ runs'[r].messages = runs[r].messages
                               /\ runs'[r].mount = runs[r].mount
    BY GoesOnHolds DEF GoesOn, RunGoesOn
  <2>3. copies' = copies /\ DOMAIN runs' = DOMAIN runs
    BY DEF GoesOn
  <2> QED BY <1>1, <2>1, <2>2, <2>3, Zenon DEF Attempts
<1>3. At(i).cap \in Nat
  BY MountingHolds DEF Typed, Mounting
<1>4. ASSUME NEW o \in sent' PROVE Budget(i, o, At(i).cap)
  <2>1. CASE o \in sent
    BY <2>1 DEF Attempts
  <2>2. ASSUME NEW m \in ms, o = m.origin PROVE Budget(i, o, At(i).cap)
    BY <1>2, <1>3, <2>2
  <2> QED BY <2>1, <2>2 DEF Grows
<1>5. ASSUME NEW m \in queue', m.node = Node(At(i))
      PROVE  Budget(i, m.origin, Deliveries(m) - 1) /\ Budget(i, m.origin, At(i).cap - 1)
  <2>1. CASE m \in queue
    BY <1>5, <2>1 DEF Attempts
  <2>2. CASE m \in ms
    <3>1. Deliveries(m) - 1 = 0 /\ At(i).cap - 1 \in Nat
      BY <1>3, <2>2 DEF Grows
    <3> QED BY <1>2, <2>2, <3>1
  <2> QED BY <2>1, <2>2 DEF Grows
<1> QED BY <1>4, <1>5 DEF Attempts

LEMMA StaysGoesOn ==
  ASSUME Typed, Known, Stays, GoesOn
  PROVE  Stays'
<1> PICK ms : Grows(ms)
  BY DEF GoesOn
<1>1. \A r \in DOMAIN runs : /\ Holds(r)' <=> Holds(r)
                             /\ runs'[r].messages = runs[r].messages
                             /\ Handler(r)' = Handler(r)
  BY GoesOnHolds DEF GoesOn, RunGoesOn, Handler, At
<1>2. \A a : Reached(a)' = Reached(a)
  BY ServiceStays DEF GoesOn
<1>3. copies' = copies /\ DOMAIN runs' = DOMAIN runs /\ queue' = queue \cup ms
  BY DEF GoesOn, Grows
<1>4. \A n \in ms : \A r \in DOMAIN runs : \A m \in runs[r].messages : n.origin # m.origin
  <2>1. \A r \in DOMAIN runs : \A m \in runs[r].messages : m.origin \in sent
    BY DEF Known, Everywhere
  <2> QED BY <2>1, NewOrigins
<1> SUFFICES ASSUME NEW r \in DOMAIN runs, Handler(r) \in MayPost, NEW m \in runs[r].messages
    PROVE  /\ \A n \in queue' : n.origin = m.origin => n.node = m.node
           /\ \A c \in copies : c.message.origin = m.origin => Reached(c.to) = {m.node}
           /\ \A q \in DOMAIN runs : Holds(q) =>
                 \A n \in runs[q].messages : n.origin = m.origin => n.node = m.node
  BY <1>1, <1>2, <1>3, Zenon DEF Stays
<1>5. \A n \in queue' : n.origin = m.origin => n.node = m.node
  BY <1>3, <1>4 DEF Stays
<1> QED BY <1>5 DEF Stays

\* A run that is over stays as it is.
LEMMA DoneGoesOn ==
  ASSUME GoesOn, NEW r \in DOMAIN runs
  PROVE  /\ Done(r)' <=> Done(r)
         /\ Done(r) => (Whole(r)' <=> Whole(r))
         /\ Handler(r)' = Handler(r)
         /\ SettledOnReceipt(runs[r].mount)' <=> SettledOnReceipt(runs[r].mount)
         /\ runs'[r].stage = "dead" <=> runs[r].stage = "dead"
<1>1. RunGoesOn(runs[r], runs'[r]) /\ service' = service
  BY DEF GoesOn
<1>2. IF runs[r].stage \in {"over", "dead"} THEN runs'[r] = runs[r]
      ELSE runs'[r].stage \notin {"over", "dead"}
  BY <1>1 DEF RunGoesOn
<1> QED BY <1>1, <1>2 DEF Done, Whole, Handler, At, SettledOnReceipt, RunGoesOn

LEMMA OutcomesGoOn ==
  ASSUME Accepted, Rejected, DoneOnce, GoesOn
  PROVE  Accepted' /\ Rejected' /\ DoneOnce'
<1>1. \A r \in DOMAIN runs : /\ runs'[r].messages = runs[r].messages
                             /\ runs'[r].mount = runs[r].mount
                             /\ runs'[r].plan = runs[r].plan
  BY DEF GoesOn, RunGoesOn
<1>2. ended' = ended /\ DOMAIN runs' = DOMAIN runs
  BY DEF GoesOn
<1>3. \A i, o : RunsOf(i, o)' = RunsOf(i, o)
  BY RunsOfGoesOn
<1>4. \A i, o : RunsOf(i, o) \subseteq DOMAIN runs
  BY DEF RunsOf
<1>5. Accepted'
  <2> SUFFICES ASSUME NEW r \in DOMAIN runs, Handler(r) \in MayPost,
                      NEW m \in runs[r].messages, <<m.origin, "accepted">> \in ended
               PROVE  \E q \in RunsOf(runs[r].mount, m.origin) : Done(q)' /\ Whole(q)'
    BY <1>1, <1>2, <1>3, DoneGoesOn DEF Accepted
  <2>1. PICK q \in RunsOf(runs[r].mount, m.origin) : Done(q) /\ Whole(q)
    BY DEF Accepted
  <2> QED BY <1>4, <2>1, DoneGoesOn
<1>6. Rejected'
  BY <1>1, <1>2, DoneGoesOn DEF Rejected
<1>7. DoneOnce'
  BY <1>1, <1>2, <1>3, <1>4, DoneGoesOn DEF DoneOnce
<1> QED BY <1>5, <1>6, <1>7

LEMMA DiedGoesOn ==
  ASSUME Known, Finite, Died, GoesOn, crashes \in Nat
  PROVE  Died'
<1> SUFFICES ASSUME NEW i \in Mounted, NEW o \in sent', ~SettledOnReceipt(i)
             PROVE  Cardinality(DeadOf(i, o)') <= crashes
  BY ServiceStays DEF Died, GoesOn
<1>1. DeadOf(i, o)' = DeadOf(i, o)
  BY RunsOfGoesOn, DoneGoesOn DEF DeadOf, RunsOf
<1>2. CASE o \in sent
  BY <1>1, <1>2 DEF Died
<1>3. CASE o \notin sent
  <2>1. DeadOf(i, o) = {}
    BY <1>3, FreshRuns DEF DeadOf
  <2> QED BY <1>1, <2>1, FS_EmptySet
<1> QED BY <1>2, <1>3

-----------------------------------------------------------------------------
(* A worker takes messages.                                                *)

\* The names of the runs of a mount for a message.
NamesOf(i, id) == {r \in DOMAIN runs : r[1] = i /\ r[2] = id}

LEMMA NamesFinite ==
  ASSUME Finite, NEW i, NEW id
  PROVE  IsFiniteSet(NamesOf(i, id)) /\ Cardinality(NamesOf(i, id)) \in Nat
<1>1. NamesOf(i, id) \subseteq DOMAIN runs
  BY DEF NamesOf
<1> QED BY <1>1, FS_Subset, FS_CardinalityType DEF Finite

\* The next run of a mount for a message has a name no run has.
LEMMA NextRunIsNew ==
  ASSUME Finite, Named, NEW i, NEW m
  PROVE  /\ NextRun(i, m) = <<i, m.id, Cardinality(NamesOf(i, m.id))>>
         /\ NextRun(i, m) \notin DOMAIN runs
<1>1. NextRun(i, m) = <<i, m.id, Cardinality(NamesOf(i, m.id))>>
  BY DEF NextRun, NamesOf
<1>2. Cardinality(NamesOf(i, m.id)) \in Nat
  BY NamesFinite
<1>3. \A r \in DOMAIN runs : r[3] < Cardinality(NamesOf(r[1], r[2]))
  BY DEF Named, NamesOf
<1>4. ASSUME NextRun(i, m) \in DOMAIN runs PROVE FALSE
  <2> DEFINE k == Cardinality(NamesOf(i, m.id))
             r == NextRun(i, m)
  <2>1. r[1] = i /\ r[2] = m.id /\ r[3] = k
    BY <1>1
  <2> HIDE DEF r
  <2>2. r \in DOMAIN runs
    BY <1>4 DEF r
  <2>3. k < k
    BY <1>3, <2>1, <2>2
  <2> QED BY <1>2, <2>3
<1> QED BY <1>1, <1>4

\* The run a worker begins.
Took(i, ms, name) ==
    /\ ms \subseteq queue
    /\ ms # {}
    /\ \A m \in ms : m.node = Node(At(i))
    /\ Cardinality(ms) <= At(i).batch
    /\ queue' = queue \ ms
    /\ \E m \in ms : name = NextRun(i, m)
    /\ DOMAIN runs' = DOMAIN runs \cup {name}
    /\ name \notin DOMAIN runs
    /\ \A q \in DOMAIN runs : runs'[q] = runs[q]
    /\ runs'[name].mount = i
    /\ runs'[name].messages = ms
    /\ runs'[name].stage \in {"asking", "running", "settling"}
    /\ \E m \in ms : runs'[name].plan = Plan(At(i).handler, m)
    /\ RunTyped(runs'[name])
    /\ PlanFits(At(i).handler, runs'[name].plan)
    /\ Phase(runs'[name])
    /\ ended' = IF SettledOnReceipt(i)
                THEN ended \cup {<<m.origin, "accepted">> : m \in ms} ELSE ended
    /\ UNCHANGED <<service, sent, last, copies, replaced, crashes>>

\* That is what Receive does.
LEMMA ReceiveTook ==
  ASSUME Typed, Finite, Named, NEW i \in Mounted, Receive(i)
  PROVE  \E ms, name : Took(i, ms, name)
<1>1. PICK ms \in SUBSET {m \in queue : m.node = Node(At(i))} :
          /\ ms # {}
          /\ Cardinality(ms) <= At(i).batch
          /\ queue' = queue \ ms
          /\ LET first == CHOOSE m \in ms : TRUE
                 plan == Plan(At(i).handler, first)
             IN runs' = Started(NextRun(i, first),
                    [mount |-> i, messages |-> ms, plan |-> plan, posted |-> 0, shown |-> 0,
                     stage |-> Begins(plan), outcome |-> plan.outcome])
          /\ ended' = IF SettledOnReceipt(i)
                      THEN ended \cup {<<m.origin, "accepted">> : m \in ms} ELSE ended
  BY DEF Receive
<1> DEFINE first == CHOOSE m \in ms : TRUE
           plan == Plan(At(i).handler, first)
           name == NextRun(i, first)
           run == [mount |-> i, messages |-> ms, plan |-> plan, posted |-> 0, shown |-> 0,
                   stage |-> Begins(plan), outcome |-> plan.outcome]
<1>2. runs' = Started(name, run)
  BY <1>1
<1>3. first \in ms /\ first \in Everywhere
  BY <1>1 DEF Everywhere
<1>4. name \notin DOMAIN runs
  BY NextRunIsNew
<1>5. PlanFits(At(i).handler, plan)
  BY <1>3, PlanFit DEF Typed, MessageTyped
<1>6. /\ run.mount = i /\ run.messages = ms /\ run.plan = plan /\ run.posted = 0
      /\ run.shown = 0 /\ run.stage = Begins(plan) /\ run.outcome = plan.outcome
      /\ DOMAIN run = RunFields
  BY DEF RunFields
<1> HIDE DEF first, plan, name, run
<1>7. /\ DOMAIN runs' = DOMAIN runs \cup {name}
      /\ \A q \in DOMAIN runs : runs'[q] = runs[q]
      /\ runs'[name] = run
  BY <1>2, <1>4 DEF Started
<1>8. Begins(plan) \in {"asking", "running", "settling"}
      /\ (Begins(plan) = "settling" => plan.ends = "plain" /\ plan.posts = <<>>)
  BY DEF Begins
<1>9. RunTyped(run)
  BY <1>5, <1>6, <1>8 DEF RunTyped, PlanFits, Stages
<1>10. Phase(run)
  BY <1>5, <1>6, <1>8 DEF Phase, PlanFits, Outcomes
<1>11. UNCHANGED <<service, sent, last, copies, replaced, crashes>>
  BY DEF Receive, world
<1>12. name = NextRun(i, first) /\ plan = Plan(At(i).handler, first)
  BY DEF name, plan
<1>13. Took(i, ms, name)
  BY <1>1, <1>3, <1>4, <1>5, <1>6, <1>7, <1>8, <1>9, <1>10, <1>11, <1>12 DEF Took
<1> QED BY <1>13

\* The run holds what it took, unless that is settled on receipt.
LEMMA TookHolds ==
  ASSUME NEW i, NEW ms, NEW name, Took(i, ms, name)
  PROVE  /\ \A r \in DOMAIN runs : (Live(r)' <=> Live(r)) /\ (Holds(r)' <=> Holds(r))
         /\ Live(name)'
         /\ Holds(name)' <=> ~SettledOnReceipt(i)
<1>1. \A r \in DOMAIN runs : runs'[r] = runs[r]
  BY DEF Took
<1>2. \A r \in DOMAIN runs : SettledOnReceipt(runs[r].mount)' <=> SettledOnReceipt(runs[r].mount)
  BY <1>1 DEF SettledOnReceipt, At, Took
<1>3. SettledOnReceipt(runs[name].mount)' <=> SettledOnReceipt(i)
  BY DEF SettledOnReceipt, At, Took
<1>4. Live(name)'
  BY DEF Live, Took
<1> QED BY <1>1, <1>2, <1>3, <1>4 DEF Holds, Live

\* No message comes or goes.
LEMMA TookEverywhere ==
  ASSUME NEW i, NEW ms, NEW name, Took(i, ms, name)
  PROVE  Everywhere' = Everywhere
<1>1. /\ queue' = queue \ ms /\ ms \subseteq queue /\ copies' = copies
      /\ DOMAIN runs' = DOMAIN runs \cup {name}
      /\ \A q \in DOMAIN runs : runs'[q].messages = runs[q].messages
      /\ runs'[name].messages = ms
      /\ name \notin DOMAIN runs
  BY DEF Took
<1> DEFINE A == {runs'[r].messages : r \in DOMAIN runs'}
           B == {runs[r].messages : r \in DOMAIN runs}
<1>2. A = B \cup {ms}
  BY <1>1
<1>3. Everywhere' = queue' \cup {c.message : c \in copies'} \cup UNION A
  BY DEF Everywhere
<1>4. Everywhere = queue \cup {c.message : c \in copies} \cup UNION B
  BY DEF Everywhere
<1> HIDE DEF A, B
<1> QED BY <1>1, <1>2, <1>3, <1>4

LEMMA TypedTook ==
  ASSUME Typed, NEW i \in Mounted, NEW ms, NEW name, Took(i, ms, name)
  PROVE  Typed'
<1>1. \A m \in Everywhere' : MessageTyped(m)
  BY TookEverywhere DEF Typed
<1>2. \A e \in ended' : e = <<e[1], e[2]>>
  BY DEF Typed, Took
<1>3. Mounted' = Mounted
  BY ServiceStays DEF Took
<1>4. \A r \in DOMAIN runs' : /\ RunTyped(runs'[r]) /\ runs'[r].mount \in Mounted'
                              /\ runs'[r].messages # {}
  BY <1>3 DEF Typed, Took
<1> QED BY <1>1, <1>2, <1>4 DEF Typed, Took

LEMMA FiniteTook ==
  ASSUME Finite, NEW i, NEW ms, NEW name, Took(i, ms, name)
  PROVE  Finite'
<1>1. IsFiniteSet(queue') /\ IsFiniteSet(ms)
  BY FS_Subset DEF Finite, Took
<1>2. IsFiniteSet(DOMAIN runs')
  BY FS_AddElement DEF Finite, Took
<1> QED BY <1>1, <1>2 DEF Finite, Took

LEMMA NamedTook ==
  ASSUME Finite, Named, NEW i, NEW ms, NEW name, Took(i, ms, name)
  PROVE  Named'
<1> PICK m \in ms : name = NextRun(i, m)
  BY DEF Took
<1> DEFINE k == Cardinality(NamesOf(i, m.id))
<1>1. name = <<i, m.id, k>> /\ k \in Nat
  BY NextRunIsNew, NamesFinite
<1> HIDE DEF k
<1>2. DOMAIN runs' = DOMAIN runs \cup {name} /\ name \notin DOMAIN runs
  BY DEF Took
<1>3. ASSUME NEW a, NEW b, <<a, b>> # <<i, m.id>>
      PROVE  NamesOf(a, b)' = NamesOf(a, b)
  BY <1>1, <1>2, <1>3 DEF NamesOf
<1>4. NamesOf(i, m.id)' = NamesOf(i, m.id) \cup {name} /\ name \notin NamesOf(i, m.id)
  BY <1>1, <1>2 DEF NamesOf
<1>5. Cardinality(NamesOf(i, m.id)') = k + 1
  BY <1>4, NamesFinite, FS_AddElement DEF k
<1>6. \A r \in DOMAIN runs : r = <<r[1], r[2], r[3]>> /\ r[3] \in Nat
                             /\ r[3] < Cardinality(NamesOf(r[1], r[2]))
  BY DEF Named, NamesOf
<1>7. ASSUME NEW r \in DOMAIN runs'
      PROVE  r = <<r[1], r[2], r[3]>> /\ r[3] \in Nat /\ r[3] < Cardinality(NamesOf(r[1], r[2])')
  <2>1. CASE r = name
    BY <1>1, <1>5, <2>1
  <2>2. CASE r \in DOMAIN runs /\ <<r[1], r[2]>> # <<i, m.id>>
    BY <1>3, <1>6, <2>2
  <2>3. CASE r \in DOMAIN runs /\ r[1] = i /\ r[2] = m.id
    <3>1. r[3] < k /\ r[3] \in Nat /\ r = <<r[1], r[2], r[3]>>
      BY <1>6, <2>3 DEF k
    <3>2. r[3] < k + 1
      BY <1>1, <3>1
    <3> QED BY <1>5, <2>3, <3>1, <3>2
  <2> QED BY <1>2, <2>1, <2>2, <2>3
<1> QED BY <1>7 DEF Named, NamesOf

LEMMA KnownTook ==
  ASSUME Known, NEW i, NEW ms, NEW name, Took(i, ms, name)
  PROVE  Known'
<1>1. Everywhere' = Everywhere
  BY TookEverywhere
<1>2. \A m \in ms : m.origin \in sent
  BY DEF Took, Known, Everywhere
<1>3. \A e \in ended' : e[1] \in sent
  BY <1>2 DEF Known, Took
<1> QED BY <1>1, <1>3 DEF Known, Took

\* What was taken is with the run, or accepted; all else is where it was.
LEMMA TookPlace ==
  ASSUME NEW i, NEW ms, NEW name, Took(i, ms, name), NEW kind, NEW r, NEW x, NEW o
  PROVE  Place(kind, r, x, o)' <=>
            \/ Place(kind, r, x, o) /\ ~(kind = "queue" /\ x \in ms)
            \/ ~SettledOnReceipt(i) /\ kind = "run" /\ r = name /\ x \in ms /\ x.origin = o
            \/ SettledOnReceipt(i) /\ kind = "end" /\ r = NoRun /\ x[1] = o
               /\ \E m \in ms : x = <<m.origin, "accepted">>
<1>1. /\ queue' = queue \ ms /\ copies' = copies
      /\ DOMAIN runs' = DOMAIN runs \cup {name}
      /\ \A q \in DOMAIN runs : runs'[q].messages = runs[q].messages
      /\ runs'[name].messages = ms
      /\ name \notin DOMAIN runs
      /\ ended' = IF SettledOnReceipt(i)
                  THEN ended \cup {<<m.origin, "accepted">> : m \in ms} ELSE ended
  BY DEF Took
<1>2. \A q \in DOMAIN runs : Holds(q)' <=> Holds(q)
  BY TookHolds
<1>3. Holds(name)' <=> ~SettledOnReceipt(i)
  BY TookHolds
<1>4. CASE kind = "run"
  BY <1>1, <1>2, <1>3, <1>4 DEF Place
<1>5. CASE kind # "run"
  BY <1>1, <1>5 DEF Place
<1> QED BY <1>4, <1>5

LEMMA InOnePlaceTook ==
  ASSUME InOnePlace, NEW i, NEW ms, NEW name, Took(i, ms, name)
  PROVE  InOnePlace'
<1> SUFFICES ASSUME NEW o \in sent PROVE (\E k, r, x : PlacedAt(k, r, x, o)') \/ Lost(o)'
  BY DEF InOnePlace, Took
<1>2. ms \subseteq queue
  BY DEF Took
<1>0. CASE Lost(o)
  <2>1. \A m \in ms : m.origin # o
    BY <1>0, <1>2 DEF Lost, Place
  <2>2. \A m \in ms : <<m.origin, "accepted">>[1] # o
    BY <2>1
  <2>3. \A kk, q, y : ~Place(kk, q, y, o)'
    BY <1>0, <2>1, <2>2, TookPlace DEF Lost
  <2> QED BY <1>0, <2>3 DEF Lost, Took
<1> SUFFICES ASSUME ~Lost(o) PROVE \E k, r, x : PlacedAt(k, r, x, o)'
  BY <1>0
<1>1. PICK k, r, x : PlacedAt(k, r, x, o)
  BY DEF InOnePlace
<1>3. \A m \in ms : m.origin = o => k = "queue" /\ r = NoRun /\ x = m
  BY <1>1, <1>2 DEF PlacedAt, Place
<1>4. CASE k = "queue" /\ x \in ms
  <2>1. x.origin = o
    BY <1>1, <1>4 DEF PlacedAt, Place
  <2>2. CASE SettledOnReceipt(i)
    <3>1. PlacedAt("end", NoRun, <<o, "accepted">>, o)'
      BY <1>1, <1>3, <1>4, <2>1, <2>2, TookPlace DEF PlacedAt
    <3> QED BY <3>1
  <2>3. CASE ~SettledOnReceipt(i)
    <3>1. PlacedAt("run", name, x, o)'
      BY <1>1, <1>3, <1>4, <2>1, <2>3, TookPlace DEF PlacedAt
    <3> QED BY <3>1
  <2> QED BY <2>2, <2>3
<1>5. CASE ~(k = "queue" /\ x \in ms)
  <2>1. \A m \in ms : m.origin # o
    BY <1>3, <1>5
  <2>2. \A kk, q, y : Place(kk, q, y, o)' <=> Place(kk, q, y, o)
    <3> SUFFICES ASSUME NEW kk, NEW q, NEW y
                 PROVE  Place(kk, q, y, o)' <=> Place(kk, q, y, o)
      OBVIOUS
    <3>1. kk = "queue" /\ y \in ms => ~Place(kk, q, y, o)
      BY <2>1 DEF Place
    <3>2. \A m \in ms : <<m.origin, "accepted">>[1] # o
      BY <2>1
    <3> QED BY <2>1, <3>1, <3>2, TookPlace
  <2>3. PlacedAt(k, r, x, o)'
    BY <1>1, <2>2 DEF PlacedAt
  <2> QED BY <2>3
<1> QED BY <1>4, <1>5

LEMMA KeptTook ==
  ASSUME Kept, NEW i, NEW ms, NEW name, Took(i, ms, name)
  PROVE  Kept'
  BY DEF Kept, Took

LEMMA OnNodeTook ==
  ASSUME OnNode, NEW i, NEW ms, NEW name, Took(i, ms, name)
  PROVE  OnNode'
<1>1. \A j : At(j)' = At(j)
  BY ServiceStays DEF Took
<1> QED BY <1>1 DEF OnNode, Took

LEMMA CopyingTook ==
  ASSUME Copying, NEW i, NEW ms, NEW name, Took(i, ms, name)
  PROVE  Copying'
  BY ServiceStays DEF Copying, Took

LEMMA PhasedTook ==
  ASSUME Phased, NEW i, NEW ms, NEW name, Took(i, ms, name)
  PROVE  Phased'
<1>1. \A j : At(j)' = At(j)
  BY ServiceStays DEF Took
<1> QED BY <1>1 DEF Phased, Handler, Took

-----------------------------------------------------------------------------
(* One place at a time.                                                    *)

\* What is in one place is in no other: a message that is queued, copied, or held.
LEMMA OnlyPlace ==
  ASSUME Known, InOnePlace, NEW kind, NEW r, NEW x, NEW o, Place(kind, r, x, o)
  PROVE  \A k, q, y : Place(k, q, y, o) => k = kind /\ q = r /\ y = x
<1>1. o \in sent
  BY PlacesKnown
<1>2. ~Lost(o)
  BY DEF Lost
<1> QED BY <1>1, <1>2 DEF InOnePlace, PlacedAt

\* The place of what is anywhere.
LEMMA PlaceOfEach ==
  /\ \A m \in queue : Place("queue", NoRun, m, m.origin)
  /\ \A c \in copies : Place("copy", NoRun, c, c.message.origin)
  /\ \A r \in DOMAIN runs : Holds(r) => \A m \in runs[r].messages : Place("run", r, m, m.origin)
  /\ \A e \in ended : Place("end", NoRun, e, e[1])
<1>1. \A m \in queue : Place("queue", NoRun, m, m.origin)
  BY DEF Place
<1>2. \A c \in copies : Place("copy", NoRun, c, c.message.origin)
  BY DEF Place
<1>3. \A r \in DOMAIN runs : Holds(r) => \A m \in runs[r].messages : Place("run", r, m, m.origin)
  BY DEF Place
<1>4. \A e \in ended : Place("end", NoRun, e, e[1])
  BY DEF Place
<1> QED BY <1>1, <1>2, <1>3, <1>4

LEMMA QueuedOnly ==
  ASSUME Known, InOnePlace, NEW m \in queue
  PROVE  /\ \A n \in queue : n.origin = m.origin => n = m
         /\ \A c \in copies : c.message.origin # m.origin
         /\ \A r \in DOMAIN runs : Holds(r) => \A n \in runs[r].messages : n.origin # m.origin
         /\ \A e \in ended : e[1] # m.origin
<1>1. Place("queue", NoRun, m, m.origin)
  BY PlaceOfEach
<1>2. \A k, q, y : Place(k, q, y, m.origin) => k = "queue" /\ q = NoRun /\ y = m
  BY <1>1, OnlyPlace
<1> QED BY <1>2, PlaceOfEach

LEMMA CopiedOnly ==
  ASSUME Known, InOnePlace, NEW c \in copies
  PROVE  /\ \A n \in queue : n.origin # c.message.origin
         /\ \A d \in copies : d.message.origin = c.message.origin => d = c
         /\ \A r \in DOMAIN runs : Holds(r) => \A n \in runs[r].messages : n.origin # c.message.origin
         /\ \A e \in ended : e[1] # c.message.origin
<1>1. Place("copy", NoRun, c, c.message.origin)
  BY PlaceOfEach
<1>2. \A k, q, y : Place(k, q, y, c.message.origin) => k = "copy" /\ q = NoRun /\ y = c
  BY <1>1, OnlyPlace
<1> QED BY <1>2, PlaceOfEach

LEMMA HeldOnly ==
  ASSUME Known, InOnePlace, NEW r \in DOMAIN runs, Holds(r), NEW m \in runs[r].messages
  PROVE  /\ \A n \in queue : n.origin # m.origin
         /\ \A c \in copies : c.message.origin # m.origin
         /\ \A q \in DOMAIN runs : Holds(q) =>
               \A n \in runs[q].messages : n.origin = m.origin => q = r /\ n = m
         /\ \A e \in ended : e[1] # m.origin
<1>1. Place("run", r, m, m.origin)
  BY PlaceOfEach
<1>2. \A k, q, y : Place(k, q, y, m.origin) => k = "run" /\ q = r /\ y = m
  BY <1>1, OnlyPlace
<1> QED BY <1>2, PlaceOfEach

-----------------------------------------------------------------------------
(* What a run that was taken keeps.                                        *)

LEMMA RunsOfFinite ==
  ASSUME Finite, NEW i, NEW o
  PROVE  IsFiniteSet(RunsOf(i, o)) /\ Cardinality(RunsOf(i, o)) \in Nat
<1>1. RunsOf(i, o) \subseteq DOMAIN runs
  BY DEF RunsOf
<1> QED BY <1>1, FS_Subset, FS_CardinalityType DEF Finite

\* The run is one more for each message it took.
LEMMA RunsOfTook ==
  ASSUME Finite, NEW i, NEW ms, NEW name, Took(i, ms, name), NEW j, NEW o
  PROVE  /\ RunsOf(j, o)' = IF j = i /\ (\E m \in ms : m.origin = o)
                            THEN RunsOf(j, o) \cup {name} ELSE RunsOf(j, o)
         /\ Cardinality(RunsOf(j, o)') = IF j = i /\ (\E m \in ms : m.origin = o)
                            THEN Cardinality(RunsOf(j, o)) + 1 ELSE Cardinality(RunsOf(j, o))
<1>1. RunsOf(j, o)' = IF j = i /\ (\E m \in ms : m.origin = o)
                      THEN RunsOf(j, o) \cup {name} ELSE RunsOf(j, o)
  BY DEF RunsOf, Took
<1>2. name \notin RunsOf(j, o)
  BY DEF RunsOf, Took
<1>3. Cardinality(RunsOf(j, o) \cup {name}) = Cardinality(RunsOf(j, o)) + 1
  BY <1>2, RunsOfFinite, FS_AddElement
<1> QED BY <1>1, <1>3

\* Two messages are two.
LEMMA PairCounts ==
  ASSUME NEW m, NEW n, m # n
  PROVE  Cardinality({m, n}) = 2
<1>1. IsFiniteSet({m}) /\ Cardinality({m}) = 1
  BY FS_Singleton
<1>2. n \notin {m} /\ {m, n} = {m} \cup {n}
  OBVIOUS
<1>3. Cardinality({m} \cup {n}) = Cardinality({m}) + 1
  BY <1>1, <1>2, FS_AddElement
<1> QED BY <1>1, <1>2, <1>3

LEMMA PlannedTook ==
  ASSUME Typed, Finite, Planned, NEW i \in Mounted, NEW ms, NEW name, Took(i, ms, name)
  PROVE  Planned'
<1>0. \A j : At(j)' = At(j)
  BY ServiceStays DEF Took
<1> SUFFICES ASSUME NEW r \in DOMAIN runs', Handler(r)' \in MayPost
             PROVE  \E m \in runs'[r].messages :
                       runs'[r].messages = {m} /\ runs'[r].plan = Plan(Handler(r), m)'
  BY DEF Planned
<1>1. CASE r \in DOMAIN runs
  <2>1. runs'[r] = runs[r] /\ Handler(r)' = Handler(r)
    BY <1>0, <1>1 DEF Handler, Took
  <2>2. PICK m \in runs[r].messages :
          runs[r].messages = {m} /\ runs[r].plan = Plan(Handler(r), m)
    BY <1>1, <2>1 DEF Planned
  <2>3. Plan(Handler(r), m)' = Plan(Handler(r), m)
    <3>1. Plan(Handler(r), m)' = Plan(Handler(r), m) <=> TRUE
      BY <2>1, PlanStays
    <3> QED BY <3>1
  <2> QED BY <2>1, <2>2, <2>3
<1>2. CASE r = name
  <2>1. Handler(r)' = At(i).handler /\ runs'[r].messages = ms
    BY <1>0, <1>2 DEF Handler, Took
  <2>2. At(i).batch = 1
    BY <2>1, MountingHolds DEF Typed, Mounting
  <2>3. PICK m \in ms : runs'[r].plan = Plan(At(i).handler, m)
    BY <1>2 DEF Took
  <2>4. ms = {m}
    <3>1. IsFiniteSet(ms) /\ Cardinality(ms) <= 1
      BY <2>2, FS_Subset DEF Finite, Took
    <3>2. ASSUME NEW n \in ms, n # m PROVE FALSE
      <4>1. Cardinality({m, n}) = 2
        BY <3>2, PairCounts
      <4>2. Cardinality({m, n}) <= Cardinality(ms) /\ Cardinality(ms) \in Nat
        BY <3>1, <3>2, FS_Subset, FS_CardinalityType
      <4> QED BY <3>1, <4>1, <4>2
    <3> QED BY <3>2
  <2>5. Plan(At(i).handler, m)' = Plan(At(i).handler, m)
    <3>1. At(i).handler \in MayPost /\ At(i)' = At(i)
      BY <1>0, <2>1
    <3> QED BY <3>1, PlanStays
  <2>6. Plan(Handler(r), m)' = Plan(At(i).handler, m)'
    BY <1>0, <2>1 DEF Plan, Asked
  <2> QED BY <1>2, <2>1, <2>3, <2>4, <2>5, <2>6
<1> QED BY <1>1, <1>2 DEF Took

\* The budget after a step.
BudgetNext(i, o, most) == Cardinality(RunsOf(i, o)') <= most + crashes'

\* A run more, or none.
LEMMA BudgetTook ==
  ASSUME Typed, Finite, NEW i, NEW ms, NEW name, Took(i, ms, name), NEW j, NEW o, NEW most \in Int,
         Budget(j, o, most)
  PROVE  /\ BudgetNext(j, o, most + 1)
         /\ (j # i \/ \A m \in ms : m.origin # o) => BudgetNext(j, o, most)
<1>1. /\ Cardinality(RunsOf(j, o)') \in {Cardinality(RunsOf(j, o)), Cardinality(RunsOf(j, o)) + 1}
      /\ (j # i \/ \A m \in ms : m.origin # o) =>
            Cardinality(RunsOf(j, o)') = Cardinality(RunsOf(j, o))
  BY RunsOfTook
<1>2. Cardinality(RunsOf(j, o)) \in Nat /\ crashes \in Nat /\ crashes' = crashes
  BY RunsOfFinite DEF Typed, Took
<1>3. Cardinality(RunsOf(j, o)) <= most + crashes
  BY DEF Budget
<1> DEFINE old == Cardinality(RunsOf(j, o))
           new == Cardinality(RunsOf(j, o)')
<1>4. (BudgetNext(j, o, most + 1) <=> new <= most + 1 + crashes)
      /\ (BudgetNext(j, o, most) <=> new <= most + crashes)
  BY <1>2 DEF BudgetNext
<1> HIDE DEF old, new
<1>5. new <= most + 1 + crashes
  BY <1>1, <1>2, <1>3 DEF old, new
<1>6. (j # i \/ \A m \in ms : m.origin # o) => new <= most + crashes
  BY <1>1, <1>3 DEF old, new
<1> QED BY <1>4, <1>5, <1>6

\* The first delivery counts.
LEMMA DeliveriesNat ==
  ASSUME NEW m, MessageTyped(m)
  PROVE  Deliveries(m) \in Nat /\ Deliveries(m) >= 1
  BY DEF MessageTyped, Deliveries, NoHeader

\* A capped mount takes what has an attempt left, and this is the one.
LEMMA AttemptsTook ==
  ASSUME Typed, Finite, Known, InOnePlace, OnNode, Attempts,
         NEW i \in Mounted, NEW ms, NEW name, Took(i, ms, name)
  PROVE  Attempts'
<1>1. Mounted' = Mounted /\ (\A j : At(j)' = At(j)) /\ \A a : Reached(a)' = Reached(a)
  BY ServiceStays DEF Took
<1>2. /\ \A r \in DOMAIN runs : /\ Holds(r)' <=> Holds(r)
                                /\ runs'[r].mount = runs[r].mount
                                /\ runs'[r].messages = runs[r].messages
      /\ DOMAIN runs' = DOMAIN runs \cup {name}
      /\ runs'[name].mount = i /\ runs'[name].messages = ms
      /\ copies' = copies /\ sent' = sent /\ queue' = queue \ ms /\ ms \subseteq queue
      /\ \A m \in ms : m.node = Node(At(i))
  <2>1. \A r \in DOMAIN runs : Holds(r)' <=> Holds(r)
    BY TookHolds
  <2> QED BY <2>1 DEF Took
<1>3. \A m \in Everywhere : Deliveries(m) \in Nat
  BY DeliveriesNat DEF Typed
<1> SUFFICES ASSUME NEW j \in Mounted, At(j).cap # 0
    PROVE  /\ \A o \in sent : BudgetNext(j, o, At(j).cap)
           /\ \A n \in queue' : n.node = Node(At(j)) =>
                 BudgetNext(j, n.origin, Deliveries(n) - 1) /\ BudgetNext(j, n.origin, At(j).cap - 1)
           /\ \A c \in copies : Reached(c.to) = {Node(At(j))} =>
                 BudgetNext(j, c.message.origin, Deliveries(c.message) - 1)
                 /\ BudgetNext(j, c.message.origin, At(j).cap - 1)
           /\ \A r \in DOMAIN runs' : runs'[r].mount = j /\ Holds(r)' =>
                 \A m \in runs'[r].messages : BudgetNext(j, m.origin, Deliveries(m))
  <2>1. ASSUME NEW k PROVE (\A o, most : Budget(k, o, most)' <=> BudgetNext(k, o, most))
    BY DEF Budget, BudgetNext
  <2>2. \A m : Deliveries(m)' = Deliveries(m)
    BY DEF Deliveries
  <2> QED BY <1>1, <1>2, <2>1, <2>2 DEF Attempts
<1>4. At(j).cap \in Nat
  BY MountingHolds DEF Typed, Mounting
<1>5. ASSUME NEW o \in sent PROVE BudgetNext(j, o, At(j).cap)
  <2>1. Budget(j, o, At(j).cap)
    BY DEF Attempts
  <2>2. CASE j # i \/ \A m \in ms : m.origin # o
    BY <1>4, <2>1, <2>2, BudgetTook
  <2>3. ASSUME j = i, NEW m \in ms, m.origin = o PROVE BudgetNext(j, o, At(j).cap)
    <3>1. Budget(j, o, At(j).cap - 1)
      BY <1>2, <2>3 DEF Attempts
    <3>2. BudgetNext(j, o, At(j).cap - 1 + 1)
      BY <1>4, <3>1, BudgetTook
    <3> QED BY <1>4, <3>2
  <2> QED BY <2>2, <2>3
<1>6. ASSUME NEW n \in queue', n.node = Node(At(j))
      PROVE  BudgetNext(j, n.origin, Deliveries(n) - 1) /\ BudgetNext(j, n.origin, At(j).cap - 1)
  <2>1. \A m \in ms : m.origin # n.origin
    BY <1>2, QueuedOnly
  <2>2. Budget(j, n.origin, Deliveries(n) - 1) /\ Budget(j, n.origin, At(j).cap - 1)
    BY <1>2, <1>6 DEF Attempts
  <2>3. Deliveries(n) - 1 \in Int /\ At(j).cap - 1 \in Int
    BY <1>2, <1>3, <1>4 DEF Everywhere
  <2> QED BY <2>1, <2>2, <2>3, BudgetTook
<1>7. ASSUME NEW c \in copies, Reached(c.to) = {Node(At(j))}
      PROVE  /\ BudgetNext(j, c.message.origin, Deliveries(c.message) - 1)
             /\ BudgetNext(j, c.message.origin, At(j).cap - 1)
  <2>1. \A m \in ms : m.origin # c.message.origin
    BY <1>2, QueuedOnly
  <2>2. /\ Budget(j, c.message.origin, Deliveries(c.message) - 1)
        /\ Budget(j, c.message.origin, At(j).cap - 1)
    BY <1>7 DEF Attempts
  <2>3. Deliveries(c.message) - 1 \in Int /\ At(j).cap - 1 \in Int
    BY <1>3, <1>4 DEF Everywhere
  <2> QED BY <2>1, <2>2, <2>3, BudgetTook
<1>8. ASSUME NEW r \in DOMAIN runs', runs'[r].mount = j, Holds(r)', NEW m \in runs'[r].messages
      PROVE  BudgetNext(j, m.origin, Deliveries(m))
  <2>1. CASE r \in DOMAIN runs
    <3>1. Holds(r) /\ m \in runs[r].messages /\ runs[r].mount = j
      BY <1>2, <1>8, <2>1
    <3>2. \A n \in ms : n.origin # m.origin
      BY <1>2, <2>1, <3>1, QueuedOnly
    <3>3. Budget(j, m.origin, Deliveries(m)) /\ Deliveries(m) \in Int
      BY <1>3, <2>1, <3>1 DEF Attempts, Everywhere
    <3> QED BY <3>2, <3>3, BudgetTook
  <2>2. CASE r = name
    <3>1. j = i /\ m \in ms
      BY <1>2, <1>8, <2>2
    <3>2. Budget(j, m.origin, Deliveries(m) - 1) /\ Deliveries(m) \in Nat
      BY <1>2, <1>3, <3>1 DEF Attempts, Everywhere
    <3>3. BudgetNext(j, m.origin, Deliveries(m) - 1 + 1)
      BY <3>2, BudgetTook
    <3>4. Deliveries(m) - 1 + 1 = Deliveries(m)
      BY <3>2
    <3> QED BY <3>3, <3>4
  <2> QED BY <1>2, <2>1, <2>2
<1> QED BY <1>5, <1>6, <1>7, <1>8

LEMMA AlikeTook ==
  ASSUME Alike, NEW i, NEW ms, NEW name, Took(i, ms, name)
  PROVE  Alike'
  BY TookEverywhere DEF Alike

LEMMA StaysTook ==
  ASSUME Known, InOnePlace, Stays, NEW i, NEW ms, NEW name, Took(i, ms, name)
  PROVE  Stays'
<1>1. (\A j : At(j)' = At(j)) /\ \A a : Reached(a)' = Reached(a)
  BY ServiceStays DEF Took
<1>2. /\ DOMAIN runs' = DOMAIN runs \cup {name}
      /\ \A q \in DOMAIN runs : runs'[q] = runs[q]
      /\ runs'[name].messages = ms
      /\ queue' = queue \ ms /\ ms \subseteq queue /\ copies' = copies
  BY DEF Took
<1>3. \A q \in DOMAIN runs : (Holds(q)' <=> Holds(q)) /\ Handler(q)' = Handler(q)
  BY <1>1, <1>2, TookHolds DEF Handler
<1> SUFFICES ASSUME NEW r \in DOMAIN runs', Handler(r)' \in MayPost, NEW m \in runs'[r].messages
    PROVE  /\ \A n \in queue' : n.origin = m.origin => n.node = m.node
           /\ \A c \in copies : c.message.origin = m.origin => Reached(c.to) = {m.node}
           /\ \A q \in DOMAIN runs' : Holds(q)' =>
                 \A n \in runs'[q].messages : n.origin = m.origin => n.node = m.node
  BY <1>1, <1>2, Zenon DEF Stays
<1>4. CASE r \in DOMAIN runs
  <2>1. Handler(r) \in MayPost /\ m \in runs[r].messages
    BY <1>2, <1>3, <1>4
  <2>2. \A n \in queue : n.origin = m.origin => n.node = m.node
    BY <1>4, <2>1 DEF Stays
  <2>3. \A c \in copies : c.message.origin = m.origin => Reached(c.to) = {m.node}
    BY <1>4, <2>1 DEF Stays
  <2>4. \A q \in DOMAIN runs : Holds(q) =>
                 \A n \in runs[q].messages : n.origin = m.origin => n.node = m.node
    BY <1>4, <2>1 DEF Stays
  <2>5. \A q \in DOMAIN runs' : Holds(q)' =>
                 \A n \in runs'[q].messages : n.origin = m.origin => n.node = m.node
    BY <1>2, <1>3, <2>2, <2>4
  <2> QED BY <1>2, <2>2, <2>3, <2>5
<1>5. CASE r = name
  <2>1. m \in ms /\ m \in queue
    BY <1>2, <1>5
  <2>2. \A n \in queue : n.origin = m.origin => n = m
    BY <2>1, QueuedOnly
  <2>3. \A c \in copies : c.message.origin # m.origin
    BY <2>1, QueuedOnly
  <2>4. \A q \in DOMAIN runs : Holds(q) => \A n \in runs[q].messages : n.origin # m.origin
    BY <2>1, QueuedOnly
  <2>5. \A q \in DOMAIN runs' : Holds(q)' =>
                 \A n \in runs'[q].messages : n.origin = m.origin => n.node = m.node
    BY <1>2, <1>3, <2>2, <2>4
  <2> QED BY <1>2, <2>2, <2>3, <2>5
<1> QED BY <1>2, <1>4, <1>5

\* Nothing a posting handler has had ends where it is settled on receipt.
LEMMA OutcomesTook ==
  ASSUME Typed, Known, InOnePlace, OnNode, Stays, Accepted, Rejected, DoneOnce, Died, Finite,
         NEW i \in Mounted, NEW ms, NEW name, Took(i, ms, name)
  PROVE  Accepted' /\ Rejected' /\ DoneOnce' /\ Died'
<1>1. \A j : /\ At(j)' = At(j) /\ (SettledOnReceipt(j)' <=> SettledOnReceipt(j))
  BY ServiceStays DEF Took
<1>2. /\ DOMAIN runs' = DOMAIN runs \cup {name}
      /\ name \notin DOMAIN runs
      /\ \A q \in DOMAIN runs : runs'[q] = runs[q]
      /\ runs'[name].messages = ms /\ runs'[name].mount = i
      /\ runs'[name].stage \notin {"over", "dead"}
      /\ ms \subseteq queue /\ sent' = sent /\ crashes' = crashes
      /\ \A m \in ms : m.node = Node(At(i))
      /\ ended' = IF SettledOnReceipt(i)
                  THEN ended \cup {<<m.origin, "accepted">> : m \in ms} ELSE ended
  BY DEF Took
<1>3. \A q \in DOMAIN runs : /\ Handler(q)' = Handler(q)
                             /\ Done(q)' <=> Done(q)
                             /\ Whole(q)' <=> Whole(q)
  BY <1>1, <1>2 DEF Handler, Done, Whole
<1>4. ~Done(name)' /\ Handler(name)' = At(i).handler
  BY <1>1, <1>2 DEF Done, Handler
<1>5. \A j, o : RunsOf(j, o) \subseteq RunsOf(j, o)' /\ RunsOf(j, o)' \subseteq RunsOf(j, o) \cup {name}
  BY RunsOfTook
<1>6. \A j, o : RunsOf(j, o) \subseteq DOMAIN runs
  BY DEF RunsOf
<1>7. ASSUME NEW r \in DOMAIN runs', Handler(r)' \in MayPost, NEW m \in runs'[r].messages
      PROVE  /\ r = name => \A how : <<m.origin, how>> \notin ended'
             /\ r # name => \A how : <<m.origin, how>> \in ended' => <<m.origin, how>> \in ended
  <2>1. CASE r = name
    <3>1. m \in queue /\ ~SettledOnReceipt(i)
      BY <1>2, <1>4, <1>7, <2>1, MountingHolds DEF Typed, Mounting
    <3> QED BY <1>2, <2>1, <3>1, QueuedOnly
  <2>2. CASE r # name
    <3>1. r \in DOMAIN runs /\ Handler(r) \in MayPost /\ m \in runs[r].messages
      BY <1>2, <1>3, <1>7, <2>2
    <3> DEFINE j == runs[r].mount
    <3>2. j \in Mounted /\ At(j).handler \in MayPost /\ m.node = Node(At(j))
      BY <3>1 DEF Typed, Handler, OnNode
    <3>3. ~SettledOnReceipt(j) /\ \A k \in Mounted : Node(At(k)) = Node(At(j)) => k = j
      BY <3>2, MountingHolds DEF Typed, Mounting
    <3>4. ASSUME SettledOnReceipt(i), NEW n \in ms, n.origin = m.origin PROVE FALSE
      <4>1. n.node = m.node
        BY <1>2, <3>1, <3>4 DEF Stays
      <4>2. i = j
        BY <1>2, <3>2, <3>3, <3>4, <4>1
      <4> QED BY <3>3, <3>4, <4>2
    <3> QED BY <1>2, <2>2, <3>4
  <2> QED BY <2>1, <2>2
<1>8. Accepted'
  <2> SUFFICES ASSUME NEW r \in DOMAIN runs', Handler(r)' \in MayPost, NEW m \in runs'[r].messages,
                      <<m.origin, "accepted">> \in ended'
               PROVE  \E q \in RunsOf(runs[r].mount, m.origin)' : Done(q)' /\ Whole(q)'
    BY Zenon DEF Accepted
  <2>1. r \in DOMAIN runs /\ <<m.origin, "accepted">> \in ended
    BY <1>2, <1>7
  <2>2. Handler(r) \in MayPost /\ m \in runs[r].messages
    BY <1>2, <1>3, <2>1
  <2>3. PICK q \in RunsOf(runs[r].mount, m.origin) : Done(q) /\ Whole(q)
    BY <2>1, <2>2 DEF Accepted
  <2>4. q \in RunsOf(runs[r].mount, m.origin)'
    BY <1>2, <2>1, <2>3 DEF RunsOf
  <2> QED BY <1>3, <1>6, <2>3, <2>4
<1>9. Rejected'
  <2> SUFFICES ASSUME NEW r \in DOMAIN runs', Handler(r)' \in MayPost, NEW m \in runs'[r].messages,
                      <<m.origin, "rejected">> \in ended'
               PROVE  runs'[r].plan.ends # "commit"
    BY Zenon DEF Rejected
  <2>1. r \in DOMAIN runs /\ <<m.origin, "rejected">> \in ended
    BY <1>2, <1>7
  <2>2. Handler(r) \in MayPost /\ m \in runs[r].messages /\ runs'[r] = runs[r]
    BY <1>2, <1>3, <2>1
  <2> QED BY <2>1, <2>2 DEF Rejected
<1>10. DoneOnce'
  <2> SUFFICES ASSUME NEW r \in DOMAIN runs', Done(r)', ~SettledOnReceipt(runs[r].mount)',
                      NEW m \in runs'[r].messages
               PROVE  /\ <<m.origin, "accepted">> \in ended'
                      /\ \A q \in RunsOf(runs[r].mount, m.origin)' : Done(q)' => q = r
    BY Zenon DEF DoneOnce
  <2>1. r \in DOMAIN runs /\ Done(r) /\ m \in runs[r].messages /\ runs'[r] = runs[r]
    BY <1>2, <1>3, <1>4
  <2>2. ~SettledOnReceipt(runs[r].mount)
    BY <1>1, <2>1 DEF SettledOnReceipt
  <2>3. /\ <<m.origin, "accepted">> \in ended
        /\ \A q \in RunsOf(runs[r].mount, m.origin) : Done(q) => q = r
    BY <2>1, <2>2 DEF DoneOnce
  <2>4. RunsOf(runs[r].mount, m.origin)' \subseteq RunsOf(runs[r].mount, m.origin) \cup {name}
    BY <1>2, <2>1 DEF RunsOf
  <2> QED BY <1>2, <1>3, <1>4, <1>6, <2>3, <2>4
<1>11. Died'
  <2> SUFFICES ASSUME NEW j \in Mounted, NEW o \in sent, ~SettledOnReceipt(j)
               PROVE  Cardinality(DeadOf(j, o)') <= crashes
    BY <1>1, <1>2 DEF Died, Mounted, Took
  <2>1. DeadOf(j, o)' = DeadOf(j, o)
    BY <1>2, <1>5, <1>6 DEF DeadOf
  <2> QED BY <2>1 DEF Died
<1> QED BY <1>8, <1>9, <1>10, <1>11

-----------------------------------------------------------------------------
(* Settlement: what becomes of each message of a run.                      *)

\* A redelivery is the message with its count one up, if it has one.
LEMMA RedeliveredIs ==
  ASSUME NEW m, MessageTyped(m)
  PROVE  LET x == Redelivered(m)
         IN  /\ MessageTyped(x)
             /\ x.origin = m.origin /\ x.node = m.node /\ x.body = m.body /\ x.asker = m.asker
             /\ m.count # NoHeader => Deliveries(x) = Deliveries(m) + 1
<1> DEFINE x == Redelivered(m)
<1>1. DOMAIN m = MessageFields /\ m.count \in Nat \cup {NoHeader} /\ m.tries \in Nat
      /\ m.body \in Seq(STRING)
  BY DEF MessageTyped
<1>2. /\ DOMAIN x = MessageFields
      /\ x.origin = m.origin /\ x.node = m.node /\ x.body = m.body /\ x.asker = m.asker
      /\ x.tries = m.tries
      /\ x.count = IF m.count = NoHeader THEN 1 ELSE m.count + 1
  BY <1>1 DEF Redelivered, MessageFields
<1> HIDE DEF x
<1>3. x.count \in Nat /\ x.count # NoHeader
  BY <1>1, <1>2 DEF NoHeader
<1>4. MessageTyped(x)
  BY <1>1, <1>2, <1>3 DEF MessageTyped
<1>5. m.count # NoHeader => Deliveries(x) = Deliveries(m) + 1
  BY <1>1, <1>2, <1>3 DEF Deliveries
<1> QED BY <1>2, <1>4, <1>5 DEF x

\* A copy is the message with its deliveries one up, under another address.
LEMMA CopyIs ==
  ASSUME NEW to, NEW m, MessageTyped(m)
  PROVE  LET c == CopyTo(to, m)
         IN  /\ c = [to |-> c.to, message |-> c.message]
             /\ c.to = to
             /\ MessageTyped(c.message)
             /\ c.message.origin = m.origin /\ c.message.body = m.body
             /\ c.message.asker = m.asker
             /\ Deliveries(c.message) = Deliveries(m) + 1
<1> DEFINE c == CopyTo(to, m)
           x == [m EXCEPT !.count = NoHeader, !.tries = Deliveries(m)]
<1>1. DOMAIN m = MessageFields /\ m.body \in Seq(STRING) /\ Deliveries(m) \in Nat
  BY DeliveriesNat DEF MessageTyped
<1>2. /\ DOMAIN x = MessageFields
      /\ x.origin = m.origin /\ x.body = m.body /\ x.asker = m.asker
      /\ x.tries = Deliveries(m) /\ x.count = NoHeader
  BY <1>1 DEF MessageFields
<1>3. c = [to |-> to, message |-> x]
  BY DEF CopyTo
<1> HIDE DEF x, c
<1>4. MessageTyped(x) /\ Deliveries(x) = Deliveries(m) + 1
  BY <1>1, <1>2 DEF MessageTyped, Deliveries
<1>5. c.to = to /\ c.message = x /\ c = [to |-> c.to, message |-> c.message]
  BY <1>3
<1> QED BY <1>2, <1>4, <1>5 DEF c

\* What a settlement leaves of one message.
BackOnly(mount, m, d) ==
    /\ d = [back |-> {Redelivered(m)}, copied |-> {}, how |-> {}, replaced |-> {}]
    /\ mount.cap = 0 \/ m.count # NoHeader
    /\ ~Spent(mount, m)

CopyOnly(mount, m, outcome, d) ==
    \E to :
        /\ d = [back |-> {}, copied |-> {CopyTo(to, m)}, how |-> {}, replaced |-> {m}]
        /\ \/ to = mount.from.address /\ ~Spent(mount, m) /\ (outcome = "later" \/ mount.cap # 0)
           \/ to = mount.dead /\ to # NoAddress /\ mount.cap # 0

EndOnly(mount, m, outcome, d) ==
    \E how :
        /\ d = [back |-> {}, copied |-> {}, how |-> {<<m.origin, how>>}, replaced |-> {}]
        /\ how \in {"accepted", "rejected"}
        /\ how = "accepted" <=> outcome = "ack"
        /\ how = "rejected" => outcome = "drop" \/ mount.cap # 0

\* It goes back, is copied, or ends: one of the three.
LEMMA DisposedIs ==
  ASSUME NEW mount, NEW m, NEW outcome \in Outcomes
  PROVE  LET d == Disposed(mount, m, outcome)
         IN  \/ BackOnly(mount, m, d)
             \/ CopyOnly(mount, m, outcome, d)
             \/ EndOnly(mount, m, outcome, d)
<1> DEFINE d == Disposed(mount, m, outcome)
<1>1. CASE outcome = "ack"
  <2>1. d = [back |-> {}, copied |-> {}, how |-> {<<m.origin, "accepted">>}, replaced |-> {}]
    BY <1>1 DEF Disposed, Nothing
  <2> HIDE DEF d
  <2>2. EndOnly(mount, m, outcome, d)
    <3>1. /\ "accepted" \in {"accepted", "rejected"}
          /\ "accepted" = "accepted" <=> outcome = "ack"
          /\ "accepted" = "rejected" => outcome = "drop" \/ mount.cap # 0
      BY <1>1
    <3> QED BY <2>1, <3>1, Zenon DEF EndOnly
  <2> QED BY <2>2 DEF d
<1>2. CASE outcome = "drop"
  <2>1. d = [back |-> {}, copied |-> {}, how |-> {<<m.origin, "rejected">>}, replaced |-> {}]
    BY <1>2 DEF Disposed, Nothing
  <2> HIDE DEF d
  <2>2. EndOnly(mount, m, outcome, d)
    BY <1>2, <2>1 DEF EndOnly
  <2> QED BY <2>2 DEF d
<1>3. CASE outcome \in {"retry", "later"} /\ Spent(mount, m)
  <2>0. mount.cap # 0
    BY <1>3 DEF Spent
  <2>1. CASE mount.dead = NoAddress
    <3>1. d = [back |-> {}, copied |-> {}, how |-> {<<m.origin, "rejected">>}, replaced |-> {}]
      BY <1>3, <2>1 DEF Disposed, Nothing
    <3> HIDE DEF d
    <3>2. EndOnly(mount, m, outcome, d)
      BY <1>3, <2>0, <3>1 DEF EndOnly
    <3> QED BY <3>2 DEF d
  <2>2. CASE mount.dead # NoAddress
    <3>1. d = [back |-> {}, copied |-> {CopyTo(mount.dead, m)}, how |-> {}, replaced |-> {m}]
      BY <1>3, <2>2 DEF Disposed, Copied, Nothing
    <3> HIDE DEF d
    <3>2. CopyOnly(mount, m, outcome, d)
      BY <2>0, <2>2, <3>1 DEF CopyOnly
    <3> QED BY <3>2 DEF d
  <2> QED BY <2>1, <2>2
<1>4. CASE outcome = "later" /\ ~Spent(mount, m)
  <2>1. d = [back |-> {}, copied |-> {CopyTo(mount.from.address, m)}, how |-> {}, replaced |-> {m}]
    BY <1>4 DEF Disposed, Copied, Nothing
  <2> HIDE DEF d
  <2>2. CopyOnly(mount, m, outcome, d)
    BY <1>4, <2>1 DEF CopyOnly
  <2> QED BY <2>2 DEF d
<1>5. CASE outcome = "retry" /\ ~Spent(mount, m)
  <2>1. CASE mount.cap = 0 \/ m.count # NoHeader
    <3>1. d = [back |-> {Redelivered(m)}, copied |-> {}, how |-> {}, replaced |-> {}]
      BY <1>5, <2>1 DEF Disposed, Nothing
    <3> HIDE DEF d
    <3>2. BackOnly(mount, m, d)
      BY <1>5, <2>1, <3>1 DEF BackOnly
    <3> QED BY <3>2 DEF d
  <2>2. CASE ~(mount.cap = 0 \/ m.count # NoHeader)
    <3>1. d = [back |-> {}, copied |-> {CopyTo(mount.from.address, m)}, how |-> {}, replaced |-> {m}]
      BY <1>5, <2>2 DEF Disposed, Copied, Nothing
    <3> HIDE DEF d
    <3>2. CopyOnly(mount, m, outcome, d)
      BY <1>5, <2>2, <3>1 DEF CopyOnly
    <3> QED BY <3>2 DEF d
  <2> QED BY <2>1, <2>2
<1> QED BY <1>1, <1>2, <1>3, <1>4, <1>5 DEF Outcomes

-----------------------------------------------------------------------------
(* Steps that move messages: none is new, no run begins, some may be over.  *)

\* A run is as it was, or over, or dead.
Ends(x, y) ==
    /\ DOMAIN y = DOMAIN x
    /\ y.mount = x.mount /\ y.messages = x.messages /\ y.plan = x.plan
    /\ y.posted = x.posted /\ y.shown = x.shown /\ y.outcome = x.outcome
    /\ \/ y.stage = x.stage
       \/ x.stage = "settling" /\ y.stage = "over"
       \/ x.stage \notin {"over", "dead"} /\ y.stage = "dead"

\* A message is one that was there, on its way to another place.
Derived(y) ==
    \E m \in Everywhere : y.origin = m.origin /\ y.body = m.body /\ y.asker = m.asker

\* No message or run is new, and no name is.
Moves ==
    /\ \A y \in Everywhere' : MessageTyped(y) /\ Derived(y)
    /\ \A c \in copies' : c = [to |-> c.to, message |-> c.message]
    /\ \A e \in ended' : e \in ended \/ (e = <<e[1], e[2]>> /\ \E m \in Everywhere : e[1] = m.origin)
    /\ DOMAIN runs' = DOMAIN runs
    /\ \A r \in DOMAIN runs : Ends(runs[r], runs'[r])
    /\ last' \in {last, last + 1}
    /\ crashes' \in {crashes, crashes + 1}
    /\ UNCHANGED <<service, sent>>

\* A run that ends is as far as its stage says.
LEMMA EndsKeeps ==
  ASSUME NEW x, NEW y, Ends(x, y), RunTyped(x)
  PROVE  RunTyped(y) /\ (Phase(x) => Phase(y))
<1>1. RunTyped(y)
  BY DEF Ends, RunTyped, Stages
<1>2. Phase(x) => Phase(y)
  BY DEF Ends, RunTyped, Phase, Stages
<1> QED BY <1>1, <1>2

LEMMA TypedMoves ==
  ASSUME Typed, Moves
  PROVE  Typed'
<1>1. ASSUME NEW r \in DOMAIN runs
      PROVE  /\ RunTyped(runs'[r]) /\ runs'[r].mount \in Mounted' /\ runs'[r].messages # {}
  <2>1. Ends(runs[r], runs'[r]) /\ RunTyped(runs[r])
    BY DEF Typed, Moves
  <2>2. Mounted' = Mounted
    BY ServiceStays DEF Moves
  <2> QED BY <2>1, <2>2, EndsKeeps DEF Typed, Ends
<1>2. \A e \in ended' : e = <<e[1], e[2]>>
  BY DEF Typed, Moves
<1>3. last' \in Nat /\ crashes' \in Nat
  BY DEF Typed, Moves
<1> QED BY <1>1, <1>2, <1>3 DEF Typed, Moves

LEMMA NamedMoves ==
  ASSUME Named, Moves
  PROVE  Named'
  BY DEF Named, Moves

LEMMA KnownMoves ==
  ASSUME Typed, Known, Moves
  PROVE  Known'
<1>1. \A m \in Everywhere' : m.origin \in sent'
  BY DEF Known, Moves, Derived
<1>2. \A e \in ended' : e[1] \in sent'
  BY DEF Known, Moves
<1>3. ASSUME NEW o \in sent PROVE o[1] <= last'
  <2>1. o[1] \in Nat /\ o[1] <= last /\ last \in Nat /\ last' \in {last, last + 1}
    BY DEF Typed, Known, Moves
  <2> QED BY <2>1
<1> QED BY <1>1, <1>2, <1>3 DEF Known, Moves

LEMMA OnNodeMoves ==
  ASSUME OnNode, Moves
  PROVE  OnNode'
  BY ServiceStays DEF OnNode, Moves, Ends

LEMMA HandlerMoves ==
  ASSUME Moves, NEW r \in DOMAIN runs
  PROVE  Handler(r)' = Handler(r)
<1>1. runs'[r].mount = runs[r].mount /\ service' = service
  BY DEF Moves, Ends
<1> QED BY <1>1 DEF Handler, At

LEMMA PhasedMoves ==
  ASSUME Typed, Phased, Moves
  PROVE  Phased'
<1> SUFFICES ASSUME NEW r \in DOMAIN runs
             PROVE  PlanFits(Handler(r)', runs'[r].plan) /\ Phase(runs'[r])
  BY DEF Phased, Moves
<1>1. Ends(runs[r], runs'[r]) /\ RunTyped(runs[r])
  BY DEF Typed, Moves
<1>2. PlanFits(Handler(r), runs[r].plan) /\ Phase(runs[r])
  BY DEF Phased
<1>3. runs'[r].plan = runs[r].plan
  BY <1>1 DEF Ends
<1> QED BY <1>1, <1>2, <1>3, EndsKeeps, HandlerMoves

LEMMA PlannedMoves ==
  ASSUME Planned, Moves
  PROVE  Planned'
<1> SUFFICES ASSUME NEW r \in DOMAIN runs, Handler(r)' \in MayPost
             PROVE  \E m \in runs'[r].messages :
                       runs'[r].messages = {m} /\ runs'[r].plan = Plan(Handler(r), m)'
  BY DEF Planned, Moves
<1>1. Handler(r)' = Handler(r) /\ runs'[r].messages = runs[r].messages
      /\ runs'[r].plan = runs[r].plan
  BY HandlerMoves DEF Moves, Ends
<1>2. PICK m \in runs[r].messages :
        runs[r].messages = {m} /\ runs[r].plan = Plan(Handler(r), m)
  BY <1>1 DEF Planned
<1>3. Plan(Handler(r), m)' = Plan(Handler(r), m)
  <2>1. Plan(Handler(r), m)' = Plan(Handler(r), m) <=> TRUE
    BY <1>1, PlanStays
  <2> QED BY <2>1
<1> QED BY <1>1, <1>2, <1>3

LEMMA AlikeMoves ==
  ASSUME Alike, Moves
  PROVE  Alike'
<1> SUFFICES ASSUME NEW a \in Everywhere', NEW b \in Everywhere', a.origin = b.origin
             PROVE  a.body = b.body /\ a.asker = b.asker
  BY DEF Alike
<1>1. PICK m \in Everywhere : a.origin = m.origin /\ a.body = m.body /\ a.asker = m.asker
  BY DEF Moves, Derived
<1>2. PICK n \in Everywhere : b.origin = n.origin /\ b.body = n.body /\ b.asker = n.asker
  BY DEF Moves, Derived
<1> QED BY <1>1, <1>2 DEF Alike

LEMMA RunsOfMoves ==
  ASSUME Moves, NEW i, NEW o
  PROVE  RunsOf(i, o)' = RunsOf(i, o)
  BY DEF RunsOf, Moves, Ends

-----------------------------------------------------------------------------
(* A run settles.                                                          *)

\* What the settlement of the run leaves of a message.
Left(r, m) == Disposed(At(runs[r].mount), m, runs[r].outcome)

\* Where a settlement puts a message.
LeftAs(kind, y, r, m) ==
    \/ kind = "queue" /\ y \in Left(r, m).back
    \/ kind = "copy" /\ y \in Left(r, m).copied
    \/ kind = "end" /\ y \in Left(r, m).how

\* The run is over, and what it leaves of its messages is where it goes.
Settled(r) ==
    /\ runs[r].stage = "settling"
    /\ DOMAIN runs' = DOMAIN runs
    /\ \A q \in DOMAIN runs \ {r} : runs'[q] = runs[q]
    /\ Ends(runs[r], runs'[r])
    /\ runs'[r].stage = "over"
    /\ SettledOnReceipt(runs[r].mount) => UNCHANGED <<queue, copies, ended, replaced>>
    /\ ~SettledOnReceipt(runs[r].mount) =>
          /\ queue' = queue \cup UNION {Left(r, m).back : m \in runs[r].messages}
          /\ copies' = copies \cup UNION {Left(r, m).copied : m \in runs[r].messages}
          /\ ended' = ended \cup UNION {Left(r, m).how : m \in runs[r].messages}
          /\ replaced' = replaced \cup UNION {Left(r, m).replaced : m \in runs[r].messages}
    /\ UNCHANGED <<service, sent, last, crashes>>

\* That is what Settle does.
LEMMA SettleSettled ==
  ASSUME Typed, NEW r \in DOMAIN runs, Settle(r)
  PROVE  Settled(r)
<1> DEFINE i == runs[r].mount
           ms == runs[r].messages
           results == {Disposed(At(i), m, runs[r].outcome) : m \in ms}
<1>1. results = {Left(r, m) : m \in ms}
  BY DEF Left
<1>2. /\ UNION {x.back : x \in results} = UNION {Left(r, m).back : m \in ms}
      /\ UNION {x.copied : x \in results} = UNION {Left(r, m).copied : m \in ms}
      /\ UNION {x.how : x \in results} = UNION {Left(r, m).how : m \in ms}
      /\ UNION {x.replaced : x \in results} = UNION {Left(r, m).replaced : m \in ms}
  <2> HIDE DEF results
  <2>1. /\ {x.back : x \in results} = {Left(r, m).back : m \in ms}
        /\ {x.copied : x \in results} = {Left(r, m).copied : m \in ms}
        /\ {x.how : x \in results} = {Left(r, m).how : m \in ms}
        /\ {x.replaced : x \in results} = {Left(r, m).replaced : m \in ms}
    BY <1>1
  <2> QED BY <2>1
<1>3. /\ runs[r].stage = "settling"
      /\ runs' = [runs EXCEPT ![r].stage = "over"]
      /\ IF SettledOnReceipt(i) THEN UNCHANGED <<queue, copies, ended, replaced>>
         ELSE /\ queue' = queue \cup UNION {x.back : x \in results}
              /\ copies' = copies \cup UNION {x.copied : x \in results}
              /\ ended' = ended \cup UNION {x.how : x \in results}
              /\ replaced' = replaced \cup UNION {x.replaced : x \in results}
      /\ UNCHANGED <<service, sent, last, crashes>>
  BY DEF Settle, Dispose, world
<1> HIDE DEF results
<1>4. DOMAIN runs[r] = RunFields
  BY DEF Typed, RunTyped
<1>5. /\ DOMAIN runs' = DOMAIN runs
      /\ \A q \in DOMAIN runs \ {r} : runs'[q] = runs[q]
      /\ runs'[r] = [runs[r] EXCEPT !.stage = "over"]
  BY <1>3
<1>6. Ends(runs[r], runs'[r]) /\ runs'[r].stage = "over"
  BY <1>3, <1>4, <1>5 DEF Ends, RunFields
<1>7. SettledOnReceipt(i) => UNCHANGED <<queue, copies, ended, replaced>>
  BY <1>3
<1>8. ~SettledOnReceipt(i) =>
          /\ queue' = queue \cup UNION {Left(r, m).back : m \in ms}
          /\ copies' = copies \cup UNION {Left(r, m).copied : m \in ms}
          /\ ended' = ended \cup UNION {Left(r, m).how : m \in ms}
          /\ replaced' = replaced \cup UNION {Left(r, m).replaced : m \in ms}
  BY <1>2, <1>3
<1> QED BY <1>3, <1>5, <1>6, <1>7, <1>8 DEF Settled

LEMMA LeftIs ==
  ASSUME Typed, NEW r \in DOMAIN runs, NEW m \in runs[r].messages
  PROVE  LET mount == At(runs[r].mount)
         IN  /\ MessageTyped(m) /\ m \in Everywhere
             /\ \/ BackOnly(mount, m, Left(r, m))
                \/ CopyOnly(mount, m, runs[r].outcome, Left(r, m))
                \/ EndOnly(mount, m, runs[r].outcome, Left(r, m))
<1>1. m \in Everywhere /\ MessageTyped(m) /\ runs[r].outcome \in Outcomes
  BY DEF Typed, Everywhere, RunTyped
<1> QED BY <1>1, DisposedIs DEF Left

\* A settlement puts each of its messages in one place.
LEMMA LeftOnce ==
  ASSUME Typed, NEW r \in DOMAIN runs, NEW m \in runs[r].messages
  PROVE  \E kind, y : /\ kind \in {"queue", "copy", "end"}
                      /\ LeftAs(kind, y, r, m)
                      /\ \A k, z : LeftAs(k, z, r, m) => k = kind /\ z = y
<1> DEFINE d == Left(r, m)
           mount == At(runs[r].mount)
<1>1. ASSUME BackOnly(mount, m, d)
      PROVE  \E kind, y : /\ kind \in {"queue", "copy", "end"}
                          /\ LeftAs(kind, y, r, m)
                          /\ \A k, z : LeftAs(k, z, r, m) => k = kind /\ z = y
  <2>1. d.back = {Redelivered(m)} /\ d.copied = {} /\ d.how = {}
    BY <1>1 DEF BackOnly
  <2>2. LeftAs("queue", Redelivered(m), r, m)
        /\ \A k, z : LeftAs(k, z, r, m) => k = "queue" /\ z = Redelivered(m)
    BY <2>1 DEF LeftAs
  <2> QED BY <2>2
<1>2. ASSUME CopyOnly(mount, m, runs[r].outcome, d)
      PROVE  \E kind, y : /\ kind \in {"queue", "copy", "end"}
                          /\ LeftAs(kind, y, r, m)
                          /\ \A k, z : LeftAs(k, z, r, m) => k = kind /\ z = y
  <2>1. PICK to : d = [back |-> {}, copied |-> {CopyTo(to, m)}, how |-> {}, replaced |-> {m}]
    BY <1>2 DEF CopyOnly
  <2>2. d.back = {} /\ d.copied = {CopyTo(to, m)} /\ d.how = {}
    BY <2>1
  <2>3. LeftAs("copy", CopyTo(to, m), r, m)
        /\ \A k, z : LeftAs(k, z, r, m) => k = "copy" /\ z = CopyTo(to, m)
    BY <2>2 DEF LeftAs
  <2> QED BY <2>3
<1>3. ASSUME EndOnly(mount, m, runs[r].outcome, d)
      PROVE  \E kind, y : /\ kind \in {"queue", "copy", "end"}
                          /\ LeftAs(kind, y, r, m)
                          /\ \A k, z : LeftAs(k, z, r, m) => k = kind /\ z = y
  <2>1. PICK how : d = [back |-> {}, copied |-> {}, how |-> {<<m.origin, how>>}, replaced |-> {}]
    BY <1>3 DEF EndOnly
  <2>2. d.back = {} /\ d.copied = {} /\ d.how = {<<m.origin, how>>}
    BY <2>1
  <2>3. LeftAs("end", <<m.origin, how>>, r, m)
        /\ \A k, z : LeftAs(k, z, r, m) => k = "end" /\ z = <<m.origin, how>>
    BY <2>2 DEF LeftAs
  <2> QED BY <2>3
<1> QED BY <1>1, <1>2, <1>3, LeftIs

\* What each of those places holds.
LEMMA LeftBack ==
  ASSUME Typed, NEW r \in DOMAIN runs, NEW m \in runs[r].messages, NEW y \in Left(r, m).back
  PROVE  LET mount == At(runs[r].mount)
         IN  /\ y = Redelivered(m)
             /\ mount.cap = 0 \/ m.count # NoHeader
             /\ ~Spent(mount, m)
<1> DEFINE mount == At(runs[r].mount)
           d == Left(r, m)
<1>1. ~CopyOnly(mount, m, runs[r].outcome, d) /\ ~EndOnly(mount, m, runs[r].outcome, d)
  BY DEF CopyOnly, EndOnly
<1>2. BackOnly(mount, m, d)
  BY <1>1, LeftIs
<1> QED BY <1>2 DEF BackOnly

LEMMA LeftCopied ==
  ASSUME Typed, NEW r \in DOMAIN runs, NEW m \in runs[r].messages, NEW c \in Left(r, m).copied
  PROVE  LET mount == At(runs[r].mount)
         IN  \E to :
                /\ c = CopyTo(to, m)
                /\ \/ /\ to = mount.from.address /\ ~Spent(mount, m)
                      /\ runs[r].outcome = "later" \/ mount.cap # 0
                   \/ to = mount.dead /\ to # NoAddress /\ mount.cap # 0
<1> DEFINE mount == At(runs[r].mount)
           d == Left(r, m)
<1>1. ~BackOnly(mount, m, d) /\ ~EndOnly(mount, m, runs[r].outcome, d)
  BY DEF BackOnly, EndOnly
<1>2. CopyOnly(mount, m, runs[r].outcome, d)
  BY <1>1, LeftIs
<1> QED BY <1>2 DEF CopyOnly

LEMMA LeftEnded ==
  ASSUME Typed, NEW r \in DOMAIN runs, NEW m \in runs[r].messages, NEW e \in Left(r, m).how
  PROVE  /\ e \in {<<m.origin, "accepted">>, <<m.origin, "rejected">>}
         /\ e = <<m.origin, "accepted">> <=> runs[r].outcome = "ack"
         /\ e = <<m.origin, "rejected">> =>
               runs[r].outcome = "drop" \/ At(runs[r].mount).cap # 0
<1> DEFINE mount == At(runs[r].mount)
           d == Left(r, m)
<1>1. ~BackOnly(mount, m, d) /\ ~CopyOnly(mount, m, runs[r].outcome, d)
  BY DEF BackOnly, CopyOnly
<1>2. EndOnly(mount, m, runs[r].outcome, d)
  BY <1>1, LeftIs
<1>3. PICK how : /\ d = [back |-> {}, copied |-> {}, how |-> {<<m.origin, how>>}, replaced |-> {}]
                 /\ how \in {"accepted", "rejected"}
                 /\ how = "accepted" <=> runs[r].outcome = "ack"
                 /\ how = "rejected" => runs[r].outcome = "drop" \/ mount.cap # 0
  BY <1>2 DEF EndOnly
<1>4. e = <<m.origin, how>>
  BY <1>3
<1> QED BY <1>3, <1>4

\* A message that is copied is rejected for it.
LEMMA LeftReplaced ==
  ASSUME Typed, NEW r \in DOMAIN runs, NEW m \in runs[r].messages, NEW c \in Left(r, m).copied
  PROVE  m \in Left(r, m).replaced
<1> DEFINE mount == At(runs[r].mount)
           d == Left(r, m)
<1>1. ~BackOnly(mount, m, d) /\ ~EndOnly(mount, m, runs[r].outcome, d)
  BY DEF BackOnly, EndOnly
<1>2. CopyOnly(mount, m, runs[r].outcome, d)
  BY <1>1, LeftIs
<1> QED BY <1>2 DEF CopyOnly

\* It puts the message itself there, or a copy.
LEMMA LeftOrigin ==
  ASSUME Typed, NEW r \in DOMAIN runs, NEW m \in runs[r].messages
  PROVE  /\ \A y \in Left(r, m).back :
               /\ MessageTyped(y) /\ y.node = m.node
               /\ y.origin = m.origin /\ y.body = m.body /\ y.asker = m.asker
         /\ \A c \in Left(r, m).copied :
               /\ c = [to |-> c.to, message |-> c.message]
               /\ MessageTyped(c.message) /\ c.message.origin = m.origin
               /\ c.message.body = m.body /\ c.message.asker = m.asker
         /\ \A e \in Left(r, m).how : e = <<e[1], e[2]>> /\ e[1] = m.origin
<1>0. MessageTyped(m)
  BY LeftIs
<1>1. ASSUME NEW y \in Left(r, m).back
      PROVE  /\ MessageTyped(y) /\ y.node = m.node
             /\ y.origin = m.origin /\ y.body = m.body /\ y.asker = m.asker
  BY <1>0, <1>1, LeftBack, RedeliveredIs
<1>2. ASSUME NEW c \in Left(r, m).copied
      PROVE  /\ c = [to |-> c.to, message |-> c.message]
             /\ MessageTyped(c.message) /\ c.message.origin = m.origin
             /\ c.message.body = m.body /\ c.message.asker = m.asker
  <2>1. PICK to : c = CopyTo(to, m)
    BY LeftCopied
  <2> QED BY <1>0, <2>1, CopyIs
<1>3. ASSUME NEW e \in Left(r, m).how PROVE e = <<e[1], e[2]>> /\ e[1] = m.origin
  BY LeftEnded
<1> QED BY <1>1, <1>2, <1>3

\* A settlement only moves messages.
LEMMA SettledMoves ==
  ASSUME Typed, NEW r \in DOMAIN runs, Settled(r)
  PROVE  Moves
<1> DEFINE ms == runs[r].messages
<1>1. /\ DOMAIN runs' = DOMAIN runs
      /\ \A q \in DOMAIN runs : Ends(runs[q], runs'[q])
      /\ \A q \in DOMAIN runs : runs'[q].messages = runs[q].messages
  BY DEF Settled, Ends
<1>2. \A y \in queue' : y \in queue \/ \E m \in ms : y \in Left(r, m).back
  BY DEF Settled
<1>3. \A c \in copies' : c \in copies \/ \E m \in ms : c \in Left(r, m).copied
  BY DEF Settled
<1>4. \A e \in ended' : e \in ended \/ \E m \in ms : e \in Left(r, m).how
  BY DEF Settled
<1>5. ms \subseteq Everywhere
  BY DEF Everywhere
<1>6. \A y \in Everywhere : MessageTyped(y) /\ Derived(y)
  BY DEF Typed, Derived
<1>7. ASSUME NEW y \in queue' PROVE MessageTyped(y) /\ Derived(y)
  <2>1. CASE y \in queue
    BY <1>6, <2>1 DEF Everywhere
  <2>2. ASSUME NEW m \in ms, y \in Left(r, m).back PROVE MessageTyped(y) /\ Derived(y)
    BY <1>5, <2>2, LeftOrigin DEF Derived
  <2> QED BY <1>2, <2>1, <2>2
<1>8. ASSUME NEW c \in copies'
      PROVE  /\ c = [to |-> c.to, message |-> c.message]
             /\ MessageTyped(c.message) /\ Derived(c.message)
  <2>1. CASE c \in copies
    BY <1>6, <2>1 DEF Typed, Everywhere
  <2>2. ASSUME NEW m \in ms, c \in Left(r, m).copied
        PROVE  /\ c = [to |-> c.to, message |-> c.message]
               /\ MessageTyped(c.message) /\ Derived(c.message)
    BY <1>5, <2>2, LeftOrigin DEF Derived
  <2> QED BY <1>3, <2>1, <2>2
<1>9. ASSUME NEW q \in DOMAIN runs', NEW y \in runs'[q].messages
      PROVE  MessageTyped(y) /\ Derived(y)
  <2>1. y \in Everywhere
    BY <1>1, <1>9 DEF Everywhere
  <2> QED BY <1>6, <2>1
<1>10. \A y \in Everywhere' : MessageTyped(y) /\ Derived(y)
  <2> DEFINE A == {runs'[q].messages : q \in DOMAIN runs'}
  <2>1. \A y \in UNION A : MessageTyped(y) /\ Derived(y)
    BY <1>9
  <2>2. Everywhere' = queue' \cup {c.message : c \in copies'} \cup UNION A
    BY DEF Everywhere
  <2> HIDE DEF A
  <2> QED BY <1>7, <1>8, <2>1, <2>2
<1>11. ASSUME NEW e \in ended'
       PROVE  e \in ended \/ (e = <<e[1], e[2]>> /\ \E m \in Everywhere : e[1] = m.origin)
  BY <1>4, <1>5, LeftOrigin
<1> QED BY <1>1, <1>8, <1>10, <1>11 DEF Moves, Settled

LEMMA FiniteSettled ==
  ASSUME Typed, Finite, NEW r \in DOMAIN runs, Settled(r)
  PROVE  Finite'
<1> DEFINE ms == runs[r].messages
           f == [m \in ms |-> Redelivered(m)]
           back == UNION {Left(r, m).back : m \in ms}
<1>1. IsFiniteSet({f[m] : m \in DOMAIN f})
  <2>1. DOMAIN f = ms /\ f = [m \in DOMAIN f |-> f[m]] /\ IsFiniteSet(ms)
    BY DEF Finite
  <2> HIDE DEF f
  <2> QED BY <2>1, ImageIsFinite
<1>2. back \subseteq {f[m] : m \in DOMAIN f}
  BY LeftBack
<1>3. queue' = queue \/ queue' = queue \cup back
  BY DEF Settled
<1>4. \A q \in DOMAIN runs : runs'[q].messages = runs[q].messages
  BY DEF Settled, Ends
<1> HIDE DEF f, back
<1>5. IsFiniteSet(queue')
  BY <1>1, <1>2, <1>3, FS_Subset, FS_Union DEF Finite
<1> QED BY <1>4, <1>5 DEF Finite, Settled

\* The run holds nothing any more; the others hold what they held.
LEMMA SettledHolds ==
  ASSUME Typed, NEW r \in DOMAIN runs, Settled(r)
  PROVE  /\ \A q \in DOMAIN runs : Holds(q)' <=> Holds(q) /\ q # r
         /\ Holds(r) <=> ~SettledOnReceipt(runs[r].mount)
<1>1. \A q \in DOMAIN runs : runs'[q].mount = runs[q].mount
  BY DEF Settled, Ends
<1>2. \A q \in DOMAIN runs :
        SettledOnReceipt(runs[q].mount)' <=> SettledOnReceipt(runs[q].mount)
  BY <1>1 DEF SettledOnReceipt, At, Settled
<1> QED BY <1>2 DEF Holds, Live, Settled

\* Its messages are where it left them, all else is where it was.
LEMMA PlaceSettled ==
  ASSUME Typed, NEW r \in DOMAIN runs, Settled(r), NEW k, NEW q, NEW y, NEW o
  PROVE  Place(k, q, y, o)' <=>
            \/ Place(k, q, y, o) /\ ~(k = "run" /\ q = r)
            \/ /\ Holds(r) /\ q = NoRun
               /\ \E m \in runs[r].messages : m.origin = o /\ LeftAs(k, y, r, m)
<1> DEFINE ms == runs[r].messages
           news == Holds(r) /\ q = NoRun /\ \E m \in ms : m.origin = o /\ LeftAs(k, y, r, m)
<1>1. CASE k = "run"
  <2>1. ~news
    BY <1>1 DEF LeftAs
  <2>2. q \in DOMAIN runs => runs'[q].messages = runs[q].messages
    BY DEF Settled, Ends
  <2>3. Place(k, q, y, o)' <=> Place(k, q, y, o) /\ q # r
    BY <1>1, <2>2, SettledHolds DEF Place, Settled
  <2> QED BY <1>1, <2>1, <2>3
<1>2. CASE k = "queue"
  <2>1. y \in queue' <=> y \in queue \/ (Holds(r) /\ \E m \in ms : y \in Left(r, m).back)
    BY SettledHolds DEF Settled
  <2>2. \A m \in ms : y \in Left(r, m).back => y.origin = m.origin
    BY LeftOrigin
  <2>3. \A m \in ms : LeftAs(k, y, r, m) <=> y \in Left(r, m).back
    BY <1>2 DEF LeftAs
  <2>4. Place(k, q, y, o)' <=> q = NoRun /\ y \in queue' /\ y.origin = o
    BY <1>2 DEF Place
  <2>5. Place(k, q, y, o) <=> q = NoRun /\ y \in queue /\ y.origin = o
    BY <1>2 DEF Place
  <2> QED BY <1>2, <2>1, <2>2, <2>3, <2>4, <2>5
<1>3. CASE k = "copy"
  <2>1. y \in copies' <=> y \in copies \/ (Holds(r) /\ \E m \in ms : y \in Left(r, m).copied)
    BY SettledHolds DEF Settled
  <2>2. \A m \in ms : y \in Left(r, m).copied => y.message.origin = m.origin
    BY LeftOrigin
  <2>3. \A m \in ms : LeftAs(k, y, r, m) <=> y \in Left(r, m).copied
    BY <1>3 DEF LeftAs
  <2>4. Place(k, q, y, o)' <=> q = NoRun /\ y \in copies' /\ y.message.origin = o
    BY <1>3 DEF Place
  <2>5. Place(k, q, y, o) <=> q = NoRun /\ y \in copies /\ y.message.origin = o
    BY <1>3 DEF Place
  <2> QED BY <1>3, <2>1, <2>2, <2>3, <2>4, <2>5
<1>4. CASE k = "end"
  <2>1. y \in ended' <=> y \in ended \/ (Holds(r) /\ \E m \in ms : y \in Left(r, m).how)
    BY SettledHolds DEF Settled
  <2>2. \A m \in ms : y \in Left(r, m).how => y[1] = m.origin
    BY LeftOrigin
  <2>3. \A m \in ms : LeftAs(k, y, r, m) <=> y \in Left(r, m).how
    BY <1>4 DEF LeftAs
  <2>4. Place(k, q, y, o)' <=> q = NoRun /\ y \in ended' /\ y[1] = o
    BY <1>4 DEF Place
  <2>5. Place(k, q, y, o) <=> q = NoRun /\ y \in ended /\ y[1] = o
    BY <1>4 DEF Place
  <2> QED BY <1>4, <2>1, <2>2, <2>3, <2>4, <2>5
<1>5. CASE k \notin {"run", "queue", "copy", "end"}
  BY <1>5 DEF Place, LeftAs
<1> QED BY <1>1, <1>2, <1>3, <1>4, <1>5

LEMMA KeptSettled ==
  ASSUME Typed, Kept, NEW r \in DOMAIN runs, Settled(r)
  PROVE  Kept'
<1> DEFINE ms == runs[r].messages
<1>1. replaced \subseteq replaced'
  BY DEF Settled
<1> SUFFICES ASSUME NEW c \in copies' PROVE \E m \in replaced' : m.origin = c.message.origin
  BY DEF Kept
<1>2. CASE c \in copies
  BY <1>1, <1>2 DEF Kept
<1>3. CASE c \notin copies
  <2>1. ~SettledOnReceipt(runs[r].mount)
    BY <1>3 DEF Settled
  <2>2. PICK m \in ms : c \in Left(r, m).copied
    BY <1>3, <2>1 DEF Settled
  <2>3. m \in Left(r, m).replaced
    BY <2>2, LeftReplaced
  <2>4. m \in replaced'
    BY <2>1, <2>3 DEF Settled
  <2>5. m.origin = c.message.origin
    BY <2>2, LeftOrigin
  <2> QED BY <2>4, <2>5
<1> QED BY <1>2, <1>3

LEMMA InOnePlaceSettled ==
  ASSUME Typed, InOnePlace, NEW r \in DOMAIN runs, Settled(r)
  PROVE  InOnePlace'
<1> SUFFICES ASSUME NEW o \in sent PROVE (\E k, q, x : PlacedAt(k, q, x, o)') \/ Lost(o)'
  BY DEF InOnePlace, Settled
<1> DEFINE ms == runs[r].messages
<1>0. CASE Lost(o)
  <2>1. ~(Holds(r) /\ \E m \in ms : m.origin = o)
    BY <1>0 DEF Lost, Place
  <2>2. \A kk, qq, z : ~Place(kk, qq, z, o)'
    BY <1>0, <2>1, PlaceSettled DEF Lost
  <2>3. replaced \subseteq replaced' /\ crashes' = crashes
    BY DEF Settled
  <2> QED BY <1>0, <2>2, <2>3 DEF Lost
<1> SUFFICES ASSUME ~Lost(o) PROVE \E k, q, x : PlacedAt(k, q, x, o)'
  BY <1>0
<1>1. PICK k, q, x : PlacedAt(k, q, x, o)
  BY DEF InOnePlace
<1>2. ASSUME Holds(r), NEW m \in ms, m.origin = o PROVE k = "run" /\ q = r /\ x = m
  <2>1. Place("run", r, m, o)
    BY <1>2 DEF Place
  <2> QED BY <1>1, <2>1 DEF PlacedAt
<1>3. CASE k = "run" /\ q = r
  <2>1. Holds(r) /\ x \in ms /\ x.origin = o
    BY <1>1, <1>3 DEF PlacedAt, Place
  <2>2. PICK kind, y : LeftAs(kind, y, r, x) /\ \A kk, z : LeftAs(kk, z, r, x) => kk = kind /\ z = y
    BY <2>1, LeftOnce
  <2>3. \A kk, qq, z : Place(kk, qq, z, o)' =>
           qq = NoRun /\ \E m \in ms : m.origin = o /\ LeftAs(kk, z, r, m)
    BY <1>1, <1>3, PlaceSettled DEF PlacedAt
  <2>4. \A kk, qq, z : Place(kk, qq, z, o)' => kk = kind /\ qq = NoRun /\ z = y
    BY <1>2, <2>1, <2>2, <2>3
  <2>5. Place(kind, NoRun, y, o)'
    BY <2>1, <2>2, PlaceSettled
  <2>6. PlacedAt(kind, NoRun, y, o)'
    BY <2>4, <2>5 DEF PlacedAt
  <2> QED BY <2>6
<1>4. CASE ~(k = "run" /\ q = r)
  <2>1. ~(Holds(r) /\ \E m \in ms : m.origin = o)
    BY <1>2, <1>4
  <2>2. \A kk, qq, z : Place(kk, qq, z, o)' <=> Place(kk, qq, z, o)
    <3> SUFFICES ASSUME NEW kk, NEW qq, NEW z
                 PROVE  Place(kk, qq, z, o)' <=> Place(kk, qq, z, o)
      OBVIOUS
    <3>1. Place(kk, qq, z, o) => ~(kk = "run" /\ qq = r)
      BY <1>1, <1>4 DEF PlacedAt
    <3> QED BY <2>1, <3>1, PlaceSettled
  <2>3. PlacedAt(k, q, x, o)'
    BY <1>1, <2>2 DEF PlacedAt
  <2> QED BY <2>3
<1> QED BY <1>3, <1>4

\* A copy goes back to the node its message came from, unless it is a dead
\* letter, which no capped mount reads.
LEMMA LeftCopyReaches ==
  ASSUME Typed, Phased, NEW r \in DOMAIN runs, Holds(r), NEW m \in runs[r].messages,
         NEW c \in Left(r, m).copied
  PROVE  LET mount == At(runs[r].mount)
         IN  /\ c = CopyTo(c.to, m)
             /\ \/ Reached(c.to) = {Node(mount)} /\ ~Spent(mount, m)
                \/ /\ mount.cap # 0
                   /\ \E n : /\ Reached(c.to) = {n}
                             /\ \A j \in Mounted : Node(At(j)) = n => At(j).cap = 0
<1> DEFINE i == runs[r].mount
           mount == At(i)
<1>1. PICK to : /\ c = CopyTo(to, m)
                /\ \/ /\ to = mount.from.address /\ ~Spent(mount, m)
                      /\ runs[r].outcome = "later" \/ mount.cap # 0
                   \/ to = mount.dead /\ to # NoAddress /\ mount.cap # 0
  BY LeftCopied
<1>2. c.to = to
  BY <1>1, CopyIs, LeftIs
<1>3. i \in Mounted /\ Mounting(i) /\ ~SettledOnReceipt(i)
  BY MountingHolds DEF Typed, Holds
<1>4. runs[r].outcome = "later" => mount.handler \in MayDelay
  BY DEF Phased, Phase, PlanFits, Handler
<1>5. (mount.cap # 0 \/ mount.handler \in MayDelay) => Reached(mount.from.address) = {Node(mount)}
  BY <1>3 DEF Mounting
<1>6. (mount.cap # 0 /\ mount.dead # NoAddress) =>
          \E n : /\ Reached(mount.dead) = {n}
                 /\ \A j \in Mounted : Node(At(j)) = n => At(j).cap = 0
  BY <1>3 DEF Mounting
<1> HIDE DEF mount
<1>7. CASE /\ to = mount.from.address /\ ~Spent(mount, m)
           /\ runs[r].outcome = "later" \/ mount.cap # 0
  BY <1>1, <1>2, <1>4, <1>5, <1>7 DEF mount
<1>8. CASE to = mount.dead /\ to # NoAddress /\ mount.cap # 0
  BY <1>1, <1>2, <1>6, <1>8 DEF mount
<1> QED BY <1>1, <1>7, <1>8

LEMMA CopyingSettled ==
  ASSUME Typed, Phased, Copying, NEW r \in DOMAIN runs, Settled(r)
  PROVE  Copying'
<1> SUFFICES ASSUME NEW c \in copies' PROVE \E n \in Reached(c.to) : Reached(c.to) = {n}
  BY ServiceStays DEF Copying, Settled
<1>1. CASE c \in copies
  BY <1>1 DEF Copying
<1>2. ASSUME Holds(r), NEW m \in runs[r].messages, c \in Left(r, m).copied
      PROVE  \E n : Reached(c.to) = {n}
  <2>1. \/ Reached(c.to) = {Node(At(runs[r].mount))}
        \/ \E n : Reached(c.to) = {n} /\ \A j \in Mounted : Node(At(j)) = n => At(j).cap = 0
    BY <1>2, LeftCopyReaches
  <2> QED BY <2>1
<1> QED BY <1>1, <1>2, SettledHolds DEF Settled

\* A budget that suffices for few attempts does for more.
LEMMA BudgetGrows ==
  ASSUME Typed, Finite, NEW i, NEW o, NEW few \in Int, NEW most \in Int, few <= most,
         Budget(i, o, few)
  PROVE  Budget(i, o, most)
<1>1. Cardinality(RunsOf(i, o)) \in Nat /\ crashes \in Nat
  BY RunsOfFinite DEF Typed
<1> QED BY <1>1 DEF Budget

\* What goes back or is copied for a capped mount has an attempt left, or it is
\* a dead letter.
LEMMA AttemptsSettled ==
  ASSUME Typed, Finite, Phased, OnNode, Attempts, NEW r \in DOMAIN runs, Settled(r)
  PROVE  Attempts'
<1>1. Mounted' = Mounted /\ (\A j : At(j)' = At(j)) /\ \A a : Reached(a)' = Reached(a)
  BY ServiceStays DEF Settled
<1>2. /\ \A q \in DOMAIN runs : /\ Holds(q)' <=> Holds(q) /\ q # r
                                /\ runs'[q].mount = runs[q].mount
                                /\ runs'[q].messages = runs[q].messages
      /\ DOMAIN runs' = DOMAIN runs /\ sent' = sent
  BY SettledHolds DEF Settled, Ends
<1>3. \A j, o, most : Budget(j, o, most)' <=> Budget(j, o, most)
  BY SettledMoves, RunsOfMoves DEF Budget, Settled
<1>4. \A m : Deliveries(m)' = Deliveries(m)
  BY DEF Deliveries
<1> SUFFICES ASSUME NEW j \in Mounted, At(j).cap # 0
    PROVE  /\ \A m \in queue' : m.node = Node(At(j)) =>
                 Budget(j, m.origin, Deliveries(m) - 1) /\ Budget(j, m.origin, At(j).cap - 1)
           /\ \A c \in copies' : Reached(c.to) = {Node(At(j))} =>
                 Budget(j, c.message.origin, Deliveries(c.message) - 1)
                 /\ Budget(j, c.message.origin, At(j).cap - 1)
  <2>1. ASSUME NEW j \in Mounted, At(j).cap # 0
        PROVE  /\ \A o \in sent : Budget(j, o, At(j).cap)
               /\ \A q \in DOMAIN runs : runs[q].mount = j /\ Holds(q) =>
                     \A m \in runs[q].messages : Budget(j, m.origin, Deliveries(m))
    BY <2>1 DEF Attempts
  <2> QED BY <1>1, <1>2, <1>3, <1>4, <2>1, Zenon DEF Attempts
<1> DEFINE i == runs[r].mount
<1>5. i \in Mounted /\ Mounting(j) /\ At(j).cap \in Nat
  BY MountingHolds DEF Typed, Mounting
<1>6. Node(At(i)) = Node(At(j)) => i = j
  BY <1>5 DEF Mounting
<1>7. ASSUME NEW m \in runs[r].messages, Holds(r), i = j, ~Spent(At(j), m)
      PROVE  /\ Budget(j, m.origin, Deliveries(m))
             /\ Budget(j, m.origin, At(j).cap - 1)
             /\ Deliveries(m) \in Nat
  <2>1. Deliveries(m) \in Nat
    BY LeftIs, DeliveriesNat
  <2>2. Budget(j, m.origin, Deliveries(m))
    BY <1>7 DEF Attempts
  <2>3. Deliveries(m) <= At(j).cap - 1 /\ At(j).cap - 1 \in Int
    BY <1>5, <1>7, <2>1 DEF Spent
  <2> QED BY <2>1, <2>2, <2>3, BudgetGrows
<1>8. ASSUME NEW n \in queue', n.node = Node(At(j))
      PROVE  Budget(j, n.origin, Deliveries(n) - 1) /\ Budget(j, n.origin, At(j).cap - 1)
  <2>1. CASE n \in queue
    BY <1>8, <2>1 DEF Attempts
  <2>2. ASSUME Holds(r), NEW m \in runs[r].messages, n \in Left(r, m).back
        PROVE  Budget(j, n.origin, Deliveries(n) - 1) /\ Budget(j, n.origin, At(j).cap - 1)
    <3>1. n.node = m.node /\ n.origin = m.origin
      BY <2>2, LeftOrigin
    <3>2. i = j
      BY <1>6, <1>8, <3>1 DEF OnNode
    <3>3. n = Redelivered(m) /\ m.count # NoHeader /\ ~Spent(At(j), m)
      BY <2>2, <3>2, LeftBack
    <3>4. Deliveries(n) = Deliveries(m) + 1
      BY <3>3, RedeliveredIs, LeftIs
    <3>5. /\ Budget(j, m.origin, Deliveries(m))
          /\ Budget(j, m.origin, At(j).cap - 1)
          /\ Deliveries(m) \in Nat
      BY <1>7, <2>2, <3>2, <3>3
    <3>6. Deliveries(n) - 1 = Deliveries(m)
      BY <3>4, <3>5
    <3> QED BY <3>1, <3>5, <3>6
  <2> QED BY <2>1, <2>2, SettledHolds DEF Settled
<1>9. ASSUME NEW c \in copies', Reached(c.to) = {Node(At(j))}
      PROVE  /\ Budget(j, c.message.origin, Deliveries(c.message) - 1)
             /\ Budget(j, c.message.origin, At(j).cap - 1)
  <2>1. CASE c \in copies
    BY <1>9, <2>1 DEF Attempts
  <2>2. ASSUME Holds(r), NEW m \in runs[r].messages, c \in Left(r, m).copied
        PROVE  /\ Budget(j, c.message.origin, Deliveries(c.message) - 1)
               /\ Budget(j, c.message.origin, At(j).cap - 1)
    <3>1. /\ c = CopyTo(c.to, m)
          /\ \/ Reached(c.to) = {Node(At(i))} /\ ~Spent(At(i), m)
             \/ \E n : /\ Reached(c.to) = {n}
                       /\ \A k \in Mounted : Node(At(k)) = n => At(k).cap = 0
      BY <2>2, LeftCopyReaches
    <3>2. Reached(c.to) = {Node(At(i))} /\ ~Spent(At(i), m)
      BY <1>9, <3>1
    <3>3. i = j
      BY <1>6, <1>9, <3>2
    <3>4. Deliveries(c.message) = Deliveries(m) + 1 /\ c.message.origin = m.origin
      BY <3>1, CopyIs, LeftIs
    <3>5. /\ Budget(j, m.origin, Deliveries(m))
          /\ Budget(j, m.origin, At(j).cap - 1)
          /\ Deliveries(m) \in Nat
      BY <1>7, <2>2, <3>2, <3>3
    <3>6. Deliveries(c.message) - 1 = Deliveries(m)
      BY <3>4, <3>5
    <3> QED BY <3>4, <3>5, <3>6
  <2> QED BY <2>1, <2>2, SettledHolds DEF Settled
<1> QED BY <1>8, <1>9

-----------------------------------------------------------------------------
(* Whoever holds a message of a posting handler is that handler.           *)

LEMMA SamePoster ==
  ASSUME Typed, OnNode, Stays, NEW r \in DOMAIN runs, Handler(r) \in MayPost,
         NEW m \in runs[r].messages, NEW q \in DOMAIN runs, Holds(q),
         NEW n \in runs[q].messages, n.origin = m.origin
  PROVE  /\ runs[q].mount = runs[r].mount /\ Handler(q) \in MayPost
         /\ m.node = Node(At(runs[r].mount)) /\ n.node = m.node
         /\ At(runs[r].mount).cap = 0 /\ ~SettledOnReceipt(runs[r].mount)
<1>1. n.node = m.node
  BY DEF Stays
<1>2. m.node = Node(At(runs[r].mount)) /\ n.node = Node(At(runs[q].mount))
  BY DEF OnNode
<1>3. runs[r].mount \in Mounted /\ runs[q].mount \in Mounted /\ Mounting(runs[r].mount)
      /\ At(runs[r].mount).handler \in MayPost
  BY MountingHolds DEF Typed, Handler
<1>4. runs[q].mount = runs[r].mount
  BY <1>1, <1>2, <1>3 DEF Mounting
<1> QED BY <1>1, <1>2, <1>3, <1>4 DEF Mounting, Handler

LEMMA StaysSettled ==
  ASSUME Typed, Phased, OnNode, Stays, NEW r \in DOMAIN runs, Settled(r)
  PROVE  Stays'
<1>1. \A a : Reached(a)' = Reached(a)
  BY ServiceStays DEF Settled
<1>2. /\ \A q \in DOMAIN runs : /\ Holds(q)' => Holds(q)
                                /\ runs'[q].messages = runs[q].messages
                                /\ Handler(q)' = Handler(q)
      /\ DOMAIN runs' = DOMAIN runs
  BY SettledHolds, SettledMoves, HandlerMoves DEF Settled, Ends
<1> SUFFICES ASSUME NEW p \in DOMAIN runs, Handler(p) \in MayPost, NEW m \in runs[p].messages
    PROVE  /\ \A n \in queue' : n.origin = m.origin => n.node = m.node
           /\ \A c \in copies' : c.message.origin = m.origin => Reached(c.to) = {m.node}
           /\ \A q \in DOMAIN runs : Holds(q) =>
                 \A n \in runs[q].messages : n.origin = m.origin => n.node = m.node
  BY <1>1, <1>2, Zenon DEF Stays
<1>3. ASSUME NEW n \in queue', n.origin = m.origin PROVE n.node = m.node
  <2>1. CASE n \in queue
    BY <1>3, <2>1 DEF Stays
  <2>2. ASSUME Holds(r), NEW x \in runs[r].messages, n \in Left(r, x).back PROVE n.node = m.node
    BY <1>3, <2>2, LeftOrigin, SamePoster
  <2> QED BY <2>1, <2>2, SettledHolds DEF Settled
<1>4. ASSUME NEW c \in copies', c.message.origin = m.origin PROVE Reached(c.to) = {m.node}
  <2>1. CASE c \in copies
    BY <1>4, <2>1 DEF Stays
  <2>2. ASSUME Holds(r), NEW x \in runs[r].messages, c \in Left(r, x).copied
        PROVE  Reached(c.to) = {m.node}
    <3>1. x.origin = m.origin
      BY <1>4, <2>2, LeftOrigin
    <3>2. /\ runs[r].mount = runs[p].mount /\ m.node = Node(At(runs[p].mount))
          /\ At(runs[p].mount).cap = 0
      BY <2>2, <3>1, SamePoster
    <3>3. \/ Reached(c.to) = {Node(At(runs[r].mount))}
          \/ At(runs[r].mount).cap # 0
      BY <2>2, LeftCopyReaches
    <3> QED BY <3>2, <3>3
  <2> QED BY <2>1, <2>2, SettledHolds DEF Settled
<1> QED BY <1>3, <1>4 DEF Stays

\* A handler that returns Ack accepts its message.
LEMMA LeftAccepted ==
  ASSUME NEW r, NEW m, runs[r].outcome = "ack"
  PROVE  <<m.origin, "accepted">> \in Left(r, m).how
<1>1. Left(r, m) = [back |-> {}, copied |-> {}, how |-> {<<m.origin, "accepted">>}, replaced |-> {}]
  BY DEF Left, Disposed, Nothing
<1> QED BY <1>1

\* Runs of one posting handler for one message plan the same.
LEMMA SamePosts ==
  ASSUME Planned, Alike, NEW r \in DOMAIN runs, Handler(r) \in MayPost,
         NEW m \in runs[r].messages, NEW q \in DOMAIN runs,
         runs[q].mount = runs[r].mount, NEW n \in runs[q].messages, n.origin = m.origin
  PROVE  runs[q].plan = runs[r].plan
<1>1. Handler(q) = Handler(r)
  BY DEF Handler
<1>2. runs[r].plan = Plan(Handler(r), m) /\ runs[q].plan = Plan(Handler(r), n)
  BY <1>1 DEF Planned
<1>3. m.body = n.body /\ m.asker = n.asker
  BY DEF Alike, Everywhere
<1> QED BY <1>2, <1>3, SamePlan

\* The run is done if it returned Ack; nothing changes for the others.
LEMMA SettledDone ==
  ASSUME Typed, NEW r \in DOMAIN runs, Settled(r)
  PROVE  /\ \A q \in DOMAIN runs \ {r} : (Done(q)' <=> Done(q)) /\ (Whole(q)' <=> Whole(q))
         /\ ~Done(r) /\ (Done(r)' <=> runs[r].outcome = "ack")
         /\ Whole(r)' <=> Whole(r)
         /\ \A q \in DOMAIN runs : runs'[q].stage = "dead" <=> runs[q].stage = "dead"
<1>1. \A q \in DOMAIN runs \ {r} : (Done(q)' <=> Done(q)) /\ (Whole(q)' <=> Whole(q))
  BY DEF Settled, Done, Whole
<1>2. runs[r].stage = "settling" /\ runs'[r].stage = "over" /\ Ends(runs[r], runs'[r])
  BY DEF Settled
<1> QED BY <1>1, <1>2 DEF Settled, Ends, Done, Whole

\* Accepted by this run, whose posts are whole, or by one before it.
LEMMA AcceptedSettled ==
  ASSUME Typed, Phased, OnNode, Stays, Accepted, NEW r \in DOMAIN runs, Settled(r)
  PROVE  Accepted'
<1>1. /\ \A q \in DOMAIN runs : /\ runs'[q].messages = runs[q].messages
                                /\ runs'[q].mount = runs[q].mount
                                /\ Handler(q)' = Handler(q)
      /\ DOMAIN runs' = DOMAIN runs
      /\ \A i, o : RunsOf(i, o)' = RunsOf(i, o)
  BY SettledMoves, HandlerMoves, RunsOfMoves DEF Settled, Ends
<1> SUFFICES ASSUME NEW p \in DOMAIN runs, Handler(p) \in MayPost, NEW m \in runs[p].messages,
                    <<m.origin, "accepted">> \in ended'
    PROVE  \E q \in RunsOf(runs[p].mount, m.origin) : Done(q)' /\ Whole(q)'
  BY <1>1 DEF Accepted
<1>2. RunsOf(runs[p].mount, m.origin) \subseteq DOMAIN runs
  BY DEF RunsOf
<1>3. CASE <<m.origin, "accepted">> \in ended
  <2>1. PICK q \in RunsOf(runs[p].mount, m.origin) : Done(q) /\ Whole(q)
    BY <1>3 DEF Accepted
  <2> QED BY <1>2, <2>1, SettledDone
<1>4. ASSUME Holds(r), NEW n \in runs[r].messages, <<m.origin, "accepted">> \in Left(r, n).how
      PROVE  \E q \in RunsOf(runs[p].mount, m.origin) : Done(q)' /\ Whole(q)'
  <2>1. n.origin = m.origin
    BY <1>4, LeftOrigin
  <2>2. runs[r].outcome = "ack"
    BY <1>4, <2>1, LeftEnded
  <2>3. runs[r].mount = runs[p].mount
    BY <1>4, <2>1, SamePoster
  <2>4. r \in RunsOf(runs[p].mount, m.origin)
    BY <1>4, <2>1, <2>3 DEF RunsOf
  <2>5. Whole(r)
    BY <2>2 DEF Phased, Phase, Settled, Whole
  <2> QED BY <2>2, <2>4, <2>5, SettledDone
<1> QED BY <1>3, <1>4, SettledHolds DEF Settled

\* A run that commits never returns Drop, and all runs of the message plan alike.
LEMMA RejectedSettled ==
  ASSUME Typed, Phased, OnNode, Stays, Planned, Alike, Rejected, NEW r \in DOMAIN runs, Settled(r)
  PROVE  Rejected'
<1>1. /\ \A q \in DOMAIN runs : /\ runs'[q].messages = runs[q].messages
                                /\ runs'[q].plan = runs[q].plan
                                /\ Handler(q)' = Handler(q)
      /\ DOMAIN runs' = DOMAIN runs
  BY SettledMoves, HandlerMoves DEF Settled, Ends
<1> SUFFICES ASSUME NEW p \in DOMAIN runs, Handler(p) \in MayPost, NEW m \in runs[p].messages,
                    <<m.origin, "rejected">> \in ended'
    PROVE  runs[p].plan.ends # "commit"
  BY <1>1 DEF Rejected
<1>3. CASE <<m.origin, "rejected">> \in ended
  BY <1>3 DEF Rejected
<1>4. ASSUME Holds(r), NEW n \in runs[r].messages, <<m.origin, "rejected">> \in Left(r, n).how
      PROVE  runs[p].plan.ends # "commit"
  <2>1. n.origin = m.origin
    BY <1>4, LeftOrigin
  <2>2. runs[r].mount = runs[p].mount /\ At(runs[p].mount).cap = 0
    BY <1>4, <2>1, SamePoster
  <2>3. runs[r].outcome = "drop"
    BY <1>4, <2>1, <2>2, LeftEnded
  <2>4. runs[r].plan = runs[p].plan
    BY <1>4, <2>1, <2>2, SamePosts
  <2> QED BY <2>3, <2>4 DEF Phased, Phase
<1> QED BY <1>3, <1>4, SettledHolds DEF Settled

LEMMA DoneOnceSettled ==
  ASSUME Typed, Known, InOnePlace, DoneOnce, NEW r \in DOMAIN runs, Settled(r)
  PROVE  DoneOnce'
<1>1. /\ \A q \in DOMAIN runs : /\ runs'[q].messages = runs[q].messages
                                /\ runs'[q].mount = runs[q].mount
      /\ DOMAIN runs' = DOMAIN runs
      /\ \A i, o : RunsOf(i, o)' = RunsOf(i, o)
      /\ \A i : SettledOnReceipt(i)' <=> SettledOnReceipt(i)
      /\ ended \subseteq ended'
  BY SettledMoves, RunsOfMoves, ServiceStays DEF Settled, Ends
<1> SUFFICES ASSUME NEW p \in DOMAIN runs, Done(p)', ~SettledOnReceipt(runs[p].mount),
                    NEW m \in runs[p].messages
    PROVE  /\ <<m.origin, "accepted">> \in ended'
           /\ \A q \in RunsOf(runs[p].mount, m.origin) : Done(q)' => q = p
  <2>1. \A p \in DOMAIN runs : SettledOnReceipt(runs[p].mount)' <=> SettledOnReceipt(runs[p].mount)
    BY <1>1 DEF SettledOnReceipt, At, Settled
  <2>2. \A p \in DOMAIN runs : \A m :
          RunsOf(runs[p].mount, m.origin)' = RunsOf(runs[p].mount, m.origin)
    BY <1>1 DEF RunsOf
  <2> QED BY <1>1, <2>1, <2>2, Zenon DEF DoneOnce
<1>2. RunsOf(runs[p].mount, m.origin) \subseteq DOMAIN runs
  BY DEF RunsOf
\* A run that is done is no longer the one that holds a message.
<1>3. ASSUME NEW a \in DOMAIN runs, Done(a), ~SettledOnReceipt(runs[a].mount),
             NEW x \in runs[a].messages,
             NEW y \in runs[r].messages, Holds(r), x.origin = y.origin
      PROVE  FALSE
  <2>1. <<x.origin, "accepted">> \in ended
    BY <1>3 DEF DoneOnce
  <2>2. \A e \in ended : e[1] # y.origin
    BY <1>3, HeldOnly
  <2> QED BY <1>3, <2>1, <2>2
<1>4. CASE p = r
  <2>1. Holds(r) /\ runs[r].outcome = "ack"
    BY <1>4, SettledHolds, SettledDone
  <2>2. <<m.origin, "accepted">> \in ended'
    BY <1>4, <2>1, SettledHolds, LeftAccepted DEF Settled
  <2>3. ASSUME NEW q \in RunsOf(runs[p].mount, m.origin), Done(q)', q # p PROVE FALSE
    <3>1. q \in DOMAIN runs /\ Done(q) /\ runs[q].mount = runs[p].mount
      BY <1>2, <1>4, <2>3, SettledDone DEF RunsOf
    <3>2. PICK x \in runs[q].messages : x.origin = m.origin
      BY <2>3 DEF RunsOf
    <3> QED BY <1>3, <1>4, <2>1, <3>1, <3>2
  <2> QED BY <2>2, <2>3
<1>5. CASE p # r
  <2>1. Done(p)
    BY <1>5, SettledDone
  <2>2. /\ <<m.origin, "accepted">> \in ended
        /\ \A q \in RunsOf(runs[p].mount, m.origin) : Done(q) => q = p
    BY <2>1 DEF DoneOnce
  <2>3. ASSUME r \in RunsOf(runs[p].mount, m.origin), Done(r)' PROVE FALSE
    <3>1. runs[r].mount = runs[p].mount
      BY <2>3 DEF RunsOf
    <3>2. Holds(r)
      BY <3>1, SettledHolds
    <3>3. PICK y \in runs[r].messages : y.origin = m.origin
      BY <2>3 DEF RunsOf
    <3> QED BY <1>3, <2>1, <3>2, <3>3
  <2> QED BY <1>1, <1>2, <2>2, <2>3, SettledDone
<1> QED BY <1>4, <1>5

LEMMA DiedSettled ==
  ASSUME Typed, Died, NEW r \in DOMAIN runs, Settled(r)
  PROVE  Died'
<1> SUFFICES ASSUME NEW i \in Mounted, NEW o \in sent, ~SettledOnReceipt(i)
             PROVE  Cardinality(DeadOf(i, o)') <= crashes
  BY ServiceStays DEF Died, Settled
<1>1. DeadOf(i, o)' = DeadOf(i, o)
  <2>1. RunsOf(i, o)' = RunsOf(i, o) /\ RunsOf(i, o) \subseteq DOMAIN runs
    BY SettledMoves, RunsOfMoves DEF RunsOf
  <2> QED BY <2>1, SettledDone DEF DeadOf
<1> QED BY <1>1 DEF Died

-----------------------------------------------------------------------------
(* A copy is published.                                                    *)

\* A copy is on the one node it reaches.
Republished(c, m) ==
    /\ c \in copies
    /\ copies' = copies \ {c}
    /\ queue' = queue \cup {m}
    /\ Reached(c.to) = {m.node}
    /\ MessageTyped(m)
    /\ m.origin = c.message.origin /\ m.body = c.message.body /\ m.asker = c.message.asker
    /\ Deliveries(m) = Deliveries(c.message)
    /\ last' = last + 1
    /\ UNCHANGED <<service, runs, ended, replaced, sent, crashes>>

\* That is what Republish does, for a copy that reaches one node.
LEMMA RepublishRepublished ==
  ASSUME Typed, Known, Copying, NEW c \in copies, Republish(c)
  PROVE  \E m : Republished(c, m)
<1> DEFINE x == c.message
<1>1. PICK n : Reached(c.to) = {n}
  BY DEF Copying
<1> DEFINE m == Landed(x, n)
<1>2. Arrivals(c.to, x) = {m}
  BY <1>1 DEF Arrivals
<1>3. /\ copies' = copies \ {c}
      /\ queue' = queue \cup {m} /\ last' = last + 1 /\ sent' = sent \cup {m.origin}
      /\ UNCHANGED <<service, runs, ended, replaced, crashes>>
  BY <1>2 DEF Republish, Arrive
<1>4. MessageTyped(x) /\ x.origin \in sent
  BY DEF Typed, Known, Everywhere
<1>5. x.origin # <<>>
  BY <1>4 DEF Known
<1>6. /\ DOMAIN m = MessageFields /\ m.node = n /\ m.origin = x.origin
      /\ m.body = x.body /\ m.count = x.count /\ m.tries = x.tries /\ m.asker = x.asker
  BY <1>4, <1>5, LandedIs DEF MessageTyped
<1> HIDE DEF m, x
<1>7. MessageTyped(m) /\ Deliveries(m) = Deliveries(x)
  BY <1>4, <1>6 DEF MessageTyped, Deliveries
<1>8. sent' = sent
  BY <1>3, <1>4, <1>6
<1>9. Republished(c, m)
  BY <1>1, <1>3, <1>6, <1>7, <1>8 DEF Republished, x
<1> QED BY <1>9

\* It only moves the message, and no run is concerned.
LEMMA RepublishedMoves ==
  ASSUME Typed, NEW c, NEW m, Republished(c, m)
  PROVE  Moves
<1>1. \A y \in Everywhere : MessageTyped(y) /\ Derived(y)
  BY DEF Typed, Derived
<1>2. MessageTyped(m) /\ Derived(m)
  BY DEF Republished, Derived, Everywhere
<1>3. Everywhere' \subseteq Everywhere \cup {m}
  BY DEF Everywhere, Republished
<1>4. \A r \in DOMAIN runs : Ends(runs[r], runs[r])
  BY DEF Ends
<1> QED BY <1>1, <1>2, <1>3, <1>4 DEF Moves, Typed, Republished

LEMMA FiniteRepublished ==
  ASSUME Finite, NEW c, NEW m, Republished(c, m)
  PROVE  Finite'
<1>1. IsFiniteSet(queue')
  BY FS_AddElement DEF Finite, Republished
<1> QED BY <1>1 DEF Finite, Republished

LEMMA RepublishedHolds ==
  ASSUME NEW c, NEW m, Republished(c, m), NEW q
  PROVE  /\ Holds(q)' <=> Holds(q)
         /\ Done(q)' <=> Done(q)
         /\ Whole(q)' <=> Whole(q)
<1>1. SettledOnReceipt(runs[q].mount)' <=> SettledOnReceipt(runs[q].mount)
  BY DEF SettledOnReceipt, At, Republished
<1> QED BY <1>1 DEF Holds, Live, Done, Whole, Republished

LEMMA InOnePlaceRepublished ==
  ASSUME Known, InOnePlace, NEW c, NEW m, Republished(c, m)
  PROVE  InOnePlace'
<1> SUFFICES ASSUME NEW o \in sent PROVE (\E k, q, x : PlacedAt(k, q, x, o)') \/ Lost(o)'
  BY DEF InOnePlace, Republished
<1>1. \A k, q, y : Place(k, q, y, o)' <=>
          \/ Place(k, q, y, o) /\ ~(k = "copy" /\ y = c)
          \/ k = "queue" /\ q = NoRun /\ y = m /\ m.origin = o
  BY RepublishedHolds DEF Place, Republished
<1>0. CASE Lost(o)
  <2>1. m.origin # o
    BY <1>0 DEF Lost, Place, Republished
  <2>2. \A k, q, y : ~Place(k, q, y, o)'
    BY <1>0, <1>1, <2>1 DEF Lost
  <2> QED BY <1>0, <2>2 DEF Lost, Republished
<1> SUFFICES ASSUME ~Lost(o) PROVE \E k, q, x : PlacedAt(k, q, x, o)'
  BY <1>0
<1>2. PICK k, q, x : PlacedAt(k, q, x, o)
  BY DEF InOnePlace
<1>3. CASE m.origin = o
  <2>1. Place("copy", NoRun, c, o)
    BY <1>3 DEF Place, Republished
  <2>2. \A kk, qq, y : Place(kk, qq, y, o) => kk = "copy" /\ y = c
    BY <1>2, <2>1 DEF PlacedAt
  <2>3. PlacedAt("queue", NoRun, m, o)'
    BY <1>1, <1>3, <2>2 DEF PlacedAt
  <2> QED BY <2>3
<1>4. CASE m.origin # o
  <2>1. \A kk, qq, y : Place(kk, qq, y, o)' <=> Place(kk, qq, y, o)
    <3>1. c.message.origin # o
      BY <1>4 DEF Republished
    <3>2. \A kk, qq, y : Place(kk, qq, y, o) => ~(kk = "copy" /\ y = c)
      BY <3>1 DEF Place
    <3> QED BY <1>1, <1>4, <3>2
  <2>2. PlacedAt(k, q, x, o)'
    BY <1>2, <2>1 DEF PlacedAt
  <2> QED BY <2>2
<1> QED BY <1>3, <1>4

LEMMA KeptRepublished ==
  ASSUME Kept, NEW c, NEW m, Republished(c, m)
  PROVE  Kept'
  BY DEF Kept, Republished

LEMMA CopyingRepublished ==
  ASSUME Copying, NEW c, NEW m, Republished(c, m)
  PROVE  Copying'
  BY ServiceStays DEF Copying, Republished

\* The copy counts on.
LEMMA AttemptsRepublished ==
  ASSUME Typed, Attempts, NEW c, NEW m, Republished(c, m)
  PROVE  Attempts'
<1>1. Mounted' = Mounted /\ (\A j : At(j)' = At(j)) /\ \A a : Reached(a)' = Reached(a)
  BY ServiceStays DEF Republished
<1>2. \A j, o, most : Budget(j, o, most)' <=> Budget(j, o, most)
  BY DEF Budget, RunsOf, Republished
<1>3. \A x : Deliveries(x)' = Deliveries(x)
  BY DEF Deliveries
<1>4. /\ copies' \subseteq copies /\ queue' = queue \cup {m}
      /\ runs' = runs /\ sent' = sent
  BY DEF Republished
<1>5. \A q : Holds(q)' <=> Holds(q)
  BY RepublishedHolds
<1>6. ASSUME NEW j \in Mounted, At(j).cap # 0, m.node = Node(At(j))
      PROVE  Budget(j, m.origin, Deliveries(m) - 1) /\ Budget(j, m.origin, At(j).cap - 1)
  <2>1. /\ c \in copies /\ Reached(c.to) = {Node(At(j))} /\ m.origin = c.message.origin
        /\ Deliveries(m) = Deliveries(c.message)
    BY <1>6 DEF Republished
  <2> QED BY <1>6, <2>1 DEF Attempts
<1>7. ASSUME NEW j \in Mounted, At(j).cap # 0
      PROVE  /\ \A o \in sent : Budget(j, o, At(j).cap)
             /\ \A x \in queue' : x.node = Node(At(j)) =>
                  Budget(j, x.origin, Deliveries(x) - 1) /\ Budget(j, x.origin, At(j).cap - 1)
             /\ \A d \in copies' : Reached(d.to) = {Node(At(j))} =>
                   Budget(j, d.message.origin, Deliveries(d.message) - 1)
                   /\ Budget(j, d.message.origin, At(j).cap - 1)
             /\ \A r \in DOMAIN runs : runs[r].mount = j /\ Holds(r) =>
                   \A x \in runs[r].messages : Budget(j, x.origin, Deliveries(x))
  BY <1>4, <1>6, <1>7 DEF Attempts
<1> QED BY <1>1, <1>2, <1>3, <1>4, <1>5, <1>7, Zenon DEF Attempts

LEMMA StaysRepublished ==
  ASSUME Stays, NEW c, NEW m, Republished(c, m)
  PROVE  Stays'
<1>1. \A a : Reached(a)' = Reached(a)
  BY ServiceStays DEF Republished
<1>2. /\ \A q \in DOMAIN runs : /\ Holds(q)' => Holds(q)
                                /\ runs'[q].messages = runs[q].messages
                                /\ Handler(q)' = Handler(q)
      /\ DOMAIN runs' = DOMAIN runs
  BY RepublishedHolds DEF Handler, At, Republished
<1>3. /\ copies' \subseteq copies /\ queue' = queue \cup {m}
      /\ c \in copies /\ m.origin = c.message.origin /\ Reached(c.to) = {m.node}
  BY DEF Republished
<1> SUFFICES ASSUME NEW p \in DOMAIN runs, Handler(p) \in MayPost, NEW x \in runs[p].messages
    PROVE  /\ \A n \in queue' : n.origin = x.origin => n.node = x.node
           /\ \A d \in copies' : d.message.origin = x.origin => Reached(d.to) = {x.node}
           /\ \A q \in DOMAIN runs : Holds(q) =>
                 \A n \in runs[q].messages : n.origin = x.origin => n.node = x.node
  BY <1>1, <1>2, Zenon DEF Stays
<1>4. /\ \A n \in queue : n.origin = x.origin => n.node = x.node
      /\ \A d \in copies : d.message.origin = x.origin => Reached(d.to) = {x.node}
      /\ \A q \in DOMAIN runs : Holds(q) =>
            \A n \in runs[q].messages : n.origin = x.origin => n.node = x.node
  BY DEF Stays
<1>5. m.origin = x.origin => {m.node} = {x.node}
  BY <1>3, <1>4
<1>6. m.origin = x.origin => m.node = x.node
  BY <1>5
<1> QED BY <1>3, <1>4, <1>6

LEMMA OutcomesRepublished ==
  ASSUME Accepted, Rejected, DoneOnce, Died, NEW c, NEW m, Republished(c, m)
  PROVE  Accepted' /\ Rejected' /\ DoneOnce' /\ Died'
<1>1. UNCHANGED <<service, runs, ended, replaced, sent, crashes>>
  BY DEF Republished
<1>2. \A q : Handler(q)' = Handler(q)
  BY <1>1 DEF Handler, At
<1>3. \A i : SettledOnReceipt(i)' <=> SettledOnReceipt(i)
  BY ServiceStays, <1>1
<1>4. \A i, o : RunsOf(i, o)' = RunsOf(i, o) /\ DeadOf(i, o)' = DeadOf(i, o)
  BY <1>1 DEF RunsOf, DeadOf
<1>5. \A q : (Done(q)' <=> Done(q)) /\ (Whole(q)' <=> Whole(q))
  BY RepublishedHolds
<1>6. Accepted'
  BY <1>1, <1>2, <1>4, <1>5 DEF Accepted
<1>7. Rejected'
  BY <1>1, <1>2 DEF Rejected
<1>8. DoneOnce'
  BY <1>1, <1>3, <1>4, <1>5 DEF DoneOnce
<1>9. Died'
  BY <1>1, <1>3, <1>4 DEF Died, Mounted
<1> QED BY <1>6, <1>7, <1>8, <1>9

-----------------------------------------------------------------------------
(* The process stops.                                                      *)

\* Live runs are dead, their messages are back, copies not yet published are gone.
Crashed ==
    /\ DOMAIN runs' = DOMAIN runs
    /\ \A r \in DOMAIN runs : Ends(runs[r], runs'[r])
    /\ \A r \in DOMAIN runs :
          /\ Live(r) => runs'[r].stage = "dead"
          /\ ~Live(r) => runs'[r] = runs[r]
    /\ queue' = queue \cup Unsettled
    /\ copies' = {}
    /\ crashes' = crashes + 1
    /\ UNCHANGED <<service, sent, last, ended, replaced>>

\* That is what Crash does.
LEMMA CrashCrashed ==
  ASSUME Typed, Crash
  PROVE  Crashed
<1>1. runs' = [r \in DOMAIN runs |-> IF Live(r) THEN [runs[r] EXCEPT !.stage = "dead"] ELSE runs[r]]
  BY DEF Crash
<1>2. ASSUME NEW r \in DOMAIN runs
      PROVE  /\ Ends(runs[r], runs'[r])
             /\ Live(r) => runs'[r].stage = "dead"
             /\ ~Live(r) => runs'[r] = runs[r]
  <2> DEFINE x == runs[r]
             y == [x EXCEPT !.stage = "dead"]
  <2>1. DOMAIN x = RunFields
    BY DEF Typed, RunTyped
  <2>2. /\ DOMAIN y = DOMAIN x /\ y.stage = "dead"
        /\ y.mount = x.mount /\ y.messages = x.messages /\ y.plan = x.plan
        /\ y.posted = x.posted /\ y.shown = x.shown /\ y.outcome = x.outcome
    BY <2>1 DEF RunFields
  <2>3. runs'[r] = IF Live(r) THEN y ELSE x
    BY <1>1
  <2>4. Live(r) <=> x.stage \notin {"over", "dead"}
    BY DEF Live
  <2> HIDE DEF x, y
  <2>5. Ends(x, runs'[r])
    BY <2>2, <2>3, <2>4 DEF Ends
  <2> QED BY <2>2, <2>3, <2>5 DEF x
<1>3. DOMAIN runs' = DOMAIN runs
  BY <1>1
<1> QED BY <1>2, <1>3 DEF Crashed, Crash, world

\* What comes back is what runs held.
LEMMA UnsettledIs ==
  ASSUME NEW m
  PROVE  m \in Unsettled <=> \E r \in DOMAIN runs : Holds(r) /\ m \in runs[r].messages
  BY DEF Unsettled, Holds

\* A crash only moves messages.
LEMMA CrashedMoves ==
  ASSUME Typed, Crashed
  PROVE  Moves
<1>1. Everywhere' \subseteq Everywhere
  <2>1. /\ queue' = queue \cup Unsettled /\ copies' = {}
        /\ DOMAIN runs' = DOMAIN runs
        /\ \A r \in DOMAIN runs : runs'[r].messages = runs[r].messages
    BY DEF Crashed, Ends
  <2>2. {runs'[r].messages : r \in DOMAIN runs'} = {runs[r].messages : r \in DOMAIN runs}
    BY <2>1
  <2>3. Unsettled \subseteq Everywhere
    BY UnsettledIs DEF Everywhere
  <2> QED BY <2>1, <2>2, <2>3 DEF Everywhere
<1>2. \A y \in Everywhere : MessageTyped(y) /\ Derived(y)
  BY DEF Typed, Derived
<1> QED BY <1>1, <1>2 DEF Moves, Crashed

LEMMA FiniteCrashed ==
  ASSUME Finite, Crashed
  PROVE  Finite'
<1> DEFINE f == [r \in {q \in DOMAIN runs : Live(q) /\ ~SettledOnReceipt(runs[q].mount)} |->
                    runs[r].messages]
           Held == {f[r] : r \in DOMAIN f}
<1>1. IsFiniteSet(Held)
  <2>1. DOMAIN f \subseteq DOMAIN runs /\ f = [r \in DOMAIN f |-> f[r]]
    OBVIOUS
  <2> HIDE DEF f
  <2>2. IsFiniteSet(DOMAIN f)
    BY <2>1, FS_Subset DEF Finite
  <2> QED BY <2>1, <2>2, ImageIsFinite
<1>2. \A ms \in Held : IsFiniteSet(ms)
  BY DEF Finite
<1>3. Unsettled = UNION Held
  BY DEF Unsettled
<1> HIDE DEF Held
<1>4. IsFiniteSet(Unsettled)
  BY <1>1, <1>2, <1>3, FS_UNION
<1>5. IsFiniteSet(queue')
  BY <1>4, FS_Union DEF Finite, Crashed
<1> QED BY <1>5 DEF Finite, Crashed, Ends

\* No run is left, and those that were over are as they were.
LEMMA CrashedHolds ==
  ASSUME Crashed, NEW r \in DOMAIN runs
  PROVE  /\ ~Live(r)' /\ ~Holds(r)'
         /\ Done(r)' <=> Done(r)
         /\ Whole(r)' <=> Whole(r)
         /\ runs'[r].stage = "dead" <=> runs[r].stage = "dead" \/ Live(r)
<1>1. Ends(runs[r], runs'[r]) /\ IF Live(r) THEN runs'[r].stage = "dead" ELSE runs'[r] = runs[r]
  BY DEF Crashed
<1>2. Live(r) <=> runs[r].stage \notin {"over", "dead"}
  BY DEF Live
<1>3. ~Live(r)'
  BY <1>1, <1>2 DEF Live
<1> QED BY <1>1, <1>2, <1>3 DEF Holds, Done, Whole, Ends

\* What was held is queued again, what was a copy is nowhere.
LEMMA PlaceCrashed ==
  ASSUME Crashed, NEW k, NEW q, NEW y, NEW o
  PROVE  Place(k, q, y, o)' <=>
            \/ Place(k, q, y, o) /\ k \in {"queue", "end"}
            \/ k = "queue" /\ q = NoRun /\ \E r : Place("run", r, y, o)
<1>1. CASE k = "run"
  BY <1>1, CrashedHolds DEF Place, Crashed
<1>2. CASE k = "queue"
  BY <1>2, UnsettledIs DEF Place, Crashed
<1>3. CASE k = "copy"
  BY <1>3 DEF Place, Crashed
<1>4. CASE k = "end"
  BY <1>4 DEF Place, Crashed
<1>5. CASE k \notin {"run", "queue", "copy", "end"}
  BY <1>5 DEF Place
<1> QED BY <1>1, <1>2, <1>3, <1>4, <1>5

LEMMA KeptCrashed ==
  ASSUME Crashed
  PROVE  Kept'
  BY DEF Kept, Crashed

LEMMA InOnePlaceCrashed ==
  ASSUME Typed, InOnePlace, Kept, Crashed
  PROVE  InOnePlace'
<1> SUFFICES ASSUME NEW o \in sent PROVE (\E k, q, x : PlacedAt(k, q, x, o)') \/ Lost(o)'
  BY DEF InOnePlace, Crashed
<1>0. crashes' > 0 /\ replaced' = replaced
  BY DEF Typed, Crashed
<1>1. CASE Lost(o)
  <2>1. \A kk, qq, y : ~Place(kk, qq, y, o)'
    BY <1>1, PlaceCrashed DEF Lost
  <2> QED BY <1>0, <1>1, <2>1 DEF Lost
<1>2. ASSUME NEW k, NEW q, NEW x,
             Place(k, q, x, o), \A kk, qq, y : Place(kk, qq, y, o) => kk = k /\ qq = q /\ y = x
      PROVE  (\E kk, qq, y : PlacedAt(kk, qq, y, o)') \/ Lost(o)'
  <2>1. k \in {"queue", "run", "copy", "end"} /\ (k # "run" => q = NoRun)
    BY <1>2 DEF Place
  <2>2. CASE k = "queue" \/ k = "end"
    <3>1. \A kk, qq, y : Place(kk, qq, y, o)' <=> Place(kk, qq, y, o)
      <4> SUFFICES ASSUME NEW kk, NEW qq, NEW y
                   PROVE  Place(kk, qq, y, o)' <=> Place(kk, qq, y, o)
        OBVIOUS
      <4>1. \A r, c : ~Place("run", r, c, o)
        BY <1>2, <2>2
      <4>2. Place(kk, qq, y, o) => kk \in {"queue", "end"}
        BY <1>2, <2>2
      <4> QED BY <4>1, <4>2, PlaceCrashed
    <3>2. PlacedAt(k, q, x, o)'
      BY <1>2, <3>1 DEF PlacedAt
    <3> QED BY <3>2
  <2>3. CASE k = "run"
    <3>1. \A kk, qq, y : Place(kk, qq, y, o)' <=> kk = "queue" /\ qq = NoRun /\ y = x
      <4> SUFFICES ASSUME NEW kk, NEW qq, NEW y
                   PROVE  Place(kk, qq, y, o)' <=> kk = "queue" /\ qq = NoRun /\ y = x
        OBVIOUS
      <4>1. ~(Place(kk, qq, y, o) /\ kk \in {"queue", "end"})
        BY <1>2, <2>3
      <4>2. (\E r : Place("run", r, y, o)) <=> y = x
        BY <1>2, <2>3
      <4> QED BY <4>1, <4>2, PlaceCrashed
    <3>2. PlacedAt("queue", NoRun, x, o)'
      BY <3>1 DEF PlacedAt
    <3> QED BY <3>2
  <2>4. CASE k = "copy"
    <3>1. \A kk, qq, y : ~Place(kk, qq, y, o)'
      <4> SUFFICES ASSUME NEW kk, NEW qq, NEW y PROVE ~Place(kk, qq, y, o)'
        OBVIOUS
      <4>1. ~(Place(kk, qq, y, o) /\ kk \in {"queue", "end"})
        BY <1>2, <2>4
      <4>2. ~\E r : Place("run", r, y, o)
        BY <1>2, <2>4
      <4> QED BY <4>1, <4>2, PlaceCrashed
    <3>2. x \in copies /\ x.message.origin = o
      BY <1>2, <2>4 DEF Place
    <3>3. \E m \in replaced : m.origin = o
      BY <3>2 DEF Kept
    <3> QED BY <1>0, <3>1, <3>3 DEF Lost
  <2> QED BY <2>1, <2>2, <2>3, <2>4
<1> QED BY <1>1, <1>2 DEF InOnePlace, PlacedAt

LEMMA CopyingCrashed ==
  ASSUME Crashed
  PROVE  Copying'
  BY DEF Copying, Crashed

\* The crash makes up for the attempt it cut off.
LEMMA BudgetCrashed ==
  ASSUME Typed, Finite, Crashed, NEW i, NEW o, NEW most \in Int
  PROVE  /\ Budget(i, o, most) => BudgetNext(i, o, most)
         /\ Budget(i, o, most) => BudgetNext(i, o, most - 1)
<1>1. RunsOf(i, o)' = RunsOf(i, o) /\ crashes' = crashes + 1
  BY CrashedMoves, RunsOfMoves DEF Crashed
<1>2. Cardinality(RunsOf(i, o)) \in Nat /\ crashes \in Nat
  BY RunsOfFinite DEF Typed
<1> QED BY <1>1, <1>2 DEF Budget, BudgetNext

\* A message that comes back with its old count has had one attempt more than it
\* says, and there is one crash more.
LEMMA AttemptsCrashed ==
  ASSUME Typed, Finite, Known, OnNode, Attempts, Crashed
  PROVE  Attempts'
<1>1. Mounted' = Mounted /\ (\A j : At(j)' = At(j)) /\ \A a : Reached(a)' = Reached(a)
  BY ServiceStays DEF Crashed
<1>2. copies' = {} /\ sent' = sent /\ queue' = queue \cup Unsettled /\ DOMAIN runs' = DOMAIN runs
  BY DEF Crashed
<1> SUFFICES ASSUME NEW j \in Mounted, At(j).cap # 0
    PROVE  /\ \A o \in sent : BudgetNext(j, o, At(j).cap)
           /\ \A m \in queue' : m.node = Node(At(j)) =>
                 BudgetNext(j, m.origin, Deliveries(m) - 1) /\ BudgetNext(j, m.origin, At(j).cap - 1)
  <2>1. ASSUME NEW k PROVE (\A o, most : Budget(k, o, most)' <=> BudgetNext(k, o, most))
    BY DEF Budget, BudgetNext
  <2>2. \A m : Deliveries(m)' = Deliveries(m)
    BY DEF Deliveries
  <2>3. \A r \in DOMAIN runs' : ~Holds(r)'
    BY <1>2, CrashedHolds
  <2> QED BY <1>1, <1>2, <2>1, <2>2, <2>3 DEF Attempts
<1>3. At(j).cap \in Nat /\ Mounting(j)
  BY MountingHolds DEF Typed, Mounting
<1>4. ASSUME NEW o \in sent PROVE BudgetNext(j, o, At(j).cap) /\ BudgetNext(j, o, At(j).cap - 1)
  <2>1. Budget(j, o, At(j).cap)
    BY DEF Attempts
  <2> QED BY <1>3, <2>1, BudgetCrashed
<1>5. ASSUME NEW m \in queue', m.node = Node(At(j))
      PROVE  BudgetNext(j, m.origin, Deliveries(m) - 1) /\ BudgetNext(j, m.origin, At(j).cap - 1)
  <2>1. CASE m \in queue
    <3>1. Budget(j, m.origin, Deliveries(m) - 1) /\ m.origin \in sent
      BY <1>5, <2>1 DEF Attempts, Known, Everywhere
    <3>2. Deliveries(m) - 1 \in Int
      BY <2>1, DeliveriesNat DEF Typed, Everywhere
    <3> QED BY <1>4, <3>1, <3>2, BudgetCrashed
  <2>2. ASSUME NEW r \in DOMAIN runs, Holds(r), m \in runs[r].messages
        PROVE  BudgetNext(j, m.origin, Deliveries(m) - 1) /\ BudgetNext(j, m.origin, At(j).cap - 1)
    <3>1. m \in Everywhere /\ m.origin \in sent /\ Deliveries(m) \in Int
      BY <2>2, DeliveriesNat DEF Typed, Known, Everywhere
    <3>2. runs[r].mount = j
      BY <1>3, <1>5, <2>2 DEF OnNode, Mounting, Typed
    <3>3. Budget(j, m.origin, Deliveries(m))
      BY <2>2, <3>2 DEF Attempts
    <3> QED BY <1>4, <3>1, <3>3, BudgetCrashed
  <2> QED BY <1>2, <2>1, <2>2, UnsettledIs
<1> QED BY <1>4, <1>5

LEMMA StaysCrashed ==
  ASSUME Typed, Stays, Crashed
  PROVE  Stays'
<1>1. \A q \in DOMAIN runs : /\ ~Holds(q)'
                             /\ runs'[q].messages = runs[q].messages
                             /\ Handler(q)' = Handler(q)
  BY CrashedHolds, CrashedMoves, HandlerMoves DEF Crashed, Ends
<1>2. DOMAIN runs' = DOMAIN runs /\ copies' = {} /\ queue' = queue \cup Unsettled
  BY DEF Crashed
<1> SUFFICES ASSUME NEW p \in DOMAIN runs, Handler(p) \in MayPost, NEW m \in runs[p].messages
             PROVE  \A n \in queue' : n.origin = m.origin => n.node = m.node
  BY <1>1, <1>2 DEF Stays
<1> QED BY <1>2, UnsettledIs DEF Stays

LEMMA OutcomesCrashed ==
  ASSUME Typed, Accepted, Rejected, DoneOnce, Crashed
  PROVE  Accepted' /\ Rejected' /\ DoneOnce'
<1>1. /\ \A q \in DOMAIN runs : /\ runs'[q].messages = runs[q].messages
                                /\ runs'[q].mount = runs[q].mount
                                /\ runs'[q].plan = runs[q].plan
                                /\ Handler(q)' = Handler(q)
                                /\ Done(q)' <=> Done(q)
                                /\ Whole(q)' <=> Whole(q)
      /\ DOMAIN runs' = DOMAIN runs
  BY CrashedHolds, CrashedMoves, HandlerMoves DEF Crashed, Ends
<1>2. \A i, o : RunsOf(i, o)' = RunsOf(i, o)
  BY CrashedMoves, RunsOfMoves
<1>3. \A i, o : RunsOf(i, o) \subseteq DOMAIN runs
  BY DEF RunsOf
<1>4. \A i : SettledOnReceipt(i)' <=> SettledOnReceipt(i)
  BY ServiceStays DEF Crashed
<1>5. ended' = ended
  BY DEF Crashed
<1>7. Accepted'
  <2> SUFFICES ASSUME NEW p \in DOMAIN runs, Handler(p) \in MayPost, NEW m \in runs[p].messages,
                      <<m.origin, "accepted">> \in ended'
      PROVE  \E q \in RunsOf(runs[p].mount, m.origin) : Done(q)' /\ Whole(q)'
    BY <1>1, <1>2 DEF Accepted
  <2>1. <<m.origin, "accepted">> \in ended
    BY <1>5
  <2>2. PICK q \in RunsOf(runs[p].mount, m.origin) : Done(q) /\ Whole(q)
    BY <2>1 DEF Accepted
  <2> QED BY <1>1, <1>3, <2>2
<1>8. Rejected'
  <2> SUFFICES ASSUME NEW p \in DOMAIN runs, Handler(p) \in MayPost, NEW m \in runs[p].messages,
                      <<m.origin, "rejected">> \in ended'
      PROVE  runs[p].plan.ends # "commit"
    BY <1>1 DEF Rejected
  <2>1. <<m.origin, "rejected">> \in ended
    BY <1>5
  <2> QED BY <2>1 DEF Rejected
<1>9. DoneOnce'
  <2> SUFFICES ASSUME NEW p \in DOMAIN runs', Done(p)', ~SettledOnReceipt(runs[p].mount)',
                      NEW m \in runs'[p].messages
               PROVE  /\ <<m.origin, "accepted">> \in ended'
                      /\ \A q \in RunsOf(runs[p].mount, m.origin)' : Done(q)' => q = p
    BY Zenon DEF DoneOnce
  <2>1. p \in DOMAIN runs /\ Done(p) /\ m \in runs[p].messages
    BY <1>1
  <2>2. ~SettledOnReceipt(runs[p].mount)
    BY <1>1, <2>1 DEF SettledOnReceipt, At, Crashed
  <2>3. RunsOf(runs[p].mount, m.origin)' = RunsOf(runs[p].mount, m.origin)
    BY <1>1, <2>1 DEF RunsOf
  <2>4. /\ <<m.origin, "accepted">> \in ended
        /\ \A q \in RunsOf(runs[p].mount, m.origin) : Done(q) => q = p
    BY <2>1, <2>2 DEF DoneOnce
  <2> QED BY <1>1, <1>3, <1>5, <2>3, <2>4
<1> QED BY <1>7, <1>8, <1>9

\* One run of a mount at most held the message when the process stopped.
LEMMA DiedCrashed ==
  ASSUME Typed, Finite, Known, InOnePlace, Died, Crashed
  PROVE  Died'
<1> SUFFICES ASSUME NEW i \in Mounted, NEW o \in sent, ~SettledOnReceipt(i)
             PROVE  Cardinality(DeadOf(i, o)') <= crashes'
  BY ServiceStays DEF Died, Crashed
<1> DEFINE old == DeadOf(i, o)
           new == DeadOf(i, o)'
           live == {r \in RunsOf(i, o) : Live(r)}
<1>1. IsFiniteSet(old) /\ Cardinality(old) \in Nat /\ crashes \in Nat
  <2>1. old \subseteq RunsOf(i, o)
    BY DEF DeadOf
  <2> QED BY <2>1, RunsOfFinite, FS_Subset, FS_CardinalityType DEF Typed
<1>2. Cardinality(old) <= crashes /\ crashes' = crashes + 1
  BY DEF Died, Crashed
<1>3. new = old \cup live
  <2>1. RunsOf(i, o)' = RunsOf(i, o)
    BY CrashedMoves, RunsOfMoves
  <2>2. RunsOf(i, o) \subseteq DOMAIN runs
    BY DEF RunsOf
  <2> QED BY <2>1, <2>2, CrashedHolds DEF DeadOf
<1>4. \A r, q \in live : r = q
  <2> SUFFICES ASSUME NEW r \in live, NEW q \in live PROVE r = q
    OBVIOUS
  <2>1. r \in DOMAIN runs /\ q \in DOMAIN runs /\ Holds(r) /\ Holds(q)
    BY DEF RunsOf, Holds
  <2>2. PICK m \in runs[r].messages : m.origin = o
    BY DEF RunsOf
  <2>3. PICK n \in runs[q].messages : n.origin = o
    BY DEF RunsOf
  <2> QED BY <2>1, <2>2, <2>3, HeldOnly
<1> HIDE DEF old, new, live
<1>5. CASE live = {}
  BY <1>1, <1>2, <1>3, <1>5 DEF new
<1>6. ASSUME NEW r \in live PROVE Cardinality(new) <= crashes'
  <2>1. new = old \cup {r}
    BY <1>3, <1>4, <1>6
  <2>2. Cardinality(new) \in {Cardinality(old), Cardinality(old) + 1}
    BY <1>1, <2>1, FS_AddElement
  <2> QED BY <1>1, <1>2, <2>2
<1> QED BY <1>5, <1>6 DEF new

-----------------------------------------------------------------------------
(* The invariant.                                                          *)

\* The inductive invariant.
IInv ==
    /\ Typed
    /\ Finite
    /\ Named
    /\ Known
    /\ InOnePlace
    /\ Kept
    /\ OnNode
    /\ Copying
    /\ Phased
    /\ Planned
    /\ Alike
    /\ Attempts
    /\ Stays
    /\ Accepted
    /\ Rejected
    /\ DoneOnce
    /\ Died

\* It holds initially and every step keeps it.
LEMMA Initially ==
  ASSUME Init
  PROVE  IInv
<1>1. /\ service \in Offered /\ queue = {} /\ DOMAIN runs = {} /\ copies = {} /\ ended = {}
      /\ sent = {} /\ last = 0 /\ crashes = 0
  BY DEF Init
<1>2. Everywhere = {}
  BY <1>1 DEF Everywhere
<1>3. Typed /\ Known /\ Alike
  BY <1>1, <1>2 DEF Typed, Known, Alike
<1>4. Finite
  BY <1>1, FS_EmptySet DEF Finite
<1>5. Named /\ InOnePlace /\ Kept /\ OnNode /\ Copying /\ Phased /\ Planned /\ Stays
  BY <1>1 DEF Named, InOnePlace, Kept, OnNode, Copying, Phased, Planned, Stays
<1>6. Accepted /\ Rejected /\ DoneOnce /\ Died
  BY <1>1 DEF Accepted, Rejected, DoneOnce, Died
<1>7. Attempts
  BY <1>1 DEF Attempts
<1> QED BY <1>3, <1>4, <1>5, <1>6, <1>7 DEF IInv

LEMMA GoesOnKeeps ==
  ASSUME IInv, GoesOn, Phased'
  PROVE  IInv'
<1>1. Typed' /\ Finite' /\ Named' /\ Known' /\ InOnePlace' /\ Kept' /\ OnNode' /\ Copying'
  BY TypedGoesOn, FiniteGoesOn, NamedGoesOn, KnownGoesOn, InOnePlaceGoesOn, KeptGoesOn,
     OnNodeGoesOn, CopyingGoesOn DEF IInv
<1>2. Planned' /\ Alike' /\ Attempts' /\ Stays'
  BY PlannedGoesOn, AlikeGoesOn, AttemptsGoesOn, StaysGoesOn DEF IInv
<1>3. crashes \in Nat
  BY DEF IInv, Typed
<1>4. Accepted' /\ Rejected' /\ DoneOnce' /\ Died'
  BY <1>3, OutcomesGoOn, DiedGoesOn DEF IInv
<1> QED BY <1>1, <1>2, <1>4 DEF IInv

LEMMA ReceiveKeeps ==
  ASSUME IInv, NEW i \in Mounted, Receive(i)
  PROVE  IInv'
<1>1. PICK ms, name : Took(i, ms, name)
  BY ReceiveTook DEF IInv
<1>2. Typed' /\ Finite' /\ Named' /\ Known' /\ InOnePlace' /\ OnNode' /\ Copying' /\ Phased'
  BY <1>1, TypedTook, FiniteTook, NamedTook, KnownTook, InOnePlaceTook, OnNodeTook,
     CopyingTook, PhasedTook DEF IInv
<1>3. Kept' /\ Planned' /\ Alike' /\ Attempts' /\ Stays'
  BY <1>1, KeptTook, PlannedTook, AlikeTook, AttemptsTook, StaysTook DEF IInv
<1>4. Accepted' /\ Rejected' /\ DoneOnce' /\ Died'
  BY <1>1, OutcomesTook DEF IInv
<1> QED BY <1>2, <1>3, <1>4 DEF IInv

LEMMA MovesKeeps ==
  ASSUME IInv, Moves
  PROVE  Typed' /\ Named' /\ Known' /\ OnNode' /\ Phased' /\ Planned' /\ Alike'
  BY TypedMoves, NamedMoves, KnownMoves, OnNodeMoves, PhasedMoves, PlannedMoves, AlikeMoves
     DEF IInv

LEMMA SettleKeeps ==
  ASSUME IInv, NEW r \in DOMAIN runs, Settle(r)
  PROVE  IInv'
<1>1. Settled(r) /\ Moves
  BY SettleSettled, SettledMoves DEF IInv
<1>2. Finite' /\ InOnePlace' /\ Kept' /\ Copying' /\ Attempts' /\ Stays'
  BY <1>1, FiniteSettled, InOnePlaceSettled, KeptSettled, CopyingSettled, AttemptsSettled, StaysSettled
     DEF IInv
<1>3. Accepted' /\ Rejected' /\ DoneOnce' /\ Died'
  BY <1>1, AcceptedSettled, RejectedSettled, DoneOnceSettled, DiedSettled DEF IInv
<1> QED BY <1>1, <1>2, <1>3, MovesKeeps DEF IInv

LEMMA RepublishKeeps ==
  ASSUME IInv, NEW c \in copies, Republish(c)
  PROVE  IInv'
<1>1. PICK m : Republished(c, m)
  BY RepublishRepublished DEF IInv
<1>2. Moves
  BY <1>1, RepublishedMoves DEF IInv
<1>3. Finite' /\ InOnePlace' /\ Kept' /\ Copying' /\ Attempts' /\ Stays'
  BY <1>1, FiniteRepublished, InOnePlaceRepublished, KeptRepublished, CopyingRepublished, AttemptsRepublished,
     StaysRepublished DEF IInv
<1>4. Accepted' /\ Rejected' /\ DoneOnce' /\ Died'
  BY <1>1, OutcomesRepublished DEF IInv
<1> QED BY <1>2, <1>3, <1>4, MovesKeeps DEF IInv

LEMMA CrashKeeps ==
  ASSUME IInv, Crash
  PROVE  IInv'
<1>1. Crashed /\ Moves
  BY CrashCrashed, CrashedMoves DEF IInv
<1>2. Finite' /\ InOnePlace' /\ Kept' /\ Copying' /\ Attempts' /\ Stays'
  BY <1>1, FiniteCrashed, InOnePlaceCrashed, KeptCrashed, CopyingCrashed, AttemptsCrashed, StaysCrashed
     DEF IInv
<1>3. Accepted' /\ Rejected' /\ DoneOnce' /\ Died'
  BY <1>1, OutcomesCrashed, DiedCrashed DEF IInv
<1> QED BY <1>1, <1>2, <1>3, MovesKeeps DEF IInv

LEMMA NothingKeeps ==
  ASSUME IInv, UNCHANGED vars
  PROVE  IInv'
<1>1. UNCHANGED <<service, runs, queue, last, sent, copies, ended, replaced, crashes>>
  BY DEF vars, world
<1>2. Phased' /\ GoesOn
  BY <1>1, SameRuns, NothingArrives DEF IInv, GoesOn
<1> QED BY <1>2, GoesOnKeeps

LEMMA StepKeeps ==
  ASSUME IInv, [Next]_vars
  PROVE  IInv'
<1>1. CASE Produce
  BY <1>1, ProduceGoesOn, GoesOnKeeps DEF IInv
<1>2. ASSUME NEW i \in Mounted, Receive(i) PROVE IInv'
  BY <1>2, ReceiveKeeps
<1>3. ASSUME NEW r \in DOMAIN runs,
             Progress(r) \/ TimeOut(r) \/ OpenFails(r) \/ PostFails(r) \/ EndFails(r)
      PROVE  IInv'
  <2>1. Typed /\ Phased
    BY DEF IInv
  <2>2. CASE Ask(r)
    BY <2>1, <2>2, AskGoesOn, GoesOnKeeps
  <2>3. CASE Post(r)
    BY <2>1, <2>3, PostGoesOn, GoesOnKeeps
  <2>4. CASE End(r) \/ EndFails(r)
    BY <2>1, <2>4, EndGoesOn, GoesOnKeeps
  <2>5. CASE Settle(r)
    BY <2>5, SettleKeeps
  <2>6. CASE TimeOut(r)
    BY <2>1, <2>6, TimeOutGoesOn, GoesOnKeeps
  <2>7. CASE OpenFails(r)
    BY <2>1, <2>7, OpenFailsGoesOn, GoesOnKeeps
  <2>8. CASE PostFails(r)
    BY <2>1, <2>8, PostFailsGoesOn, GoesOnKeeps
  <2> QED BY <1>3, <2>2, <2>3, <2>4, <2>5, <2>6, <2>7, <2>8 DEF Progress
<1>4. ASSUME NEW c \in copies, Republish(c) PROVE IInv'
  BY <1>4, RepublishKeeps
<1>5. CASE Crash
  BY <1>5, CrashKeeps
<1>6. CASE UNCHANGED vars
  BY <1>6, NothingKeeps
<1> QED BY <1>1, <1>2, <1>3, <1>4, <1>5, <1>6 DEF Next

\* The invariant of the services holds in every behaviour: every message is in one
\* place with a count that keeps up with its attempts, and every run is as far as
\* its handler's plan says.
THEOREM Invariance == Spec => []IInv
  BY Initially, StepKeeps, PTL DEF Spec

-----------------------------------------------------------------------------
(* What follows from it.                                                   *)

LEMMA SingletonsCount ==
  ASSUME NEW S, NEW T, NEW x, \/ S = {x} /\ T = {}
                              \/ S = {} /\ T = {x}
  PROVE  Cardinality(S) + Cardinality(T) = 1
<1>1. Cardinality({x}) = 1
  BY FS_Singleton
<1>2. Cardinality({}) = 0
  BY FS_EmptySet
<1> QED BY <1>1, <1>2

\* What is in one place has one carrier or one ending, and what is lost has none.
LEMMA OnePlaceFollows ==
  ASSUME IInv
  PROVE  OnePlace
<1> SUFFICES ASSUME NEW o \in sent
             PROVE  LET places == Cardinality(Carriers(o)) + Cardinality(Endings(o))
                    IN \/ places = 1
                       \/ places = 0 /\ crashes > 0 /\ \E m \in replaced : m.origin = o
  BY DEF OnePlace
<1>3. \A y : y \in Endings(o) <=> Place("end", NoRun, y, o)
  BY DEF Endings, Place
<1>4. \A y : y \in Carriers(o) <=> \/ Place("queue", NoRun, y, o)
                                   \/ \E c : Place("copy", NoRun, c, o) /\ y = c.message
                                   \/ \E r : Place("run", r, y, o)
  <2> SUFFICES ASSUME NEW y
               PROVE  y \in Carriers(o) <=> \/ Place("queue", NoRun, y, o)
                                            \/ \E c : Place("copy", NoRun, c, o) /\ y = c.message
                                            \/ \E r : Place("run", r, y, o)
    OBVIOUS
  <2>1. y \in {m \in queue : m.origin = o} <=> Place("queue", NoRun, y, o)
    BY DEF Place
  <2>2. y \in {c.message : c \in {d \in copies : d.message.origin = o}} <=>
            \E c : Place("copy", NoRun, c, o) /\ y = c.message
    BY DEF Place
  <2>3. y \in {m \in Unsettled : m.origin = o} <=> \E r : Place("run", r, y, o)
    BY UnsettledIs DEF Place
  <2> QED BY <2>1, <2>2, <2>3 DEF Carriers
<1>0. CASE Lost(o)
  <2>1. Carriers(o) = {} /\ Endings(o) = {}
    BY <1>0, <1>3, <1>4 DEF Lost
  <2> QED BY <1>0, <2>1, FS_EmptySet DEF Lost
<1> SUFFICES ASSUME ~Lost(o) PROVE Cardinality(Carriers(o)) + Cardinality(Endings(o)) = 1
  BY <1>0
<1>1. PICK k, q, x : PlacedAt(k, q, x, o)
  BY DEF IInv, InOnePlace
<1>2. Place(k, q, x, o) /\ \A kk, qq, y : Place(kk, qq, y, o) => kk = k /\ qq = q /\ y = x
  BY <1>1 DEF PlacedAt
<1>5. k \in {"queue", "run", "copy", "end"} /\ (k # "run" => q = NoRun)
  BY <1>2 DEF Place
<1>6. CASE k = "queue"
  <2>1. Carriers(o) = {x} /\ Endings(o) = {}
    BY <1>2, <1>3, <1>4, <1>5, <1>6
  <2> QED BY <2>1, SingletonsCount
<1>7. CASE k = "run"
  <2>1. Carriers(o) = {x} /\ Endings(o) = {}
    BY <1>2, <1>3, <1>4, <1>7
  <2> QED BY <2>1, SingletonsCount
<1>8. CASE k = "copy"
  <2>1. Carriers(o) = {x.message} /\ Endings(o) = {}
    BY <1>2, <1>3, <1>4, <1>5, <1>8
  <2> QED BY <2>1, SingletonsCount
<1>9. CASE k = "end"
  <2>1. Carriers(o) = {} /\ Endings(o) = {x}
    BY <1>2, <1>3, <1>4, <1>5, <1>9
  <2> QED BY <2>1, SingletonsCount
<1> QED BY <1>5, <1>6, <1>7, <1>8, <1>9

\* A message that reached a service is to be handled in one place, on a node, with
\* one run or in one copy, or ended in one way, whatever is retried, delayed,
\* dead-lettered, refused or cut off by a crash; where a crash took its copy it is
\* nowhere, and a delivery of it was rejected for that copy.
THEOREM MessageInOnePlace == Spec => []OnePlace
  BY Invariance, OnePlaceFollows, PTL

\* A subscription with a cap of attempts never runs its handler oftener for a
\* message, but for once per crash, whether it is redelivered or copied in between.
THEOREM AttemptsCapped == Spec => []AttemptsWithinCap
<1>1. IInv => AttemptsWithinCap
  BY DEF IInv, Attempts, Budget, AttemptsWithinCap
<1> QED BY <1>1, Invariance, PTL

\* A run that posts for a message belongs to a handler that posts, and every
\* other run of the mount for that message has the same plan.
LEMMA PostersAlike ==
  ASSUME IInv, NEW i \in Mounted, NEW o, NEW p \in RunsOf(i, o), runs[p].plan.posts # <<>>
  PROVE  /\ p \in DOMAIN runs /\ runs[p].mount = i /\ Handler(p) \in MayPost
         /\ ~SettledOnReceipt(i)
         /\ \A q \in RunsOf(i, o) : runs[q].plan = runs[p].plan
<1>1. p \in DOMAIN runs /\ runs[p].mount = i
  BY DEF RunsOf
<1>2. Handler(p) \in MayPost
  BY <1>1 DEF IInv, Phased, PlanFits
<1>3. ~SettledOnReceipt(i)
  BY <1>1, <1>2, MountingHolds DEF IInv, Typed, Mounting, Handler
<1>4. PICK m \in runs[p].messages : m.origin = o
  BY DEF RunsOf
<1>5. ASSUME NEW q \in RunsOf(i, o) PROVE runs[q].plan = runs[p].plan
  <2>1. q \in DOMAIN runs /\ runs[q].mount = i
    BY DEF RunsOf
  <2>2. PICK n \in runs[q].messages : n.origin = o
    BY DEF RunsOf
  <2> QED BY <1>1, <1>2, <1>4, <2>1, <2>2, SamePosts DEF IInv
<1> QED BY <1>1, <1>2, <1>3, <1>5

\* Of the runs of a mount for a message at most one is live or has accepted it.
LEMMA OneAtWork ==
  ASSUME IInv, NEW i \in Mounted, NEW o, ~SettledOnReceipt(i),
         NEW p \in RunsOf(i, o), NEW q \in RunsOf(i, o),
         Live(p) \/ Done(p), Live(q) \/ Done(q)
  PROVE  p = q
<1>1. p \in DOMAIN runs /\ q \in DOMAIN runs /\ runs[p].mount = i /\ runs[q].mount = i
  BY DEF RunsOf
<1>2. PICK m \in runs[p].messages : m.origin = o
  BY DEF RunsOf
<1>3. PICK n \in runs[q].messages : n.origin = o
  BY DEF RunsOf
<1>4. Known /\ InOnePlace /\ DoneOnce
  BY DEF IInv
<1>5. CASE Live(p) /\ Live(q)
  <2>1. Holds(p) /\ Holds(q)
    BY <1>1, <1>5 DEF Holds
  <2> QED BY <1>1, <1>2, <1>3, <1>4, <2>1, HeldOnly
<1>6. CASE Live(p) /\ Done(q)
  <2>1. Holds(p)
    BY <1>1, <1>6 DEF Holds
  <2>2. <<n.origin, "accepted">> \in ended
    BY <1>1, <1>3, <1>4, <1>6 DEF DoneOnce
  <2>3. \A e \in ended : e[1] # m.origin
    BY <1>1, <1>2, <1>4, <2>1, HeldOnly
  <2> QED BY <1>2, <1>3, <2>2, <2>3
<1>7. CASE Done(p) /\ Live(q)
  <2>1. Holds(q)
    BY <1>1, <1>7 DEF Holds
  <2>2. <<m.origin, "accepted">> \in ended
    BY <1>1, <1>2, <1>4, <1>7 DEF DoneOnce
  <2>3. \A e \in ended : e[1] # n.origin
    BY <1>1, <1>3, <1>4, <2>1, HeldOnly
  <2> QED BY <1>2, <1>3, <2>2, <2>3
<1>8. CASE Done(p) /\ Done(q)
  <2>1. \A s \in RunsOf(runs[p].mount, m.origin) : Done(s) => s = p
    BY <1>1, <1>2, <1>4, <1>8 DEF DoneOnce
  <2> QED BY <1>1, <1>2, <1>8, <2>1
<1> QED BY <1>5, <1>6, <1>7, <1>8

\* Of the runs of a mount for a message that end well there is one, or a crash cut
\* off the others.
LEMMA CommitsCount ==
  ASSUME IInv, NEW i \in Mounted, NEW o \in sent, ~SettledOnReceipt(i)
  PROVE  Cardinality({r \in ShownBy(i, o) : runs[r].outcome = "ack"}) <= 1 + crashes
<1> DEFINE committed == {r \in ShownBy(i, o) : runs[r].outcome = "ack"}
           dead == DeadOf(i, o)
           working == {r \in RunsOf(i, o) : Live(r) \/ Done(r)}
<1>1. /\ IsFiniteSet(dead) /\ Cardinality(dead) \in Nat /\ Cardinality(dead) <= crashes
      /\ crashes \in Nat
  <2>1. dead \subseteq RunsOf(i, o)
    BY DEF DeadOf
  <2>2. IsFiniteSet(dead) /\ Cardinality(dead) \in Nat
    BY <2>1, RunsOfFinite, FS_Subset, FS_CardinalityType DEF IInv
  <2>3. Cardinality(dead) <= crashes /\ crashes \in Nat
    BY DEF IInv, Died, Typed
  <2> QED BY <2>2, <2>3
<1>2. committed \subseteq dead \cup working
  <2> SUFFICES ASSUME NEW r \in RunsOf(i, o), runs[r].outcome = "ack"
               PROVE  r \in dead \cup working
    BY DEF ShownBy
  <2>1. CASE runs[r].stage = "dead"
    BY <2>1 DEF DeadOf
  <2>2. CASE runs[r].stage = "over"
    BY <2>2 DEF Done
  <2>3. CASE runs[r].stage \notin {"over", "dead"}
    BY <2>3 DEF Live
  <2> QED BY <2>1, <2>2, <2>3
<1>3. \A p, q \in working : p = q
  BY OneAtWork
<1> HIDE DEF committed, dead, working
<1>4. CASE working = {}
  <2>1. committed \subseteq dead
    BY <1>2, <1>4
  <2>2. Cardinality(committed) <= Cardinality(dead) /\ Cardinality(committed) \in Nat
    BY <1>1, <2>1, FS_Subset, FS_CardinalityType
  <2>3. Cardinality(committed) <= 1 + crashes
    BY <1>1, <2>2
  <2> QED BY <2>3 DEF committed
<1>5. ASSUME NEW r \in working PROVE Cardinality(committed) <= 1 + crashes
  <2>1. committed \subseteq dead \cup {r}
    BY <1>2, <1>3, <1>5
  <2>2. /\ IsFiniteSet(dead \cup {r})
        /\ Cardinality(dead \cup {r}) \in {Cardinality(dead), Cardinality(dead) + 1}
    BY <1>1, FS_AddElement
  <2>3. Cardinality(committed) <= Cardinality(dead \cup {r}) /\ Cardinality(committed) \in Nat
    BY <2>1, <2>2, FS_Subset, FS_CardinalityType
  <2> QED BY <1>1, <2>2, <2>3
<1> QED BY <1>4, <1>5 DEF committed

\* A message that is accepted or rejected is matched by the posts of its runs.
LEMMA PostsFollow ==
  ASSUME IInv
  PROVE  PostsMatchSettlement
<1> SUFFICES ASSUME NEW i \in Mounted, NEW o \in sent,
                    NEW p \in RunsOf(i, o), runs[p].plan.posts # <<>>
    PROVE  /\ <<o, "accepted">> \in ended => ShownWholeBy(i, o) # {}
           /\ (\E r \in RunsOf(i, o) : runs[r].plan.ends # "plain") =>
                 /\ ShownBy(i, o) = ShownWholeBy(i, o)
                 /\ <<o, "rejected">> \in ended => ShownBy(i, o) = {}
                 /\ Cardinality({r \in ShownBy(i, o) : runs[r].outcome = "ack"}) <= 1 + crashes
  BY DEF PostsMatchSettlement, Inside
<1>1. /\ p \in DOMAIN runs /\ runs[p].mount = i /\ Handler(p) \in MayPost
      /\ ~SettledOnReceipt(i)
      /\ \A q \in RunsOf(i, o) : runs[q].plan = runs[p].plan
  BY PostersAlike
<1>2. \A q \in RunsOf(i, o) : q \in DOMAIN runs
  BY DEF RunsOf
<1>3. PICK m \in runs[p].messages : m.origin = o
  BY DEF RunsOf
<1>4. PlanFits(Handler(p), runs[p].plan)
  BY <1>1 DEF IInv, Phased
<1>5. \A q \in RunsOf(i, o) : Phase(runs[q]) /\ runs[q].shown \in Nat
  BY <1>2 DEF IInv, Phased, Typed, RunTyped
<1>6. ASSUME <<o, "accepted">> \in ended PROVE ShownWholeBy(i, o) # {}
  <2>1. PICK q \in RunsOf(i, o) : Done(q) /\ Whole(q)
    BY <1>1, <1>3, <1>6 DEF IInv, Accepted
  <2>2. runs[q].plan = runs[p].plan /\ runs[q].plan.outcome = "ack"
    BY <1>1, <1>5, <2>1 DEF Phase, Done
  <2>3. Len(runs[q].plan.posts) \in Nat /\ Len(runs[q].plan.posts) # 0
    BY <1>4, <2>2 DEF PlanFits
  <2>4. runs[q].shown = Len(runs[q].plan.posts) /\ runs[q].shown > 0
    BY <2>1, <2>3 DEF Whole
  <2>5. q \in ShownWholeBy(i, o)
    BY <2>4 DEF ShownWholeBy, ShownBy
  <2> QED BY <2>5
<1>7. ASSUME NEW r \in RunsOf(i, o), runs[r].plan.ends # "plain"
      PROVE  /\ ShownBy(i, o) = ShownWholeBy(i, o)
             /\ <<o, "rejected">> \in ended => ShownBy(i, o) = {}
  <2>1. \A q \in ShownBy(i, o) : q \in RunsOf(i, o) /\ runs[q].shown # 0
    BY <1>5 DEF ShownBy
  <2>2. \A q \in RunsOf(i, o) : runs[q].plan.ends # "plain"
    BY <1>1, <1>7
  <2>3. \A q \in ShownBy(i, o) :
            runs[q].plan.ends = "commit" /\ runs[q].shown = Len(runs[q].plan.posts)
    BY <1>5, <2>1, <2>2 DEF Phase
  <2>4. ShownBy(i, o) = ShownWholeBy(i, o)
    BY <2>3 DEF ShownWholeBy
  <2>5. ASSUME <<o, "rejected">> \in ended PROVE ShownBy(i, o) = {}
    <3>1. runs[p].plan.ends # "commit"
      BY <1>1, <1>3, <2>5 DEF IInv, Rejected
    <3> QED BY <1>1, <2>1, <2>3, <3>1
  <2> QED BY <2>4, <2>5
<1>8. Cardinality({r \in ShownBy(i, o) : runs[r].outcome = "ack"}) <= 1 + crashes
  BY <1>1, CommitsCount
<1> QED BY <1>6, <1>7, <1>8

\* What a handler posts is seen when its message is accepted, in full; what a
\* transaction posts is never seen when the message is rejected; and a commit is
\* answered once, and once more for each crash.
THEOREM PostsDoMatchSettlement == Spec => []PostsMatchSettlement
  BY Invariance, PostsFollow, PTL

=============================================================================
