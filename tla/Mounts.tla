------------------------------- MODULE Mounts -------------------------------
(***************************************************************************)
(* The services the repository ships (crates/ruststream-amqp/examples):    *)
(* what each subscribes to, how it is mounted, and what its handlers do    *)
(* with a message.  Services.tla runs them.  Each is shipped twice, with   *)
(* the macros and without; these are the ones under examples/manual, which *)
(* write the handlers and mounts out.                                      *)
(*                                                                         *)
(* A body is the sequence of the marks a handler looks at; what it only    *)
(* logs or copies is left out.  A plan is what a handler does with one     *)
(* message: what it asks, what it posts, in a transaction or not, and the  *)
(* outcomes it returns when all goes well and when a step is refused.      *)
(***************************************************************************)
EXTENDS Naturals, SequencesExt

-----------------------------------------------------------------------------
(* Descriptors and mounts.                                                 *)

Address(name, kind) == [address |-> name, kind |-> kind, settle |-> "AtLeastOnce"]

Queue(name) == Address(name, "queue")
Topic(name) == Address(name, "topic")
Raw(name) == Address(name, "raw")

\* A subscription by its bare name.
Name(name) == Raw(name)

AtMostOnce(d) == [d EXCEPT !.settle = "AtMostOnce"]

Capability(d) == IF d.kind = "raw" THEN "none" ELSE d.kind

NoAddress == ""

\* A mount without a cap has cap 0.
Mount(handler, descriptor) ==
    [handler |-> handler, from |-> descriptor, cap |-> 0, dead |-> NoAddress,
     workers |-> 1, batch |-> 1]

Capped(mount, attempts, deadLetter) ==
    [mount EXCEPT !.cap = attempts, !.dead = deadLetter]

Message(to, body) == [to |-> to, body |-> body]

Service(mounts, inputs) == [mounts |-> mounts, inputs |-> inputs]

-----------------------------------------------------------------------------
(* Plans.                                                                  *)

ReplyTo == "reply-to"

Return(outcome) ==
    [ask |-> NoAddress, unanswered |-> "retry", posts |-> <<>>, ends |-> "plain",
     outcome |-> outcome, refused |-> "retry", endRefused |-> "retry"]

Reply(to, body) == [Return("ack") EXCEPT !.posts = <<Message(to, body)>>]

Commit(posts) == [Return("ack") EXCEPT !.posts = posts, !.ends = "commit"]

Abort(posts, endRefused) ==
    [Return("drop") EXCEPT !.posts = posts, !.ends = "abort", !.endRefused = endRefused]

-----------------------------------------------------------------------------
(* Refunds (guide/retries): the processor's refusals, in the order it      *)
(* finds them.                                                             *)

SendRefund(refund) ==
    IF Contains(refund, "no card") THEN "Declined"
    ELSE IF Contains(refund, "large") THEN "Busy"
    ELSE IF Contains(refund, "silent bank") THEN "Unavailable"
    ELSE "Ok"

ProcessRefund(refund) ==
    Return([Ok |-> "ack", Busy |-> "later", Unavailable |-> "retry",
            Declined |-> "drop"][SendRefund(refund)])

Refunds ==
    Service(<<Capped(Mount("process_refund", Queue("refunds")), 5, "refunds.dead"),
              Mount("review", Queue("refunds.dead"))>>,
            {Message("refunds", b) :
                b \in {<<>>, <<"large">>, <<"silent bank">>, <<"large", "no card">>}})

(* Payments (amqp_retry).                                                  *)

ChargeCard(payment) ==
    IF Contains(payment, "rate limited") THEN "later"
    ELSE IF Contains(payment, "disconnected") THEN "retry"
    ELSE "ack"

Charge(payment) == Return(ChargeCard(payment))

Payments ==
    Service(<<Capped(Mount("charge", Queue("payments")), 5, "payments.dead"),
              Mount("on_dead_letter", Queue("payments.dead"))>>,
            {Message("payments", b) : b \in {<<>>, <<"rate limited">>, <<"disconnected">>}})

(* The payments of amqp_settlement_dispositions: the gateway, which is in  *)
(* the process's memory, refuses the first charge of each.                 *)

ChargeAtGateway(payment, attempted) ==
    Return(IF Contains(payment, "nothing") THEN "drop"
           ELSE IF attempted THEN "ack" ELSE "retry")

Dispositions ==
    Service(<<Mount("charge_at_gateway", Queue("payments"))>>,
            {Message("payments", <<>>), Message("payments", <<"nothing">>)})

(* The warehouse (guide/acknowledgement).                                  *)

Pick(shipment) ==
    Return(IF Contains(shipment, "empty") THEN "drop"
           ELSE IF Contains(shipment, "out of stock") THEN "retry"
           ELSE "ack")

WarehousePicking(pick) ==
    Service(<<pick,
              Mount("log_pick", AtMostOnce(Queue("pick-log"))),
              [Mount("restock", Queue("restock")) EXCEPT !.batch = 20]>>,
            {Message("shipments", <<>>), Message("shipments", <<"out of stock">>),
             Message("shipments", <<"empty", "out of stock">>),
             Message("pick-log", <<>>), Message("restock", <<>>)})

\* Mutant of Warehouse: shipments have no cap.
UncappedWarehouse == WarehousePicking(Mount("pick", Queue("shipments")))

Warehouse == WarehousePicking(Capped(Mount("pick", Queue("shipments")), 5, NoAddress))

(* Telemetry (amqp_settlement_settle): the shard of sensor 0 is down.      *)

Record(reading) == Return(IF Contains(reading, "no shard") THEN "retry" ELSE "ack")

Telemetry ==
    Service(<<Mount("record", AtMostOnce(Queue("readings")))>>,
            {Message("readings", <<>>), Message("readings", <<"no shard">>)})

-----------------------------------------------------------------------------
(* Orders and their followers (guide/queues_and_topics).                   *)

TakeOrder == Reply("order-events", <<>>)

Orders ==
    Service(<<Mount("take_order", Queue("orders")),
              Mount("bill", Topic("order-events")),
              Mount("audit", Topic("order-events")),
              Mount("post_to_ledger", Raw("order-events::ledger"))>>,
            {Message("orders", <<>>), Message("order-events::ledger", <<>>)})

(* Billing (amqp_asyncapi): a receipt goes where the order asks for it.    *)

Confirm(asked) == Reply(IF asked THEN ReplyTo ELSE "receipts", <<>>)

Book == Commit(<<Message("ledger", <<>>)>>)

Billing ==
    Service(<<Mount("confirm", Queue("orders")),
              Capped(Mount("watch", AtMostOnce(Topic("events"))), 3, "orders.dead"),
              Mount("audit", Raw("/queues/audit")),
              Mount("book", Queue("payments"))>>,
            {Message(a, <<>>) : a \in {"orders", "events", "/queues/audit", "payments"}})

(* A gateway to warehouses (amqp_broker_errors): a message the broker      *)
(* refused is dropped.                                                     *)

Ship == [Reply("warehouse", <<>>) EXCEPT !.refused = "drop"]

Shipping == Service(<<Mount("ship", Queue("orders"))>>, {Message("orders", <<>>)})

\* A gateway whose shipments carry headers of their own, or a key that groups
\* them (amqp_publishing_headers, amqp_publishing_keys).
ShipTraced == Reply("shipments", <<>>)
ShipKeyed == Reply("shipments", <<>>)

Traced == Service(<<Mount("ship_traced", Queue("orders"))>>, {Message("orders", <<>>)})
Keyed == Service(<<Mount("ship_keyed", Queue("orders"))>>, {Message("orders", <<>>)})

\* A service that confirms its orders (amqp_broker_prelude, guide/production).
ConfirmOrder == Reply("confirmations", <<>>)

Confirmed == Service(<<Mount("confirm_order", Queue("orders"))>>, {Message("orders", <<>>)})
Production == Confirmed

(* Payments and receipts (amqp_testing, amqp_publishing_publish).          *)

Accept(payment) == Return(IF Contains(payment, "nothing") THEN "drop" ELSE "ack")

IssueReceipt == Reply("receipts", <<>>)

Receipts ==
    Service(<<Mount("accept", Queue("payments")), Mount("issue_receipt", Queue("orders"))>>,
            {Message("payments", <<>>), Message("payments", <<"nothing">>),
             Message("orders", <<>>)})

Published == Service(<<Mount("issue_receipt", Queue("orders"))>>, {Message("orders", <<>>)})

\* The first service of the guide (guide/getting_started) drops an order of nothing.
TakeFirstOrder(order) == Accept(order)

GettingStarted ==
    Service(<<Mount("take_first_order", Queue("orders"))>>,
            {Message("orders", <<>>), Message("orders", <<"nothing">>)})

-----------------------------------------------------------------------------
(* Requests (guide/request_reply, amqp_request_reply).                     *)

Quote(ask, asked) ==
    IF ~asked \/ Contains(ask, "no price") THEN Return("drop") ELSE Reply(ReplyTo, ask)

\* An answer that is no price would drop the order; only quote answers here, and
\* its answers are prices, so that branch is left out.
PriceOrder(order) ==
    [Reply("orders.priced", order) EXCEPT !.ask = "prices.quote", !.unanswered = "later"]

Pricing ==
    Service(<<Mount("quote", Queue("prices.quote")), Mount("price_order", Queue("orders"))>>,
            {Message("orders", <<>>), Message("orders", <<"no price">>),
             Message("prices.quote", <<>>)})

Greet(who, asked) == IF asked THEN Reply(ReplyTo, who) ELSE Return("drop")

Welcome == [Return("ack") EXCEPT !.ask = "greeter"]

\* The question the service asks once, at startup, is left out.
Greeter ==
    Service(<<Mount("greet", Queue("greeter")), Mount("welcome", Queue("visitors"))>>,
            {Message("visitors", <<>>), Message("greeter", <<>>)})

-----------------------------------------------------------------------------
(* Transactions (guide/transactions, amqp_transaction,                     *)
(* amqp_owned_transaction): a body is the order's lines.                   *)

\* The lines before the first that is void, each posted to an address.
Lines(order, to) ==
    LET void == SelectInSeq(order, LAMBDA line : line = "void")
        sound == IF void = 0 THEN order ELSE SubSeq(order, 1, void - 1)
    IN [i \in DOMAIN sound |-> Message(to, <<>>)]

BillWithLedger(order) ==
    IF Contains(order, "void") THEN Abort(Lines(order, "ledger"), "drop")
    ELSE Commit(Append(Lines(order, "ledger"), Message("invoices", <<>>)))

\* Mutant of BillInvoices: the lines before the void one are billed.
BillInvoicesSoFar(order) ==
    IF Contains(order, "void")
    THEN [Commit(Lines(order, "invoices")) EXCEPT !.outcome = "drop"]
    ELSE Commit(Lines(order, "invoices"))

BillInvoices(order) ==
    IF Contains(order, "void") THEN Abort(Lines(order, "invoices"), "retry")
    ELSE Commit(Lines(order, "invoices"))

BilledOrders(to) ==
    {Message(to, b) : b \in {<<"line", "line">>, <<"line", "void", "line">>, <<"void">>}}

LedgerBilling ==
    Service(<<Mount("bill_with_ledger", Queue("billing.orders"))>>,
            BilledOrders("billing.orders"))

InvoiceBilling ==
    Service(<<Mount("bill_invoices", Queue("orders"))>>, BilledOrders("orders"))

\* Four workers share the publisher and each opens a transaction of its own.
OwnedBilling ==
    Service(<<[Mount("bill_invoices", Queue("orders")) EXCEPT !.workers = 4]>>,
            BilledOrders("orders"))

-----------------------------------------------------------------------------
(* Services whose handlers acknowledge what they read.                     *)

Reader(mount) == Service(<<mount>>, {Message(mount.from.address, <<>>)})

Batches == Reader([Mount("store", Queue("orders")) EXCEPT !.batch = 32])
Credit == Reader(Mount("render", Queue("invoices")))
ByName == Reader(Mount("place", Name("orders")))
Fulfilment == Reader(Mount("fulfil", Queue("orders")))
Containers == Reader(Mount("place", Queue("orders")))
Ordered == Reader(Mount("place", Queue("orders")))
Verbatim == Reader(Mount("fulfil", Raw("/queues/orders")))

Placed ==
    Service(<<Mount("audit", Topic("orders.placed")), Mount("notify", Topic("orders.placed"))>>,
            {Message("orders.placed", <<>>)})

=============================================================================
