----------------------------- MODULE MCServices -----------------------------
(***************************************************************************)
(* Services on small instances for TLC: any one of those the repository    *)
(* ships.                                                                  *)
(***************************************************************************)
EXTENDS Services

Limited(services, most, failing) ==
    {s @@ [limit |-> most, faults |-> failing] : s \in services}

\* Where messages multiply, one input makes the interesting cases happen; an
\* order has three followers, whose posts fail in Shipping and Receipts as well.
Shipped ==
    Limited({Orders}, 1, 0)
    \cup Limited({Pricing, Greeter, Refunds, Payments}, 1, 1)
    \cup Limited({Dispositions, Warehouse, Telemetry, Billing, Shipping, Receipts,
                 LedgerBilling, InvoiceBilling, OwnedBilling, Traced, Keyed, Confirmed,
                 Production, Published, GettingStarted, Batches, Credit, ByName,
                 Fulfilment, Containers, Ordered, Verbatim, Placed}, 2, 1)

=============================================================================
