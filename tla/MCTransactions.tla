--------------------------- MODULE MCTransactions ---------------------------
(***************************************************************************)
(* Transactions on small instances for TLC.                                *)
(***************************************************************************)
EXTENDS Transactions

BothTransports == {"live", "inprocess"}

=============================================================================
