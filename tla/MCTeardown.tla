----------------------------- MODULE MCTeardown -----------------------------
(***************************************************************************)
(* Teardown on small instances for TLC.                                    *)
(***************************************************************************)
EXTENDS Teardown, TLC

CONSTANT a1

\* Every publish names the same address.
OneAddress == [p \in Publishes |-> a1]

=============================================================================
