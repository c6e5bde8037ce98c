------------------------------ MODULE MCRouter ------------------------------
(***************************************************************************)
(* Router on small instances for TLC.                                      *)
(***************************************************************************)
EXTENDS Router, TLC

\* Messages differ only in name; subscriptions are told apart by their ids.
Symmetry == Permutations(Messages)

=============================================================================
