------------------------------- MODULE MCPump -------------------------------
(***************************************************************************)
(* Pump on small instances for TLC: MCPump_fair.cfg runs every property,   *)
(* without symmetry for the sake of the temporal ones, MCPump_wedge.cfg    *)
(* the counterexample to AcksComeBack.                                     *)
(***************************************************************************)
EXTENDS Pump, TLC

=============================================================================
