---------------------------- MODULE ClientViewMC ----------------------------
(* Instances of ClientView for TLC. *)
EXTENDS ClientView, TLC

CONSTANTS o1, o2

TwoConnections == <<o1, o2>>
=============================================================================
