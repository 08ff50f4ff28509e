----------------------------- MODULE GatewayMC -----------------------------
(* Instances of Gateway for TLC. *)
EXTENDS Gateway, TLC

\* One name as it stands and one that clampName trims to it.
Trim == [n \in Name |-> "a"]
=============================================================================
