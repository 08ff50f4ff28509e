------------------------------- MODULE BotsMC -------------------------------
(* Instances of Bots for TLC. *)
EXTENDS Bots, TLC

CONSTANT b1

OneBot == <<b1>>
=============================================================================
