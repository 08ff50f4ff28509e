------------------------------ MODULE CombatMC ------------------------------
(* Combat for TLC: players and shot ids are interchangeable.               *)
EXTENDS Combat, TLC

Symmetry == Permutations(Player) \cup Permutations(Shot)
=============================================================================
