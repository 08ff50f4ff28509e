------------------------------- MODULE PageMC -------------------------------
(* Instances of Page for TLC. *)
EXTENDS Page, TLC

OneSteep == {[x |-> 2, z |-> 2]}
=============================================================================
