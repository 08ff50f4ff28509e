----------------------------- MODULE BackendMC ------------------------------
(* Instances of Backend for TLC. *)
EXTENDS Backend, TLC

Symmetry == Permutations(Name) \cup Permutations(File)
=============================================================================
