---------------------------- MODULE MCMajordomo ----------------------------
(* Majordomo on small instances.                                           *)
EXTENDS Majordomo

Symmetry == Permutations(Identity) \cup Permutations(Process)
=============================================================================
