-------------------------- MODULE MCParanoidPirate --------------------------
(* ParanoidPirate on small instances.                                      *)
EXTENDS ParanoidPirate

Symmetry == Permutations(Worker)
=============================================================================
