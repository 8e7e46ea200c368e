---------------------------- MODULE MCDisturbers ----------------------------
(* Disturbers on the instances of MCDisturbers.cfg.                          *)
EXTENDS Disturbers, TLC
Symmetry == Permutations(Instances) \cup Permutations(Disturbers)
=============================================================================
