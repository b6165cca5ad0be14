------------------------------ MODULE MCSigning ------------------------------
(* Signing on small instances: the cfg file chooses the values.            *)
EXTENDS Signing

Symmetry == Permutations(Build) \cup Permutations(Output)
=============================================================================
