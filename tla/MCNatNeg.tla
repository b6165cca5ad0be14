------------------------------ MODULE MCNatNeg ------------------------------
(* NatNeg on small instances: the cfg files choose the model values.       *)
EXTENDS NatNeg

Symmetry == Permutations(Cookie) \cup Permutations(Addr)
=============================================================================
