--------------------------- MODULE MCKEKRotation ---------------------------
(* KEKRotation on a small instance.                                         *)
EXTENDS KEKRotation, TLC

Symmetry == Permutations(Value)

============================================================================
