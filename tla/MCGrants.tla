----------------------------- MODULE MCGrants -----------------------------
(* Grants on a small instance.                                             *)
EXTENDS Grants, TLC

Symmetry == Permutations(Grant) \cup Permutations(Proc)

===========================================================================
