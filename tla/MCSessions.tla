---------------------------- MODULE MCSessions ----------------------------
(* Sessions on a small instance.                                           *)
EXTENDS Sessions, TLC

Symmetry == Permutations(Challenge) \cup Permutations(Session) \cup Permutations(Proc)

===========================================================================
