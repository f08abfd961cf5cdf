---------------------------- MODULE MCEnrolment ----------------------------
(* Model checking of Enrolment.                                            *)
EXTENDS Enrolment, TLC

Symmetry == Permutations(Proc) \cup Permutations(Invite) \cup Permutations(Contact)
============================================================================
