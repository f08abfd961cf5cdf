---------------------------- MODULE MCSweeping ----------------------------
(* RateLimiter and Sweeping on a small instance.                           *)
EXTENDS Sweeping, TLC

Symmetry == Permutations(Disco) \cup Permutations(Invite) \cup Permutations(Request)

============================================================================
