---------------------------- MODULE MCKeyHealth ----------------------------
(* SigningKeys and KeyHealth on a small instance.  Keys, handlers and KEKs  *)
(* are interchangeable model values.                                        *)
EXTENDS KeyHealth, TLC

Symmetry == Permutations(Key) \cup Permutations(Handler) \cup Permutations(KEK)

============================================================================
