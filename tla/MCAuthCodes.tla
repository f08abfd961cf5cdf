---------------------------- MODULE MCAuthCodes ----------------------------
(* Model checking of AuthCodes.                                            *)
EXTENDS AuthCodes, TLC

MCScope == {"arachne:use"}
MCOIDCScope == {"openid"}

Symmetry == Permutations(Request)
============================================================================
