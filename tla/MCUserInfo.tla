---------------------------- MODULE MCUserInfo ----------------------------
(* UserInfo on a small instance.                                           *)
EXTENDS UserInfo
===========================================================================
