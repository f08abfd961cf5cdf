---------------------------- MODULE OneTimeCode ----------------------------
(***************************************************************************)
(* What an authorization code promises: it is issued once, redeemed at     *)
(* most once and only while it is live, and a redemption is answered with  *)
(* tokens at most once.  A redemption may stay unanswered (the server may  *)
(* stop in between); the code is spent all the same.                       *)
(***************************************************************************)
CONSTANT Code
VARIABLE stage   \* stage[c]: how far code c has come

Stage == {"absent", "live", "expired", "spent", "answered"}

Init == stage = [c \in Code |-> "absent"]

Move(c, from, to) ==
    /\ stage[c] = from
    /\ stage' = [stage EXCEPT ![c] = to]

Issue(c) == Move(c, "absent", "live")
Redeem(c) == Move(c, "live", "spent")
Answer(c) == Move(c, "spent", "answered")

\* Time passes: any number of live codes expire together.
Expire(S) ==
    /\ \A c \in S : stage[c] = "live"
    /\ stage' = [c \in Code |-> IF c \in S THEN "expired" ELSE stage[c]]

Next ==
    \/ \E c \in Code : Issue(c) \/ Redeem(c) \/ Answer(c)
    \/ \E S \in SUBSET Code : Expire(S)

Spec == Init /\ [][Next]_stage
============================================================================
