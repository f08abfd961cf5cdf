---------------------------- MODULE FixedWindow ----------------------------
(***************************************************************************)
(* What a fixed-window rate limiter promises.  The first request of a key  *)
(* opens a window of length Window; of the requests in a window the first  *)
(* Limit are let through.  Nothing is said about memory.                   *)
(***************************************************************************)
EXTENDS Integers

CONSTANTS Key, NoKey, Limit, Window

VARIABLES
    now,
    window,     \* the open window of each key: its start, its requests; 0: none
    decision    \* the last answer

vars == <<now, window, decision>>

Closed == [count |-> 0, start |-> 0]

\* Every request counts, the refused ones too.
Attempt(k) ==
    /\ window' = [window EXCEPT ![k] = IF @.count = 0 THEN [count |-> 1, start |-> now]
                                       ELSE [count |-> @.count + 1, start |-> @.start]]
    /\ decision' = [key |-> k, ok |-> window[k].count < Limit]
    /\ UNCHANGED now

\* A window closes when more than Window has passed since it opened.
Advance ==
    /\ now' = now + 1
    /\ window' = [k \in Key |-> IF now' - window[k].start > Window THEN Closed ELSE window[k]]
    /\ UNCHANGED decision

NoDecision == [key |-> NoKey, ok |-> FALSE]

\* The limiter starts anew.
Forget ==
    /\ window' = [k \in Key |-> Closed]
    /\ decision' = NoDecision
    /\ UNCHANGED now

Init == now = 0 /\ window = [k \in Key |-> Closed] /\ decision = NoDecision

Next == (\E k \in Key : Attempt(k)) \/ Advance \/ Forget

Spec == Init /\ [][Next]_vars

============================================================================
