---------------------------- MODULE RateLimiter ----------------------------
(***************************************************************************)
(* keyedLimiter: the in-memory rate limiter of the authentication          *)
(* endpoints.  Its mutex makes Allow and sweepExpired atomic.              *)
(***************************************************************************)
EXTENDS Integers, Sequences

CONSTANTS
    Key,        \* client ids, addresses or principals
    NoKey,
    Limit, Window,
    MaxCount,   \* bound on the requests counted in one window
    MaxTime     \* bound on the clock

ASSUME LimitAssumption ==
    /\ Limit \in Nat \ {0} /\ Window \in Nat \ {0}
    /\ MaxCount \in Nat \ {0} /\ MaxTime \in Nat
    /\ NoKey \notin Key

VARIABLES
    now,
    entries,    \* the map; an absent entry has count 0
    decision,   \* the last answer of Allow
    passed      \* history: the requests let through since the start, in order

vars == <<now, entries, decision, passed>>

Time == 0 .. MaxTime
Entry == [count : 0 .. MaxCount, windowStart : Time]
Passed == [at : Time, window : Time]    \* when, and the start of its window

TypeOK ==
    /\ now \in Time
    /\ entries \in [Key -> Entry]
    /\ decision \in [key : Key \cup {NoKey}, ok : BOOLEAN]
    /\ passed \in [Key -> Seq(Passed)]

Absent == [count |-> 0, windowStart |-> 0]

\* The window of the entry is over.
Over(e) == now - e.windowStart > Window

\* "e.count++"
Counted(e) == [count |-> e.count + 1, windowStart |-> e.windowStart]

\* Bug: the limit is compared with the count before the increment.
WithinBefore(count) == count - 1 <= Limit

\* "e.count <= rl.limit"
Within(count) == count <= Limit

Opened == [count |-> 1, windowStart |-> now]

Allow(k) ==
    LET e == entries[k]
        fresh == e.count = 0 \/ Over(e)
        f == IF fresh THEN Opened ELSE Counted(e)
        ok == fresh \/ Within(f.count) IN
    /\ fresh \/ e.count < MaxCount
    /\ entries' = [entries EXCEPT ![k] = f]
    /\ decision' = [key |-> k, ok |-> ok]
    /\ passed' = IF ~ok THEN passed
                 ELSE [passed EXCEPT ![k] = Append(@, [at |-> now, window |-> f.windowStart])]
    /\ UNCHANGED now

\* Bug: the cutoff is now.
StaleEarly(e) == e.windowStart < now

\* "e.windowStart.Before(now - window)"
Stale(e) == e.windowStart < now - Window

SweepExpired ==
    /\ entries' = [k \in Key |-> IF Stale(entries[k]) THEN Absent ELSE entries[k]]
    /\ UNCHANGED <<now, decision, passed>>

\* The limiters are created anew.
Restart ==
    /\ entries' = [k \in Key |-> Absent]
    /\ decision' = [key |-> NoKey, ok |-> FALSE]
    /\ passed' = [k \in Key |-> <<>>]
    /\ UNCHANGED now

Tick ==
    /\ now < MaxTime
    /\ now' = now + 1
    /\ UNCHANGED <<entries, decision, passed>>

Init ==
    /\ now = 0
    /\ entries = [k \in Key |-> Absent]
    /\ decision = [key |-> NoKey, ok |-> FALSE]
    /\ passed = [k \in Key |-> <<>>]

Next == (\E k \in Key : Allow(k)) \/ SweepExpired \/ Restart \/ Tick

Spec == Init /\ [][Next]_vars

----------------------------------------------------------------------------
(* Properties.                                                             *)

\* Fixed windows are not aligned with the clock: whatever the requests and
\* the sweeps, in any stretch of time as long as a window at most twice the
\* limit gets through between two restarts.  That is, of the requests let
\* through, any one and the one 2 * Limit later are more than a window apart.
TwiceTheLimit ==
    \A k \in Key : \A i \in 1 .. Len(passed[k]) - 2 * Limit :
        passed[k][i + 2 * Limit].at > passed[k][i].at + Window

\* The entries that a sweep or the next Allow would not discard.
Live == [k \in Key |->
           IF entries[k].count = 0 \/ Over(entries[k]) THEN [count |-> 0, start |-> 0]
           ELSE [count |-> entries[k].count, start |-> entries[k].windowStart]]

Abstract == INSTANCE FixedWindow WITH window <- Live

\* The limiter decides as one that never sweeps: the sweeping of entries,
\* whenever it happens, is invisible in the decisions.
ImplementsFixedWindow == Abstract!Spec

============================================================================
