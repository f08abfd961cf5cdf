\* Two users of one browser, a re-mint at a time, an expiry, and every kind of login link.
SPECIFICATION MCSpec
CONSTANTS
    u1 = u1
    u2 = u2
    User = {u1, u2}
    Goal <- MCGoal
    Link <- MCLink
    Call = {"r1"}
    MaxExpiries = 1
INVARIANTS
    SignedOutStaysOut
    
PROPERTIES
    ComesBack
    StaysSignedIn
