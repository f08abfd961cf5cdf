\* One address, one begin per window; ceremonies for four windows, and two
\* requests that may be delayed.
SPECIFICATION SweepingSpec
CONSTANTS
    Key = {k1}
    NoKey = NoKey
    Limit = 1
    Window = 2
    MaxCount = 2
    MaxTime = 10
    Disco = {d1, d2}
    Contact = {alice}
    Invite = {i1, i2}
    Request = {r1, r2}
    TTL = 2
    MaxDelay = 2
    CleanupInterval = 3
SYMMETRY Symmetry
INVARIANTS
    TwiceTheLimit
    PendingBounded
    ExpiredLeave
PROPERTIES
    ImplementsFixedWindow
