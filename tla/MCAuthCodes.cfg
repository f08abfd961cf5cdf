\* One code per run of the flow, two requests racing for it, two clients.
CONSTANTS
    Code = {c1, c2}
    Client = {rp1, rp2}
    Secret = {s1}
    URI = {u1}
    Principal = {p1}
    Scope <- MCScope
    OIDCScope <- MCOIDCScope
    Request = {r1, r2}
    CodeTTL = 1
    SessionTTL = 1
    MaxTime = 2
SYMMETRY Symmetry
SPECIFICATION Spec
INVARIANTS
    SingleUse
    TokenMatchesCode
PROPERTIES
    OnlyValidatedConsumes
    ImplementsOneTimeCode
