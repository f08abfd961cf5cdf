SPECIFICATION Spec
CONSTANTS
    Human = {h1}
    Agent = {a1}
    BootAdmin = h1
    Scope = {Admin, Read}
    Admin = Admin
    Grant = {g1, g2}
    Key = {k1}
    Proc = {r1, r2}
    NoPrincipal = NoPrincipal
    NoGrant = NoGrant
    NoKey = NoKey
    Bootstrap = Bootstrap
    SessionTTL = 1
    MaxRequest = 1
    MaxTime = 4
SYMMETRY Symmetry
INVARIANTS
    OneActiveGrant
    TokensOutliveGrantsByTTL
    RevokedKeyStopsTokens
PROPERTIES
    AdminPowerExpires
