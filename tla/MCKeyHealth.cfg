\* Rotation, minting, consumers, migration and re-keying, health checks.
CONSTANTS
    Key = {k1, k2, k3}
    KEK = {e1, e2}
    Plain = Plain
    Handler = {h1, h2}
    Main = Main
    NoKey = NoKey
    Consumer = {c1}
    TTL = 2
    Window = 4
    CacheTTL = 1
    MintDelay = 1
    MaxAge = 2
    Grace = 1
    MaxTime = 6
SYMMETRY Symmetry
SPECIFICATION HealthSpec
INVARIANTS
    TypeOK
    AtMostOneActive
    PublishedUntilExpiry
    CacheMissesOnlyNewKeys
    RetiredKeyEvicted
    OneKEK
    ServingReadable
    AlarmMeansNoDeploy
CHECK_DEADLOCK FALSE
