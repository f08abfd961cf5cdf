\* The server and a maintenance command, every file an earlier start may have
\* left, two clients of which one is declared more than once, a redeploy, a crash.
SPECIFICATION MCSpec
CONSTANTS
    Proc = {"server", "command"}
    Server = "server"
    MaxFaults = 1
    c1 = c1
    c2 = c2
    s1 = s1
    s2 = s2
    site = site
    local = local
    Client = {c1, c2}
    Secret = {s1, s2}
    NoSecret = NoSecret
    URI = {site, local}
    Loopback = {local}
    Manifest <- MCManifest
    ClientKeys <- MCClientKeys
    KEK = {"kek1", "kek2"}
    NoKEK = "none"
    NoRow = NoRow
    Unparseable = Unparseable
    Malformed = Malformed
    MaxDeploys = 1
INVARIANTS
    OpenMeansComplete
    ServedAsDeclared
PROPERTIES
    UsableStaysUsable
    EventuallyServes
CHECK_DEADLOCK FALSE
