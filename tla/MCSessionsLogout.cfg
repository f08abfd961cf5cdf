SPECIFICATION Spec
CONSTANTS
    Principal = {p1}
    Challenge = {c1}
    Session = {s1}
    Browser = {b1}
    Proc = {r1}
    NoPrincipal = NoPrincipal
    NoChallenge = NoChallenge
    NoSession = NoSession
    NoBrowser = NoBrowser
    IdPSessionTTL = 1
    ChallengeTTL = 1
    MaxRequest = 1
    MaxGen = 2
    MaxTime = 3
PROPERTIES
    LogoutRevokesSession
