SPECIFICATION Spec
CONSTANTS
    Principal = {p1}
    Challenge = {c1, c2}
    Session = {s1, s2}
    Browser = {b1}
    Proc = {r1, r2}
    NoPrincipal = NoPrincipal
    NoChallenge = NoChallenge
    NoSession = NoSession
    NoBrowser = NoBrowser
    IdPSessionTTL = 1
    ChallengeTTL = 1
    MaxRequest = 1
    MaxGen = 2
    MaxTime = 3
SYMMETRY Symmetry
INVARIANTS
    ChallengeOpensOneSession
    RemintEndsWithSession
    RevokedPasskeyStopsTokens
    LockoutIsFinal
