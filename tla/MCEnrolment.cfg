\* Two invites for one contact, two requests in flight.
CONSTANTS
    Contact = {alice}
    Invite = {i1, i2}
    Proc = {p1, p2}
    NoInvite = NoInvite
    NoContact = NoContact
    InviteTTL = 1
    ChallengeTTL = 1
    MaxDelay = 1
    MaxTime = 5
SYMMETRY Symmetry
SPECIFICATION Spec
INVARIANTS
    SpentOnce
    RecoveryHolds
    InviteHasPrincipal
    UsedSoonAfterExpiry
PROPERTIES
    PasskeysChangeWithInvite
