----------------------------- MODULE Enrolment -----------------------------
(***************************************************************************)
(* Invite-gated passkey enrolment and recovery.                            *)
(*                                                                         *)
(* An admin creates a single-use invite for a contact; the invitee starts  *)
(* a WebAuthn registration ceremony (begin), whose state the server keeps  *)
(* in memory for a minute, and completes it (finish), which in one         *)
(* transaction wipes the principal's passkeys, stores the new one and      *)
(* consumes the invite.  Admins may revoke invites at any time.            *)
(*                                                                         *)
(* Proc is a pool of HTTP requests; each runs one handler, one database    *)
(* or ceremony-store call per step.  A refused request changes nothing     *)
(* but what it had already done.                                           *)
(***************************************************************************)
EXTENDS Integers, FiniteSets

CONSTANTS
    Contact,        \* lucos_contacts ids
    Invite,         \* invite tokens (by their SHA-256)
    Proc,           \* concurrent requests
    NoInvite, NoContact,
    InviteTTL,      \* store.InviteTTL
    ChallengeTTL,   \* challengeTTL
    MaxDelay,       \* longest pause of a handler between two of its steps
    MaxTime         \* bound on the clock

ASSUME TimingAssumption ==
    /\ InviteTTL \in Nat /\ ChallengeTTL \in Nat
    /\ MaxDelay \in Nat /\ MaxTime \in Nat

ASSUME NameAssumption == NoInvite \notin Invite /\ NoContact \notin Contact

VARIABLES
    now,
    principals,     \* contacts with a row in principals
    invites,        \* enrolment_invites
    creds,          \* each principal's webauthn credentials, by their invite
    ceremony,       \* ceremonyStore.enrol, keyed by token hash
    proc,           \* the requests in flight
    uses,           \* history: passkeys ever enrolled with an invite
    revoked         \* history: invites whose revocation was reported done

vars == <<now, principals, invites, creds, ceremony, proc, uses, revoked>>

Time == 0 .. MaxTime
InviteRow == [state : {"none", "open", "used"}, contact : Contact \cup {NoContact},
              expires_at : 0 .. MaxTime + InviteTTL, used_at : Time]
Ceremony == [contact : Contact \cup {NoContact}, expires_at : 0 .. MaxTime + ChallengeTTL]
Local == [pc : {"idle", "newPrincipal", "newInvite", "begun", "taken", "revoking"},
          inv : Invite \cup {NoInvite}, contact : Contact \cup {NoContact}, since : Time]

TypeOK ==
    /\ now \in Time
    /\ principals \in SUBSET Contact
    /\ invites \in [Invite -> InviteRow]
    /\ creds \in [Contact -> SUBSET Invite]
    /\ ceremony \in [Invite -> Ceremony]
    /\ proc \in [Proc -> Local]
    /\ uses \in [Invite -> Nat]
    /\ revoked \in SUBSET Invite

Idle == [pc |-> "idle", inv |-> NoInvite, contact |-> NoContact, since |-> 0]
At(pc, i, c) == [pc |-> pc, inv |-> i, contact |-> c, since |-> now]
NoCeremony == [contact |-> NoContact, expires_at |-> 0]

Go(p, local) == proc' = [proc EXCEPT ![p] = local]

----------------------------------------------------------------------------
(* POST /admin/invites and --bootstrap-invite                              *)

\* Bug: the invite is created without looking for the principal.
AfterLookupNever(c) == "newInvite"

\* Where the get-or-create of the principal continues.
AfterLookup(c) == IF c \in principals THEN "newInvite" ELSE "newPrincipal"

\* The contact exists (checked with lucos_contacts); look up its principal.
AdminInvite(p, c) ==
    /\ proc[p].pc = "idle"
    /\ Go(p, At(AfterLookup(c), NoInvite, c))
    /\ UNCHANGED <<now, principals, invites, creds, ceremony, uses, revoked>>

\* CreatePrincipal; a duplicate (another admin was faster) is a 500.
CreatePrincipal(p) ==
    LET c == proc[p].contact IN
    /\ proc[p].pc = "newPrincipal"
    /\ IF c \in principals
         THEN Go(p, Idle) /\ UNCHANGED principals
         ELSE Go(p, At("newInvite", NoInvite, c)) /\ principals' = principals \cup {c}
    /\ UNCHANGED <<now, invites, creds, ceremony, uses, revoked>>

InviteExpiry == now + InviteTTL

\* CreateInvite: a fresh random token.
CreateInvite(p) ==
    /\ proc[p].pc = "newInvite"
    /\ \E i \in Invite :
          /\ invites[i].state = "none"
          /\ invites' = [invites EXCEPT ![i] =
                           [state |-> "open", contact |-> proc[p].contact,
                            expires_at |-> InviteExpiry, used_at |-> 0]]
    /\ Go(p, Idle)
    /\ UNCHANGED <<now, principals, creds, ceremony, uses, revoked>>

----------------------------------------------------------------------------
(* DELETE /admin/invites/{token_hash}                                      *)

\* The SELECT of RevokeInviteByHash.
RevokeRead(p, i) ==
    /\ proc[p].pc = "idle"
    /\ invites[i].state = "open"
    /\ Go(p, At("revoking", i, NoContact))
    /\ UNCHANGED <<now, principals, invites, creds, ceremony, uses, revoked>>

\* Bug: the UPDATE lacks "AND used_at IS NULL".
UpdatesAlways(i) == TRUE

\* The row that UPDATE ... WHERE used_at IS NULL matches.
UpdatesUnused(i) == invites[i].state = "open"

\* The row after "SET used_at = now".
Spent(i) == [state |-> "used", contact |-> invites[i].contact,
             expires_at |-> invites[i].expires_at, used_at |-> now]

\* The guarded UPDATE; the invite may have been used since the SELECT.
RevokeWrite(p) ==
    LET i == proc[p].inv IN
    /\ proc[p].pc = "revoking"
    /\ IF UpdatesUnused(i)
         THEN /\ invites' = [invites EXCEPT ![i] = Spent(i)]
              /\ revoked' = revoked \cup {i}
         ELSE UNCHANGED <<invites, revoked>>
    /\ Go(p, Idle)
    /\ UNCHANGED <<now, principals, creds, ceremony, uses>>

----------------------------------------------------------------------------
(* POST /enrol/begin                                                       *)

\* GetInviteByRawToken accepts it, and the principal is there.
BeginCheck(p, i) ==
    /\ proc[p].pc = "idle"
    /\ invites[i].state = "open"
    /\ now <= invites[i].expires_at
    /\ invites[i].contact \in principals
    /\ Go(p, At("begun", i, invites[i].contact))
    /\ UNCHANGED <<now, principals, invites, creds, ceremony, uses, revoked>>

Expired(i) == now > ceremony[i].expires_at

\* putEnrol, after a contacts lookup that may take seconds: overwrites a
\* pending ceremony of the same invite and drops every expired one.
BeginPut(p) ==
    LET i == proc[p].inv IN
    /\ proc[p].pc = "begun"
    /\ ceremony' = [j \in Invite |->
                      IF j = i THEN [contact |-> proc[p].contact,
                                     expires_at |-> now + ChallengeTTL]
                      ELSE IF Expired(j) THEN NoCeremony
                      ELSE ceremony[j]]
    /\ Go(p, Idle)
    /\ UNCHANGED <<now, principals, invites, creds, uses, revoked>>

\* sweepExpired, on the background ticker.
SweepExpired ==
    /\ ceremony' = [j \in Invite |-> IF Expired(j) THEN NoCeremony ELSE ceremony[j]]
    /\ UNCHANGED <<now, principals, invites, creds, proc, uses, revoked>>

----------------------------------------------------------------------------
(* POST /enrol/finish                                                      *)

\* Bug: an expired ceremony is handed out.
UsableLate(i) == ceremony[i] # NoCeremony

\* takeEnrol hands out a ceremony only before its expiry.
Usable(i) == ceremony[i] # NoCeremony /\ ~Expired(i)

\* takeEnrol removes the ceremony, usable or not; verified is the outcome of
\* FinishRegistration and of the credential's validation.
FinishTake(p, i, verified) ==
    /\ proc[p].pc = "idle"
    /\ ceremony' = [ceremony EXCEPT ![i] = NoCeremony]
    /\ IF Usable(i) /\ verified /\ ceremony[i].contact \in principals
         THEN Go(p, At("taken", i, ceremony[i].contact))
         ELSE UNCHANGED proc
    /\ UNCHANGED <<now, principals, invites, creds, uses, revoked>>

\* Bugs: the new passkey joins the old ones; or they are wiped although the
\* transaction fails.
StoredBeside(c, i) == creds[c] \cup {i}
LeftAfterFailureNone(c) == {}

\* DELETE and INSERT of the transaction, and what a rollback leaves.
StoredBy(c, i) == {i}
LeftAfterFailure(c) == creds[c]

\* ReplaceWebAuthnCredentialAndConsumeInvite: all three writes or none.
FinishReplace(p) ==
    LET i == proc[p].inv
        c == proc[p].contact IN
    /\ proc[p].pc = "taken"
    /\ IF UpdatesUnused(i)
         THEN /\ creds' = [creds EXCEPT ![c] = StoredBy(c, i)]
              /\ invites' = [invites EXCEPT ![i] = Spent(i)]
              /\ uses' = [uses EXCEPT ![i] = @ + 1]
         ELSE /\ creds' = [creds EXCEPT ![c] = LeftAfterFailure(c)]
              /\ UNCHANGED <<invites, uses>>
    /\ Go(p, Idle)
    /\ UNCHANGED <<now, principals, ceremony, revoked>>

----------------------------------------------------------------------------

\* A restart loses the ceremonies and the requests, not the database.
Restart ==
    /\ ceremony' = [i \in Invite |-> NoCeremony]
    /\ proc' = [p \in Proc |-> Idle]
    /\ UNCHANGED <<now, principals, invites, creds, uses, revoked>>

\* The contacts client times out after ten seconds, so no handler pauses
\* longer than MaxDelay.
Tick ==
    /\ now < MaxTime
    /\ \A p \in Proc : proc[p].pc # "idle" => now < proc[p].since + MaxDelay
    /\ now' = now + 1
    /\ UNCHANGED <<principals, invites, creds, ceremony, proc, uses, revoked>>

Init ==
    /\ now = 0
    /\ principals = {}
    /\ invites = [i \in Invite |-> [state |-> "none", contact |-> NoContact,
                                    expires_at |-> 0, used_at |-> 0]]
    /\ creds = [c \in Contact |-> {}]
    /\ ceremony = [i \in Invite |-> NoCeremony]
    /\ proc = [p \in Proc |-> Idle]
    /\ uses = [i \in Invite |-> 0]
    /\ revoked = {}

Handler(p) ==
    \/ \E c \in Contact : AdminInvite(p, c)
    \/ CreatePrincipal(p) \/ CreateInvite(p)
    \/ \E i \in Invite : RevokeRead(p, i) \/ BeginCheck(p, i)
    \/ RevokeWrite(p) \/ BeginPut(p)
    \/ \E i \in Invite, verified \in BOOLEAN : FinishTake(p, i, verified)
    \/ FinishReplace(p)

Next == (\E p \in Proc : Handler(p)) \/ SweepExpired \/ Restart \/ Tick

Spec == Init /\ [][Next]_vars

----------------------------------------------------------------------------
(* Properties.                                                             *)

\* An invite enrols one passkey or is revoked, never both and never twice,
\* whatever finishes and revocations race: a revocation that was reported done
\* means that nobody has enrolled or will enrol with the invite.
SpentOnce ==
    \A i \in Invite : uses[i] + (IF i \in revoked THEN 1 ELSE 0) <= 1

\* A recovery is final: once an enrolment has been reported done, the contact
\* always has a passkey, and none that an enrolment completed before left behind,
\* however finishes of older ceremonies, revocations and restarts fall around it.
\* In particular the loser of two finishes strands nobody without a passkey.
RecoveryHolds ==
    \A i \in Invite :
        uses[i] > 0 =>
            LET held == creds[invites[i].contact] IN
            /\ held # {}
            /\ \A j \in held : invites[j].used_at >= invites[i].used_at

\* An invite is created only for a contact that has a principal, so that
\* enrol/begin and enrol/finish find it, also when two admins create it at once.
InviteHasPrincipal ==
    \A i \in Invite : invites[i].state # "none" => invites[i].contact \in principals

\* The transaction does not look at the invite's expiry: an invite may be used
\* late, but no later than the pending ceremony and the pauses of the two
\* handlers allow.
UsedSoonAfterExpiry ==
    \A i \in Invite :
        invites[i].state = "used" /\ i \notin revoked =>
            invites[i].used_at <= invites[i].expires_at + ChallengeTTL + 2 * MaxDelay

\* Passkeys change only together with the consumption of an open invite made
\* out to that very contact, whose passkey replaces them; a failed transaction
\* takes no passkey away.
PasskeysChangeWithInvite ==
    [][\A c \in Contact :
          creds'[c] # creds[c] =>
             \E i \in Invite : /\ creds'[c] = {i}
                               /\ invites[i].state = "open" /\ invites[i].contact = c
                               /\ invites'[i].state = "used"]_vars

============================================================================
