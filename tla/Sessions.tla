------------------------------ MODULE Sessions ------------------------------
(***************************************************************************)
(* Human sessions: passkey login, the long-lived IdP session it opens,     *)
(* silent re-minting of access tokens from that session, and the three     *)
(* ways of ending it: logout, bulk revocation by an operator, revocation   *)
(* of the passkey.                                                         *)
(*                                                                         *)
(* Proc is a pool of HTTP requests; each runs one handler, one database or *)
(* ceremony-store call per step.  A principal has at most one passkey      *)
(* (module Enrolment); its successive passkeys are numbered by gen.  The   *)
(* principal rows themselves are never deleted by the running server.      *)
(***************************************************************************)
EXTENDS Integers, FiniteSets, SequencesExt

CONSTANTS
    Principal, Challenge, Session, Browser, Proc,
    NoPrincipal, NoChallenge, NoSession, NoBrowser,
    IdPSessionTTL,  \* store.IdPSessionTTL
    ChallengeTTL,   \* challengeTTL
    MaxRequest,     \* longest time a handler runs
    MaxGen,         \* bound on the passkeys a principal ever has
    MaxTime         \* bound on the clock

ASSUME TimingAssumption ==
    /\ IdPSessionTTL \in Nat /\ ChallengeTTL \in Nat /\ MaxRequest \in Nat
    /\ MaxGen \in Nat /\ MaxTime \in Nat

ASSUME NameAssumption ==
    /\ NoPrincipal \notin Principal /\ NoChallenge \notin Challenge
    /\ NoSession \notin Session /\ NoBrowser \notin Browser

VARIABLES
    now,
    passkey,    \* the principals' webauthn rows in credentials
    counter,    \* external: the signature counters of the authenticators
    pending,    \* ceremonyStore.entries, by challenge
    sessions,   \* idp_sessions
    jar,        \* the browsers' aithne_idp_session cookies
    proc,       \* the requests in flight
    lastMint,   \* history: when a session last gave an access token
    locked      \* history: the newest passkey that an operator has locked out

vars == <<now, passkey, counter, pending, sessions, jar, proc, lastMint, locked>>

Time == 0 .. MaxTime
Gen == 0 .. MaxGen
Passkey == [state : {"none", "active", "revoked"}, gen : Gen, sign_count : Nat,
            created_at : Time, revoked_at : Time]
Ceremony == [kind : {"fresh", "explicit", "discoverable", "gone"},
             principal : Principal \cup {NoPrincipal}, gen : Gen,
             expires_at : 0 .. MaxTime + ChallengeTTL]
SessionRow == [state : {"none", "active", "revoked"},
               principal : Principal \cup {NoPrincipal},
               expires_at : 0 .. MaxTime + IdPSessionTTL, revoked_at : Time,
               gen : Gen, challenge : Challenge \cup {NoChallenge}]
Local == [pc : {"idle", "taken", "verified", "counted", "session", "checked", "revoking"},
          principal : Principal \cup {NoPrincipal}, gen : Gen, sign_count : Nat,
          challenge : Challenge \cup {NoChallenge}, session : Session \cup {NoSession},
          browser : Browser \cup {NoBrowser}, since : Time]

TypeOK ==
    /\ now \in Time
    /\ passkey \in [Principal -> Passkey]
    /\ counter \in [Principal -> Nat]
    /\ pending \in [Challenge -> Ceremony]
    /\ sessions \in [Session -> SessionRow]
    /\ jar \in [Browser -> Session \cup {NoSession}]
    /\ proc \in [Proc -> Local]
    /\ lastMint \in [Session -> Time]
    /\ locked \in [Principal -> Gen]

Idle == [pc |-> "idle", principal |-> NoPrincipal, gen |-> 0, sign_count |-> 0,
         challenge |-> NoChallenge, session |-> NoSession, browser |-> NoBrowser,
         since |-> 0]
\* A request that begins with the row of a passkey or of a session.
At(pc, p, gen, s) == [pc |-> pc, principal |-> p, gen |-> gen, sign_count |-> 0,
                      challenge |-> NoChallenge, session |-> s, browser |-> NoBrowser,
                      since |-> now]
NoCeremony == [kind |-> "gone", principal |-> NoPrincipal, gen |-> 0, expires_at |-> 0]

Go(r, local) == proc' = [proc EXCEPT ![r] = local]
Step(r, pc) == proc' = [proc EXCEPT ![r].pc = pc]

Lapsed(c) == pending[c].kind \in {"explicit", "discoverable"} /\ now > pending[c].expires_at
\* The expired entries are dropped.
Swept == [c \in Challenge |-> IF Lapsed(c) THEN NoCeremony ELSE pending[c]]

----------------------------------------------------------------------------
(* POST /auth/login/begin                                                  *)

\* Explicit login: the contact has an active passkey.  The entry is keyed by
\* the contact, so it replaces a pending one.
LoginBegin(p, c) ==
    /\ passkey[p].state = "active"
    /\ pending[c].kind = "fresh"
    /\ pending' = [d \in Challenge |->
                     IF d = c THEN [kind |-> "explicit", principal |-> p, gen |-> passkey[p].gen,
                                    expires_at |-> now + ChallengeTTL]
                     ELSE IF pending[d].kind = "explicit" /\ pending[d].principal = p
                       THEN NoCeremony
                     ELSE Swept[d]]
    /\ UNCHANGED <<now, passkey, counter, sessions, jar, proc, lastMint, locked>>

\* Discoverable login: nobody is named, the entry has a key of its own.
LoginBeginDiscoverable(c) ==
    /\ pending[c].kind = "fresh"
    /\ pending' = [Swept EXCEPT ![c] =
                     [kind |-> "discoverable", principal |-> NoPrincipal, gen |-> 0,
                      expires_at |-> now + ChallengeTTL]]
    /\ UNCHANGED <<now, passkey, counter, sessions, jar, proc, lastMint, locked>>

\* sweepExpired, on the background ticker.
SweepExpired ==
    /\ pending' = Swept
    /\ UNCHANGED <<now, passkey, counter, sessions, jar, proc, lastMint, locked>>

----------------------------------------------------------------------------
(* POST /auth/login/finish                                                 *)

\* Bug: take leaves the entry behind.
LeftByTakeAll(c) == pending

\* take deletes the entry, usable or not.
LeftByTake(c) == [pending EXCEPT ![c] = NoCeremony]

\* The assertion is made with the current passkey of q, whose counter it
\* carries; answers tells whether it is for this challenge and this server.
FinishTake(r, c, q, b, answers) ==
    /\ proc[r].pc = "idle"
    /\ pending[c].kind \in {"explicit", "discoverable"}
    /\ pending[c].principal \in {q, NoPrincipal}
    /\ passkey[q].gen > 0
    /\ pending' = LeftByTake(c)
    /\ counter' = [counter EXCEPT ![q] = @ + 1]
    /\ IF answers /\ ~Lapsed(c)
             /\ (pending[c].kind = "explicit" => pending[c].gen = passkey[q].gen)
         THEN Go(r, [pc |-> "taken", principal |-> q, gen |-> passkey[q].gen,
                     sign_count |-> counter[q] + 1, challenge |-> c,
                     session |-> NoSession, browser |-> b, since |-> now])
         ELSE UNCHANGED proc
    /\ UNCHANGED <<now, passkey, sessions, jar, lastMint, locked>>

\* Bug: revoked passkeys are not skipped.
HasPasskeyAny(p) == passkey[p].state # "none"

\* The principal has a passkey that is not revoked.
HasPasskey(p) == passkey[p].state = "active"

\* External: the library's CloneWarning.
CloneWarning(asserted, stored) == asserted <= stored /\ (asserted # 0 \/ stored # 0)

\* loadWebAuthnUser and the verification against the rows it read; a clone
\* warning is a refusal.
FinishVerify(r) ==
    LET l == proc[r] IN
    /\ l.pc = "taken"
    /\ IF /\ HasPasskey(l.principal) /\ passkey[l.principal].gen = l.gen
          /\ ~CloneWarning(l.sign_count, passkey[l.principal].sign_count)
         THEN Step(r, "verified")
         ELSE Go(r, Idle)
    /\ UNCHANGED <<now, passkey, counter, pending, sessions, jar, lastMint, locked>>

\* findAndUpdateSignCount and UpdateCredentialData: a passkey that is gone or
\* revoked by now is not an error.
FinishCount(r) ==
    LET l == proc[r] IN
    /\ l.pc = "verified"
    /\ passkey' = IF HasPasskey(l.principal) /\ passkey[l.principal].gen = l.gen
                    THEN [passkey EXCEPT ![l.principal].sign_count = l.sign_count]
                    ELSE passkey
    /\ Step(r, "counted")
    /\ UNCHANGED <<now, counter, pending, sessions, jar, lastMint, locked>>

\* MintSession and CreateIDPSession, with both cookies in the response.
FinishOpen(r) ==
    LET l == proc[r] IN
    /\ l.pc = "counted"
    /\ \E s \in Session :
          /\ sessions[s].state = "none"
          /\ sessions' = [sessions EXCEPT ![s] =
                            [state |-> "active", principal |-> l.principal,
                             expires_at |-> now + IdPSessionTTL, revoked_at |-> 0,
                             gen |-> l.gen, challenge |-> l.challenge]]
          /\ jar' = [jar EXCEPT ![l.browser] = s]
          /\ lastMint' = [lastMint EXCEPT ![s] = now]
    /\ Go(r, Idle)
    /\ UNCHANGED <<now, passkey, counter, pending, locked>>

----------------------------------------------------------------------------
(* POST /auth/remint, by any client that holds the session's token         *)

\* Bug: the expiry is not looked at.
UsableExpired(s) == sessions[s].state = "active"

\* GetIDPSessionByToken returns no error.
Usable(s) == sessions[s].state = "active" /\ now <= sessions[s].expires_at

RemintRead(r, s) ==
    /\ proc[r].pc = "idle"
    /\ Usable(s)
    /\ Go(r, At("session", sessions[s].principal, 0, s))
    /\ UNCHANGED <<now, passkey, counter, pending, sessions, jar, lastMint, locked>>

\* The synchronous re-validation of the principal.
RemintCheck(r) ==
    /\ proc[r].pc = "session"
    /\ IF HasPasskey(proc[r].principal) THEN Step(r, "checked") ELSE Go(r, Idle)
    /\ UNCHANGED <<now, passkey, counter, pending, sessions, jar, lastMint, locked>>

RemintMint(r) ==
    /\ proc[r].pc = "checked"
    /\ lastMint' = [lastMint EXCEPT ![proc[r].session] = now]
    /\ Go(r, Idle)
    /\ UNCHANGED <<now, passkey, counter, pending, sessions, jar, locked>>

----------------------------------------------------------------------------
(* Ending a session                                                        *)

IdPCookiePath == <<"auth", "remint">>
LogoutPath == <<"auth", "logout">>

\* External: a browser sends a cookie to the paths below the cookie's own.
Sent(cookiePath, requestPath) == IsPrefix(cookiePath, requestPath)

\* The row after "SET revoked_at = now".
Revoked(s) == [sessions[s] EXCEPT !.state = "revoked", !.revoked_at = now]

\* POST /auth/logout from the login origin: revokes the session whose cookie
\* the request carries, and clears the cookie.
Logout(b) ==
    LET s == jar[b] IN
    /\ s # NoSession
    /\ sessions' = IF Sent(IdPCookiePath, LogoutPath) /\ sessions[s].state = "active"
                     THEN [sessions EXCEPT ![s] = Revoked(s)]
                     ELSE sessions
    /\ jar' = [jar EXCEPT ![b] = NoSession]
    /\ UNCHANGED <<now, passkey, counter, pending, proc, lastMint, locked>>

\* History only: the newest passkey of p that ended more than MaxRequest ago.
EndedBefore(p) ==
    IF passkey[p].state = "revoked" /\ now > passkey[p].revoked_at + MaxRequest
      THEN passkey[p].gen
    ELSE IF passkey[p].gen > 0 /\ now > passkey[p].created_at + MaxRequest
      THEN passkey[p].gen - 1
    ELSE 0

\* The rows that the UPDATE of a bulk revocation matches.
InBulk(p, s) == sessions[s].principal = p /\ sessions[s].state = "active"

\* DELETE /admin/principals/{id}/idp-sessions.
BulkRevoke(p) ==
    /\ sessions' = [s \in Session |-> IF InBulk(p, s) THEN Revoked(s) ELSE sessions[s]]
    /\ locked' = [locked EXCEPT ![p] = IF EndedBefore(p) > @ THEN EndedBefore(p) ELSE @]
    /\ UNCHANGED <<now, passkey, counter, pending, jar, proc, lastMint>>

\* RevokeCredential: the SELECT, then an UPDATE by id that does not look
\* whether the row was revoked, or replaced, in between.
RevokeRead(r, p) ==
    /\ proc[r].pc = "idle"
    /\ passkey[p].state = "active"
    /\ Go(r, At("revoking", p, passkey[p].gen, NoSession))
    /\ UNCHANGED <<now, passkey, counter, pending, sessions, jar, lastMint, locked>>

RevokeWrite(r) ==
    LET p == proc[r].principal IN
    /\ proc[r].pc = "revoking"
    /\ passkey' = IF passkey[p].gen = proc[r].gen
                    THEN [passkey EXCEPT ![p].state = "revoked", ![p].revoked_at = now]
                    ELSE passkey
    /\ Go(r, Idle)
    /\ UNCHANGED <<now, counter, pending, sessions, jar, lastMint, locked>>

----------------------------------------------------------------------------

\* Module Enrolment's transaction: the new passkey replaces the old one, and
\* the IdP sessions are left alone.
Enrol(p) ==
    /\ passkey[p].gen < MaxGen
    /\ passkey' = [passkey EXCEPT ![p] = [state |-> "active", gen |-> @.gen + 1, sign_count |-> 0,
                                          created_at |-> now, revoked_at |-> 0]]
    /\ counter' = [counter EXCEPT ![p] = 0]
    /\ UNCHANGED <<now, pending, sessions, jar, proc, lastMint, locked>>

\* A restart loses the ceremonies and the requests, not the database.
Restart ==
    /\ pending' = [c \in Challenge |->
                     IF pending[c].kind = "fresh" THEN pending[c] ELSE NoCeremony]
    /\ proc' = [r \in Proc |-> Idle]
    /\ UNCHANGED <<now, passkey, counter, sessions, jar, lastMint, locked>>

Tick ==
    /\ now < MaxTime
    /\ \A r \in Proc : proc[r].pc # "idle" => now < proc[r].since + MaxRequest
    /\ now' = now + 1
    /\ UNCHANGED <<passkey, counter, pending, sessions, jar, proc, lastMint, locked>>

Init ==
    /\ now = 0
    /\ passkey = [p \in Principal |-> [state |-> "none", gen |-> 0, sign_count |-> 0,
                                       created_at |-> 0, revoked_at |-> 0]]
    /\ counter = [p \in Principal |-> 0]
    /\ pending = [c \in Challenge |-> [NoCeremony EXCEPT !.kind = "fresh"]]
    /\ sessions = [s \in Session |-> [state |-> "none", principal |-> NoPrincipal,
                                      expires_at |-> 0, revoked_at |-> 0,
                                      gen |-> 0, challenge |-> NoChallenge]]
    /\ jar = [b \in Browser |-> NoSession]
    /\ proc = [r \in Proc |-> Idle]
    /\ lastMint = [s \in Session |-> 0]
    /\ locked = [p \in Principal |-> 0]

Handler(r) ==
    \/ \E c \in Challenge, q \in Principal, b \in Browser, answers \in BOOLEAN :
          FinishTake(r, c, q, b, answers)
    \/ FinishVerify(r) \/ FinishCount(r) \/ FinishOpen(r)
    \/ \E s \in Session : RemintRead(r, s)
    \/ RemintCheck(r) \/ RemintMint(r)
    \/ \E p \in Principal : RevokeRead(r, p)
    \/ RevokeWrite(r)

Next ==
    \/ \E r \in Proc : Handler(r)
    \/ \E p \in Principal, c \in Challenge : LoginBegin(p, c)
    \/ \E c \in Challenge : LoginBeginDiscoverable(c)
    \/ \E b \in Browser : Logout(b)
    \/ \E p \in Principal : BulkRevoke(p) \/ Enrol(p)
    \/ SweepExpired \/ Restart \/ Tick

Spec == Init /\ [][Next]_vars

----------------------------------------------------------------------------
(* Properties.                                                             *)

Opened(s) == sessions[s].state # "none"

\* A challenge lets one login through: however finishes race, no two sessions
\* were opened by answering the same challenge (take removes the ceremony).
ChallengeOpensOneSession ==
    \A s, t \in Session :
        Opened(s) /\ Opened(t) /\ s # t => sessions[s].challenge # sessions[t].challenge

\* An expired or revoked IdP session gives no access token, except to a
\* re-mint that had already read the row.
RemintEndsWithSession ==
    \A s \in Session :
        /\ lastMint[s] <= sessions[s].expires_at + MaxRequest
        /\ sessions[s].state = "revoked" => lastMint[s] <= sessions[s].revoked_at + MaxRequest

\* While a principal's passkey is revoked nobody gets a token as that
\* principal, by login or by re-mint, except requests that had already checked
\* the passkey, although revocation leaves the IdP sessions alone.
RevokedPasskeyStopsTokens ==
    \A s \in Session, p \in Principal :
        Opened(s) /\ sessions[s].principal = p /\ passkey[p].state = "revoked" =>
            lastMint[s] <= passkey[p].revoked_at + MaxRequest

\* An operator who ends a passkey, lets the requests in flight run out and
\* then revokes the principal's IdP sessions has locked it out for good: no
\* session opened with that passkey is active, not even after re-enrolment.
LockoutIsFinal ==
    \A s \in Session :
        sessions[s].state = "active" => sessions[s].gen > locked[sessions[s].principal]

\* The documented effect of logout: the session whose cookie the browser held
\* is revoked on the server.
LogoutRevokesSession ==
    [][\A b \in Browser :
          jar[b] # NoSession /\ jar'[b] = NoSession =>
             sessions'[jar[b]].state = "revoked"]_vars

\* The documented sign-count rule: an assertion is rejected unless its count
\* exceeds the stored one, so that the stored count of a passkey only grows.
StoredCountGrows ==
    [][\A p \in Principal :
          passkey'[p].gen = passkey[p].gen =>
             passkey'[p].sign_count >= passkey[p].sign_count]_vars

============================================================================
