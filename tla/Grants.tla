------------------------------- MODULE Grants -------------------------------
(***************************************************************************)
(* Scope grants, the access tokens minted from them and the administration *)
(* that the tokens authorise, machine keys included.                       *)
(*                                                                         *)
(* Authorisation is decided by the scopes inside a token, never by the     *)
(* grants of the moment: an administrator whose grant was revoked goes on  *)
(* administering until the token expires.  Proc is a pool of HTTP          *)
(* requests; each runs one handler, one database call per step.            *)
(***************************************************************************)
EXTENDS Integers, FiniteSets

CONSTANTS
    Human, Agent,   \* principals of the two classes
    BootAdmin,      \* the contact of BOOTSTRAP_ADMIN_CONTACT_ID
    Scope,          \* the vocabulary
    Admin,          \* "aithne:admin"
    Grant, Key,     \* ids of grants, and of machine_key credentials
    Proc,
    NoPrincipal, NoGrant, NoKey,
    Bootstrap,      \* granted_by of a bootstrap grant
    SessionTTL,     \* token.DefaultSessionTTL
    MaxRequest,     \* longest time a handler runs
    MaxTime         \* bound on the clock

Principal == Human \cup Agent

ASSUME TimingAssumption ==
    SessionTTL \in Nat \ {0} /\ MaxRequest \in Nat /\ MaxTime \in Nat

ASSUME NameAssumption ==
    /\ Human \cap Agent = {} /\ BootAdmin \in Human /\ Admin \in Scope
    /\ NoPrincipal \notin Principal /\ Bootstrap \notin Principal \cup {NoPrincipal}
    /\ NoGrant \notin Grant /\ NoKey \notin Key

VARIABLES
    now,
    principals, \* principals
    enrolled,   \* humans with a webauthn credential
    grants,     \* grants
    keys,       \* the machine_key rows of credentials
    tokens,     \* when the last token of a principal that has the scope expires; 0: none
    proc,       \* the requests in flight
    held,       \* history: when a principal last lost a scope; 0: never
    lastMint    \* history: when a machine key last gave a token

vars == <<now, principals, enrolled, grants, keys, tokens, proc, held, lastMint>>

Time == 0 .. MaxTime
GrantRow == [state : {"none", "active", "revoked"}, principal : Principal \cup {NoPrincipal},
             scope : Scope, granted_by : Principal \cup {NoPrincipal, Bootstrap},
             revoked_by : Principal \cup {NoPrincipal}]
KeyRow == [state : {"none", "active", "revoked"}, principal : Agent \cup {NoPrincipal},
           revoked_at : Time]
Local == [pc : {"idle", "admin", "newKey", "revokingGrant", "revokingKey", "authenticated",
                "scoped"},
          by : Principal \cup {NoPrincipal}, agent : Agent \cup {NoPrincipal},
          grant : Grant \cup {NoGrant},
          key : Key \cup {NoKey}, scopes : SUBSET Scope, since : Time]

TypeOK ==
    /\ now \in Time
    /\ principals \in SUBSET Principal
    /\ enrolled \in SUBSET Human
    /\ grants \in [Grant -> GrantRow]
    /\ keys \in [Key -> KeyRow]
    /\ tokens \in [Principal -> [Scope -> 0 .. MaxTime + SessionTTL]]
    /\ proc \in [Proc -> Local]
    /\ held \in [Principal -> [Scope -> Time]]
    /\ lastMint \in [Key -> Time]

Idle == [pc |-> "idle", by |-> NoPrincipal, agent |-> NoPrincipal, grant |-> NoGrant,
         key |-> NoKey, scopes |-> {}, since |-> 0]
Go(r, local) == proc' = [proc EXCEPT ![r] = local]

Active(g) == grants[g].state = "active"
Holds(p, sc) == \E g \in Grant : Active(g) /\ grants[g].principal = p /\ grants[g].scope = sc

----------------------------------------------------------------------------
(* requireAdminScope                                                       *)

\* ParseSession accepts a token of p that has the scope.
Bears(p, sc) == now < tokens[p][sc]

Authorise(r, p) ==
    /\ proc[r].pc = "idle"
    /\ Bears(p, Admin)
    /\ Go(r, [Idle EXCEPT !.pc = "admin", !.by = p, !.since = now])
    /\ UNCHANGED <<now, principals, enrolled, grants, keys, tokens, held, lastMint>>

----------------------------------------------------------------------------
(* POST /admin/grants, DELETE /admin/grants/{id}                           *)

\* Bug: there is no unique index of the active grants.
ConflictsNever(p, sc) == FALSE

\* The INSERT hits the partial unique index.
Conflicts(p, sc) == Holds(p, sc)

Inserted(g, p, sc, by) ==
    /\ grants[g].state = "none"
    /\ grants' = [grants EXCEPT ![g] =
                    [state |-> "active", principal |-> p, scope |-> sc, granted_by |-> by,
                     revoked_by |-> NoPrincipal]]

CreateGrant(r, p, sc) ==
    /\ proc[r].pc = "admin"
    /\ p \in principals
    /\ ~Conflicts(p, sc)
    /\ \E g \in Grant : Inserted(g, p, sc, proc[r].by)
    /\ Go(r, Idle)
    /\ UNCHANGED <<now, principals, enrolled, keys, tokens, held, lastMint>>

\* A refusal (unknown principal or scope, duplicate, already revoked), a
\* read-only request (list, check) or a failed INSERT ends the request.
AnswerOnly(r) ==
    /\ proc[r].pc \in {"admin", "newKey"}
    /\ Go(r, Idle)
    /\ UNCHANGED <<now, principals, enrolled, grants, keys, tokens, held, lastMint>>

\* The SELECT of RevokeGrant.
RevokeGrantRead(r, g) ==
    /\ proc[r].pc = "admin"
    /\ Active(g)
    /\ Go(r, [Idle EXCEPT !.pc = "revokingGrant", !.by = proc[r].by, !.grant = g,
                          !.since = proc[r].since])
    /\ UNCHANGED <<now, principals, enrolled, grants, keys, tokens, held, lastMint>>

\* Its UPDATE is by id alone: a row that another request has revoked since the
\* SELECT is written again.
RevokeGrantWrite(r) ==
    LET g == proc[r].grant IN
    /\ proc[r].pc = "revokingGrant"
    /\ grants' = [grants EXCEPT ![g] =
                    [state |-> "revoked", principal |-> grants[g].principal,
                     scope |-> grants[g].scope, granted_by |-> grants[g].granted_by,
                     revoked_by |-> proc[r].by]]
    /\ held' = IF Active(g)
                 THEN [held EXCEPT ![grants[g].principal][grants[g].scope] = now]
                 ELSE held
    /\ Go(r, Idle)
    /\ UNCHANGED <<now, principals, enrolled, keys, tokens, lastMint>>

----------------------------------------------------------------------------
(* POST /admin/machine-keys, DELETE /admin/machine-keys/{id}               *)

\* Find or create the agent's principal; it stays, also if the request goes
\* no further.
FindAgent(r, a) ==
    /\ proc[r].pc = "admin"
    /\ principals' = principals \cup {a}
    /\ Go(r, [Idle EXCEPT !.pc = "newKey", !.by = proc[r].by, !.agent = a,
                          !.since = proc[r].since])
    /\ UNCHANGED <<now, enrolled, grants, keys, tokens, held, lastMint>>

CreateMachineKey(r) ==
    /\ proc[r].pc = "newKey"
    /\ \E k \in Key :
          /\ keys[k].state = "none"
          /\ keys' = [keys EXCEPT ![k] = [state |-> "active", principal |-> proc[r].agent,
                                         revoked_at |-> 0]]
    /\ Go(r, Idle)
    /\ UNCHANGED <<now, principals, enrolled, grants, tokens, held, lastMint>>

\* RevokeCredential: SELECT, then UPDATE by id.
RevokeKeyRead(r, k) ==
    /\ proc[r].pc = "admin"
    /\ keys[k].state = "active"
    /\ Go(r, [Idle EXCEPT !.pc = "revokingKey", !.by = proc[r].by, !.key = k,
                          !.since = proc[r].since])
    /\ UNCHANGED <<now, principals, enrolled, grants, keys, tokens, held, lastMint>>

RevokeKeyWrite(r) ==
    /\ proc[r].pc = "revokingKey"
    /\ keys' = [keys EXCEPT ![proc[r].key] =
                  [state |-> "revoked", principal |-> keys[proc[r].key].principal,
                   revoked_at |-> now]]
    /\ Go(r, Idle)
    /\ UNCHANGED <<now, principals, enrolled, grants, tokens, held, lastMint>>

----------------------------------------------------------------------------
(* Minting: login and re-mint for humans, client_credentials for agents    *)

\* A passkey login or a re-mint (module Sessions) got as far as the scopes.
HumanAuthenticated(r, p) ==
    /\ proc[r].pc = "idle"
    /\ p \in enrolled
    /\ Go(r, [Idle EXCEPT !.pc = "authenticated", !.by = p, !.since = now])
    /\ UNCHANGED <<now, principals, enrolled, grants, keys, tokens, held, lastMint>>

\* Bug: revoked keys are not skipped.
AcceptsAny(k) == keys[k].state # "none"

\* The presented secret matches a key that is not revoked.
Accepts(k) == keys[k].state = "active"

ClientAuthenticated(r, k) ==
    /\ proc[r].pc = "idle"
    /\ Accepts(k)
    /\ Go(r, [Idle EXCEPT !.pc = "authenticated", !.by = keys[k].principal, !.key = k,
                          !.since = now])
    /\ UNCHANGED <<now, principals, enrolled, grants, keys, tokens, held, lastMint>>

\* Bug: revoked grants count.
GetActiveScopesAll(p) ==
    {sc \in Scope : \E g \in Grant :
        grants[g].state # "none" /\ grants[g].principal = p /\ grants[g].scope = sc}

GetActiveScopes(p) == {sc \in Scope : Holds(p, sc)}

\* A human's token has all scopes; an agent may ask for some, each of which
\* must be granted.
ReadScopes(r, wanted) ==
    /\ proc[r].pc = "authenticated"
    /\ wanted \subseteq GetActiveScopes(proc[r].by)
    /\ proc[r].key = NoKey \/ wanted = {} => wanted = GetActiveScopes(proc[r].by)
    /\ Go(r, [Idle EXCEPT !.pc = "scoped", !.by = proc[r].by, !.key = proc[r].key,
                          !.scopes = wanted, !.since = proc[r].since])
    /\ UNCHANGED <<now, principals, enrolled, grants, keys, tokens, held, lastMint>>

\* An agent asks for a scope it does not have, in the vocabulary or not:
\* invalid_scope.
RefuseScopes(r) ==
    /\ proc[r].pc = "authenticated"
    /\ proc[r].key # NoKey
    /\ Go(r, Idle)
    /\ UNCHANGED <<now, principals, enrolled, grants, keys, tokens, held, lastMint>>

\* Bug: the lifetime is given in the wrong unit.
ExpiryLong == now + 3 * SessionTTL

Expiry == now + SessionTTL

MintSession(r) ==
    LET l == proc[r] IN
    /\ l.pc = "scoped"
    /\ tokens' = [tokens EXCEPT ![l.by] =
                    [sc \in Scope |-> IF sc \in l.scopes THEN Expiry ELSE @[sc]]]
    /\ lastMint' = IF l.key = NoKey THEN lastMint ELSE [lastMint EXCEPT ![l.key] = now]
    /\ Go(r, Idle)
    /\ UNCHANGED <<now, principals, enrolled, grants, keys, held>>

----------------------------------------------------------------------------

\* bootstrapAdmin, when configured, for a contact without a passkey.
Seeds(configured) ==
    configured /\ BootAdmin \notin enrolled /\ ~Conflicts(BootAdmin, Admin)

\* A restart drops the requests and runs the bootstrap.
Restart(configured) ==
    /\ IF Seeds(configured)
         THEN \E g \in Grant : Inserted(g, BootAdmin, Admin, Bootstrap)
         ELSE UNCHANGED grants
    /\ principals' = IF configured THEN principals \cup {BootAdmin} ELSE principals
    /\ proc' = [r \in Proc |-> Idle]
    /\ UNCHANGED <<now, enrolled, keys, tokens, held, lastMint>>

\* Module Enrolment: creating an invite creates the contact's principal.
Invite(p) ==
    /\ principals' = principals \cup {p}
    /\ UNCHANGED <<now, enrolled, grants, keys, tokens, proc, held, lastMint>>

\* Module Enrolment: a passkey is stored; the row is never deleted afterwards
\* except to be replaced.
Enrol(p) ==
    /\ p \in principals
    /\ enrolled' = enrolled \cup {p}
    /\ UNCHANGED <<now, principals, grants, keys, tokens, proc, held, lastMint>>

Tick ==
    /\ now < MaxTime
    /\ \A r \in Proc : proc[r].pc # "idle" => now < proc[r].since + MaxRequest
    /\ now' = now + 1
    /\ UNCHANGED <<principals, enrolled, grants, keys, tokens, proc, held, lastMint>>

Init ==
    /\ now = 0
    /\ principals = {}
    /\ enrolled = {}
    /\ grants = [g \in Grant |-> [state |-> "none", principal |-> NoPrincipal, scope |-> Admin,
                                  granted_by |-> NoPrincipal, revoked_by |-> NoPrincipal]]
    /\ keys = [k \in Key |-> [state |-> "none", principal |-> NoPrincipal, revoked_at |-> 0]]
    /\ tokens = [p \in Principal |-> [sc \in Scope |-> 0]]
    /\ proc = [r \in Proc |-> Idle]
    /\ held = [p \in Principal |-> [sc \in Scope |-> 0]]
    /\ lastMint = [k \in Key |-> 0]

Handler(r) ==
    \/ \E p \in Principal : Authorise(r, p)
    \/ \E p \in Principal, sc \in Scope : CreateGrant(r, p, sc)
    \/ AnswerOnly(r)
    \/ \E g \in Grant : RevokeGrantRead(r, g)
    \/ RevokeGrantWrite(r)
    \/ \E a \in Agent : FindAgent(r, a)
    \/ CreateMachineKey(r)
    \/ \E k \in Key : RevokeKeyRead(r, k) \/ ClientAuthenticated(r, k)
    \/ RevokeKeyWrite(r)
    \/ \E p \in Human : HumanAuthenticated(r, p)
    \/ \E wanted \in SUBSET Scope : ReadScopes(r, wanted)
    \/ RefuseScopes(r)
    \/ MintSession(r)

Next ==
    \/ \E r \in Proc : Handler(r)
    \/ \E configured \in BOOLEAN : Restart(configured)
    \/ \E p \in Human : Invite(p) \/ Enrol(p)
    \/ Tick

Spec == Init /\ [][Next]_vars

----------------------------------------------------------------------------
(* Properties.                                                             *)

\* However creations race with each other, with revocations and with the
\* bootstrap of a restart, at most one grant of a scope to a principal is
\* active: one revocation takes the scope away.
OneActiveGrant ==
    \A g, h \in Grant :
        /\ Active(g) /\ Active(h)
        /\ grants[g].principal = grants[h].principal /\ grants[g].scope = grants[h].scope
        => g = h

\* The last moment up to now at which p held sc.
HeldUntil(p, sc) == IF Holds(p, sc) THEN now ELSE held[p][sc]

\* Revocation is eventually effective: a token has a scope that its principal
\* no longer holds only until a token lifetime, and the request in flight,
\* after the revocation.
TokensOutliveGrantsByTTL ==
    \A p \in Principal, sc \in Scope :
        tokens[p][sc] <= HeldUntil(p, sc) + MaxRequest + SessionTTL

\* p held aithne:admin within a token lifetime and two requests.
RecentAdmin(p) == now <= HeldUntil(p, Admin) + SessionTTL + 2 * MaxRequest

\* Nobody administers on the strength of a grant lost longer ago than that:
\* a grant is made and revoked by a recent administrator, or made by the
\* bootstrap of an administrator who has no passkey.
AdminPowerExpires ==
    [][\A g \in Grant :
          /\ grants[g].state = "none" /\ grants'[g].state = "active" =>
               \/ grants'[g].granted_by = Bootstrap /\ BootAdmin \notin enrolled
               \/ grants'[g].granted_by \in Principal /\ RecentAdmin(grants'[g].granted_by)
          /\ Active(g) /\ grants'[g].state = "revoked" =>
               RecentAdmin(grants'[g].revoked_by)]_vars

\* A revoked machine key gives no token, except to a request that had already
\* been authenticated.
RevokedKeyStopsTokens ==
    \A k \in Key :
        keys[k].state = "revoked" => lastMint[k] <= keys[k].revoked_at + MaxRequest

============================================================================
