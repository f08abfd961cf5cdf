----------------------------- MODULE AuthCodes -----------------------------
(***************************************************************************)
(* The OIDC authorization-code flow: /oauth2/authorize issues a code, and  *)
(* any number of concurrent /oauth2/token requests try to exchange it.     *)
(*                                                                         *)
(* An exchange is four database calls that other requests may fall         *)
(* between: the read-only validation (client row and code row), the        *)
(* transaction that consumes the code, the read of the principal's active  *)
(* scopes, and the answer.  A request that is refused ends without having  *)
(* changed anything, so a refusal is a step the request does not take.     *)
(***************************************************************************)
EXTENDS Integers, FiniteSets

CONSTANTS
    Code,         \* raw codes; an id is generated at most once
    Client,       \* registered OIDC clients
    Secret,       \* client secrets (compared by their SHA-256)
    URI,          \* redirect URIs
    Principal,
    Scope,        \* aithne authorisation scopes (scopes.yaml)
    OIDCScope,    \* openid, profile, email
    Request,      \* concurrent POST /oauth2/token requests
    CodeTTL,      \* authCodeTTL
    SessionTTL,   \* token.DefaultSessionTTL
    MaxTime       \* bound on the clock

ASSUME TimingAssumption ==
    CodeTTL \in Nat /\ SessionTTL \in Nat /\ MaxTime \in Nat

\* OIDC-protocol scopes are never in the grant vocabulary.
ASSUME ScopeAssumption == Scope \cap OIDCScope = {}

ASSUME NonEmptyAssumption ==
    Code # {} /\ Client # {} /\ Secret # {} /\ URI # {} /\ Principal # {}

VARIABLES
    now,
    clients,      \* oidc_clients: secret and registered redirect URIs
    session,      \* when each principal's aithne_session cookie expires
    grants,       \* each principal's active scopes in this environment
    codes,        \* oidc_auth_codes
    req,          \* the token requests in flight
    tokens,       \* tokens handed out
    answered      \* how many token responses each code has produced

vars == <<now, clients, session, grants, codes, req, tokens, answered>>

Time == 0 .. MaxTime
Deadline == 0 .. MaxTime + CodeTTL + SessionTTL
ClientRow == [secret : Secret, uris : SUBSET URI]
CodeRow == [state : {"none", "unused", "used"}, client : Client,
            principal : Principal, uri : URI, scope : SUBSET (Scope \cup OIDCScope),
            expires_at : Deadline, used_at : Time]
Local == [pc : {"idle", "validated", "consumed", "scoped"}, code : Code,
          client : Client, scopes : SUBSET Scope]
Token == [code : Code, client : Client, principal : Principal, scopes : SUBSET Scope]

TypeOK ==
    /\ now \in Time
    /\ clients \in [Client -> ClientRow]
    /\ session \in [Principal -> Deadline]
    /\ grants \in [Principal -> SUBSET Scope]
    /\ codes \in [Code -> CodeRow]
    /\ req \in [Request -> Local]
    /\ tokens \in SUBSET Token
    /\ answered \in [Code -> Nat]

Idle == [pc |-> "idle", code |-> CHOOSE c \in Code : TRUE,
         client |-> CHOOSE cl \in Client : TRUE, scopes |-> {}]

\* A request of client cl that has validated code c.
Validated(c, cl) == [pc |-> "validated", code |-> c, client |-> cl, scopes |-> {}]

----------------------------------------------------------------------------
(* GET /oauth2/authorize                                                   *)

\* handleAuthorize: the redirect URI must be one of the client's, the scope
\* must name openid, and the session cookie must verify.  The code row is the
\* only write.
Authorize(c, cl, p, u, sc) ==
    /\ codes[c].state = "none"
    /\ u \in clients[cl].uris
    /\ "openid" \in sc
    /\ now < session[p]
    /\ codes' = [codes EXCEPT ![c] =
                   [state |-> "unused", client |-> cl, principal |-> p, uri |-> u,
                    scope |-> sc, expires_at |-> now + CodeTTL, used_at |-> 0]]
    /\ UNCHANGED <<now, clients, session, grants, req, tokens, answered>>

----------------------------------------------------------------------------
(* POST /oauth2/token, grant_type=authorization_code                       *)

\* Bugs: a used code, or an expired one, passes.
RedeemableTwice(c) == codes[c].state # "none" /\ now <= codes[c].expires_at
RedeemableLate(c) == codes[c].state = "unused"

\* GetOIDCAuthCode and the first half of ConsumeOIDCAuthCode: known, not used,
\* not past its expiry.
Redeemable(c) == codes[c].state = "unused" /\ now <= codes[c].expires_at

\* A bug: the code is consumed before client_id and redirect_uri are compared.
ValidateConsumesFirst(r, c, cl, s, u) ==
    /\ req[r].pc = "idle"
    /\ s = clients[cl].secret
    /\ Redeemable(c)
    /\ IF codes[c].client = cl /\ codes[c].uri = u
         THEN /\ req' = [req EXCEPT ![r] = Validated(c, cl)]
              /\ UNCHANGED codes
         ELSE /\ codes' = [codes EXCEPT ![c].state = "used", ![c].used_at = now]
              /\ UNCHANGED req
    /\ UNCHANGED <<now, clients, session, grants, tokens, answered>>

\* A bug: the code's client_id is not compared with the authenticated client.
ValidateAnyClient(r, c, cl, s, u) ==
    /\ req[r].pc = "idle"
    /\ s = clients[cl].secret
    /\ Redeemable(c)
    /\ codes[c].uri = u
    /\ req' = [req EXCEPT ![r] = Validated(c, cl)]
    /\ UNCHANGED <<now, clients, session, grants, codes, tokens, answered>>

\* handleAuthCodeGrant up to the redirect_uri comparison: nothing is written.
Validate(r, c, cl, s, u) ==
    /\ req[r].pc = "idle"
    /\ s = clients[cl].secret
    /\ Redeemable(c)
    /\ codes[c].client = cl
    /\ codes[c].uri = u
    /\ req' = [req EXCEPT ![r] = Validated(c, cl)]
    /\ UNCHANGED <<now, clients, session, grants, codes, tokens, answered>>

\* ConsumeOIDCAuthCode: one transaction re-checks the code and marks it used.
Consume(r) ==
    LET c == req[r].code IN
    /\ req[r].pc = "validated"
    /\ IF Redeemable(c)
         THEN /\ codes' = [codes EXCEPT ![c].state = "used", ![c].used_at = now]
              /\ req' = [req EXCEPT ![r].pc = "consumed"]
         ELSE /\ req' = [req EXCEPT ![r] = Idle]
              /\ UNCHANGED codes
    /\ UNCHANGED <<now, clients, session, grants, tokens, answered>>

\* effectiveScopes: the active scopes of the principal the client asked for.
EffectiveScopes(c) == grants[codes[c].principal] \cap codes[c].scope

\* GetActiveScopes, after the code has been consumed.
NarrowScopes(r) ==
    /\ req[r].pc = "consumed"
    /\ req' = [req EXCEPT ![r].pc = "scoped",
                          ![r].scopes = EffectiveScopes(req[r].code)]
    /\ UNCHANGED <<now, clients, session, grants, codes, tokens, answered>>

\* The access token and the ID token are minted and sent: the audience is the
\* client the request authenticated as, the principal is the code row's.
Answer(r) ==
    LET c == req[r].code IN
    /\ req[r].pc = "scoped"
    /\ tokens' = tokens \cup {[code |-> c, client |-> req[r].client,
                               principal |-> codes[c].principal, scopes |-> req[r].scopes]}
    /\ answered' = [answered EXCEPT ![c] = @ + 1]
    /\ req' = [req EXCEPT ![r] = Idle]
    /\ UNCHANGED <<now, clients, session, grants, codes>>

----------------------------------------------------------------------------
(* The environment.                                                        *)

\* A log-in, or a silent re-mint, renews the session cookie.
Login(p) ==
    /\ session' = [session EXCEPT ![p] = now + SessionTTL]
    /\ UNCHANGED <<now, clients, grants, codes, req, tokens, answered>>

ChangeGrant(p, s) ==
    /\ grants' = [grants EXCEPT ![p] = IF s \in @ THEN @ \ {s} ELSE @ \cup {s}]
    /\ UNCHANGED <<now, clients, session, codes, req, tokens, answered>>

\* A deploy: requests in flight are lost, and reconcileOIDCClients upserts a
\* client whose manifest entry or CLIENT_KEYS secret has changed.
Restart(cl, s, U) ==
    /\ req' = [r \in Request |-> Idle]
    /\ clients' = [clients EXCEPT ![cl] = [secret |-> s, uris |-> U]]
    /\ UNCHANGED <<now, session, grants, codes, tokens, answered>>

Tick ==
    /\ now < MaxTime
    /\ now' = now + 1
    /\ UNCHANGED <<clients, session, grants, codes, req, tokens, answered>>

----------------------------------------------------------------------------

Init ==
    /\ now = 0
    /\ clients \in [Client -> ClientRow]
    /\ session = [p \in Principal |-> 0]
    /\ grants = [p \in Principal |-> {}]
    /\ codes = [c \in Code |->
                  [state |-> "none", client |-> CHOOSE x \in Client : TRUE,
                   principal |-> CHOOSE x \in Principal : TRUE,
                   uri |-> CHOOSE x \in URI : TRUE, scope |-> {},
                   expires_at |-> 0, used_at |-> 0]]
    /\ req = [r \in Request |-> Idle]
    /\ tokens = {}
    /\ answered = [c \in Code |-> 0]

Exchange(r) ==
    \/ \E c \in Code, cl \in Client, s \in Secret, u \in URI : Validate(r, c, cl, s, u)
    \/ Consume(r)
    \/ NarrowScopes(r)
    \/ Answer(r)

Next ==
    \/ \E c \in Code, cl \in Client, p \in Principal, u \in URI,
          sc \in SUBSET (Scope \cup OIDCScope) : Authorize(c, cl, p, u, sc)
    \/ \E r \in Request : Exchange(r)
    \/ \E p \in Principal : Login(p)
    \/ \E p \in Principal, s \in Scope : ChangeGrant(p, s)
    \/ \E cl \in Client, s \in Secret, U \in SUBSET URI : Restart(cl, s, U)
    \/ Tick

Spec == Init /\ [][Next]_vars

----------------------------------------------------------------------------
(* Properties.                                                             *)

\* However many requests present one code at once, and whatever they have read
\* before the code was consumed, it produces at most one token response
\* (ConsumeOIDCAuthCode's guarded UPDATE).
SingleUse == \A c \in Code : answered[c] <= 1

\* A code validated just before its expiry is not consumed after it: the
\* transaction re-checks what GetOIDCAuthCode checked earlier.
ConsumedInTime ==
    \A c \in Code : codes[c].state = "used" => codes[c].used_at <= codes[c].expires_at

\* The client a token is minted for, which is the one that authenticated at
\* /oauth2/token, is the one whose user agreed at /oauth2/authorize, however many
\* clients present the code at once, and the token carries no scope that client
\* did not ask for (the client_id comparison and effectiveScopes, oidc.go).
TokenMatchesCode ==
    \A t \in tokens : /\ t.client = codes[t.code].client
                       /\ t.scopes \subseteq codes[t.code].scope

\* "Validation failures must NOT consume the code" (oidc.go): a code becomes
\* used only in the transaction of a request that had validated it, so a
\* mismatching request leaves the legitimate holder free to retry.
OnlyValidatedConsumes ==
    [][\A c \in Code :
          codes[c].state = "unused" /\ codes'[c].state = "used" =>
             \E r \in Request : /\ req[r].pc = "validated" /\ req[r].code = c
                                /\ req'[r].pc = "consumed"]_vars

\* The stage a code has reached, as the abstract specification sees it; a
\* second response has no place there.
Stage(c) ==
    CASE codes[c].state = "none" -> "absent"
      [] codes[c].state = "unused" /\ now <= codes[c].expires_at -> "live"
      [] codes[c].state = "unused" /\ now > codes[c].expires_at -> "expired"
      [] codes[c].state = "used" /\ answered[c] = 0 -> "spent"
      [] codes[c].state = "used" /\ answered[c] = 1 -> "answered"
      [] OTHER -> "answered again"

Abstract == INSTANCE OneTimeCode WITH stage <- [c \in Code |-> Stage(c)]

\* The flow implements the one-time code: issued once, redeemed while live by
\* one request, answered at most once, through every interleaving and restart.
ImplementsOneTimeCode == Abstract!Spec

============================================================================
