------------------------------ MODULE UserInfo ------------------------------
(***************************************************************************)
(* What a relying party learns about a person: the claims of the ID token, *)
(* and those of /oauth2/userinfo, which sees only an access token and has  *)
(* to decide from it what was asked for at /oauth2/authorize.  Name and    *)
(* address come from lucos_contacts, another service, which may be down,   *)
(* not know the person, or change its mind between two questions.          *)
(*                                                                         *)
(* Codes, their expiry and the grants are in module AuthCodes; keys and    *)
(* the life of tokens in SigningKeys.                                      *)
(***************************************************************************)
EXTENDS Naturals

CONSTANTS
    Client,         \* client ids of relying parties
    Request,        \* concurrent token requests
    None,
    MaxExchanges    \* bound on the codes exchanged

VARIABLES
    contact,        \* the person's record in lucos_contacts
    up,             \* lucos_contacts answers
    exchange,       \* the token requests in flight
    tokens,         \* the tokens handed out
    told,           \* history: the last answer, and the request it goes back to
    exchanges

infoVars == <<contact, up, exchange, tokens, told, exchanges>>

OIDCScope == {"openid", "profile", "email"}     \* oidcScopes
Scope == OIDCScope \cup {"app:read"}            \* and a scope of the grant store
Audience == "l42.eu"

ASSUME ClientAssumption ==
    Audience \notin Client /\ None \notin Client /\ MaxExchanges \in Nat

\* asked is history: the scope of the authorization request, or {}.
Token == [kind : {"session", "id"}, aud : Client \cup {Audience}, class : {"human", "agent"},
          oidc_scopes : SUBSET OIDCScope, asked : SUBSET Scope]
Claims == [via : {"session", "id"}, asked : SUBSET Scope, name : BOOLEAN, email : BOOLEAN]

InfoTypeOK ==
    /\ contact \in [exists : BOOLEAN, primary_email : BOOLEAN]
    /\ up \in BOOLEAN
    /\ exchange \in [Request -> [pc : {"idle", "consumed", "looked up"},
                                 client : Client \cup {None}, scope : SUBSET Scope,
                                 email : BOOLEAN]]
    /\ tokens \subseteq Token
    /\ told \in Claims
    /\ exchanges \in 0 .. MaxExchanges

NoExchange == [pc |-> "idle", client |-> None, scope |-> {}, email |-> FALSE]

----------------------------------------------------------------------------
(* contactsClient.Get.  A name is always found: the id stands in for it.   *)

Found == up /\ contact.exists
PrimaryEmail == Found /\ contact.primary_email

----------------------------------------------------------------------------
(* POST /oauth2/token                                                      *)

\* The code is consumed; what is left of it is the client and the scope.
Consumed(r, cl, sc) ==
    /\ exchange[r].pc = "idle" /\ exchanges < MaxExchanges
    /\ "openid" \in sc
    /\ exchanges' = exchanges + 1
    /\ exchange' = [exchange EXCEPT ![r] =
                      [pc |-> "consumed", client |-> cl, scope |-> sc, email |-> FALSE]]
    /\ UNCHANGED <<contact, up, tokens, told>>

\* Bug: all the OIDC scopes the server supports.
SupportedScopes(scope) == OIDCScope

requestedOIDCScopes(scope) == scope \cap OIDCScope

EmailClaim(requested) == "email" \in requested /\ PrimaryEmail

\* Bug: an error of lucos_contacts is an error of the exchange.
AfterLookupStrict(r) ==
    IF "email" \in exchange[r].scope /\ ~Found THEN NoExchange
    ELSE [exchange[r] EXCEPT !.pc = "looked up",
                             !.email = EmailClaim(requestedOIDCScopes(exchange[r].scope))]

\* Best effort: whatever the service says, the exchange goes on.
AfterLookup(r) ==
    [exchange[r] EXCEPT !.pc = "looked up",
                        !.email = EmailClaim(requestedOIDCScopes(exchange[r].scope))]

Lookup(r) ==
    /\ exchange[r].pc = "consumed"
    /\ exchange' = [exchange EXCEPT ![r] = AfterLookup(r)]
    /\ UNCHANGED <<contact, up, tokens, told, exchanges>>

AccessToken(r) ==
    [kind |-> "session", aud |-> Audience, class |-> "human",
     oidc_scopes |-> requestedOIDCScopes(exchange[r].scope), asked |-> exchange[r].scope]

IDToken(r) ==
    [kind |-> "id", aud |-> exchange[r].client, class |-> "human",
     oidc_scopes |-> {}, asked |-> exchange[r].scope]

\* MintSession, MintIDToken and the response.
Mint(r) ==
    /\ exchange[r].pc = "looked up"
    /\ tokens' = tokens \cup {AccessToken(r), IDToken(r)}
    /\ told' = [via |-> "session", asked |-> exchange[r].scope, name |-> FALSE,
                email |-> exchange[r].email]
    /\ exchange' = [exchange EXCEPT ![r] = NoExchange]
    /\ UNCHANGED <<contact, up, exchanges>>

\* A session by passkey or re-mint, or an agent's: no OIDC request behind it.
MintElsewhere(class) ==
    /\ tokens' = tokens \cup {[kind |-> "session", aud |-> Audience, class |-> class,
                               oidc_scopes |-> {}, asked |-> {}]}
    /\ UNCHANGED <<contact, up, exchange, told, exchanges>>

----------------------------------------------------------------------------
(* GET /oauth2/userinfo                                                    *)

\* ParseSession, for a token of this issuer that has not expired.
Parses(t) == t.aud = Audience

Userinfo(t) ==
    /\ Parses(t)
    /\ told' = [via |-> t.kind, asked |-> t.asked,
                name |-> t.class = "human" /\ Found /\ "profile" \in t.oidc_scopes,
                email |-> t.class = "human" /\ EmailClaim(t.oidc_scopes)]
    /\ UNCHANGED <<contact, up, exchange, tokens, exchanges>>

----------------------------------------------------------------------------

\* lucos_contacts goes down or comes back; the person is edited there.
ContactsChange ==
    /\ \/ up' = ~up /\ UNCHANGED contact
       \/ contact' \in [exists : BOOLEAN, primary_email : BOOLEAN] /\ UNCHANGED up
    /\ UNCHANGED <<exchange, tokens, told, exchanges>>

InfoInit ==
    /\ contact \in [exists : BOOLEAN, primary_email : BOOLEAN]
    /\ up \in BOOLEAN
    /\ exchange = [r \in Request |-> NoExchange]
    /\ tokens = {} /\ exchanges = 0
    /\ told = [via |-> "session", asked |-> {}, name |-> FALSE, email |-> FALSE]

InfoNext ==
    \/ \E r \in Request :
          \/ \E cl \in Client, sc \in SUBSET Scope : Consumed(r, cl, sc)
          \/ Lookup(r) \/ Mint(r)
    \/ \E class \in {"human", "agent"} : MintElsewhere(class)
    \/ \E t \in tokens : Userinfo(t)
    \/ ContactsChange

\* A handler runs on; of lucos_contacts nothing is assumed (the client's
\* timeout turns silence into an error).
InfoSpec ==
    /\ InfoInit /\ [][InfoNext]_infoVars
    /\ \A r \in Request : WF_infoVars(Lookup(r)) /\ WF_infoVars(Mint(r))

----------------------------------------------------------------------------
(* Properties.                                                             *)

\* Nobody is told a name or an address that the authorization request behind
\* the token did not ask for, by the ID token or later by userinfo, although
\* userinfo never sees that request; a session of another flow tells none, and
\* an ID token, which a relying party may show around, is not taken for a session
\* although the same key signs both.
ToldAsAsked ==
    /\ told.name => "profile" \in told.asked
    /\ told.email => "email" \in told.asked
    /\ told.via = "session"

\* "A contacts outage must not fail the token exchange": the code has been
\* spent, so every exchange that got that far ends with both tokens handed out.
ExchangeSurvivesOutage ==
    \A r \in Request, cl \in Client, sc \in SUBSET Scope :
        (exchange[r].pc = "consumed" /\ exchange[r].client = cl /\ exchange[r].scope = sc)
            ~> (\E s, i \in tokens : /\ s.kind = "session" /\ s.asked = sc
                                     /\ i.kind = "id" /\ i.aud = cl /\ i.asked = sc)

============================================================================
