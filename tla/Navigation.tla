----------------------------- MODULE Navigation -----------------------------
(***************************************************************************)
(* What a browser does with aithne: it asks for a page, is sent to the     *)
(* login page and back, keeps its session fresh with silent re-mints, and  *)
(* logs out.  The server's part is the redirect allow-list, the CORS       *)
(* allow-list of /auth/remint, and the attributes of the two cookies; the  *)
(* browser's part (which cookies it accepts and sends, how it reads a      *)
(* query string) and the other applications of the estate are external.    *)
(*                                                                         *)
(* One tab is followed.  A re-mint is a call from a page: it goes on when  *)
(* the tab moves on, so that calls of other tabs are covered, and the      *)
(* cookie it brings may arrive after a login or a logout.                  *)
(*                                                                         *)
(* A URL is kept in parts.  Of its path only what the code looks at is     *)
(* kept, of its query only the number of parameters.                       *)
(***************************************************************************)
EXTENDS Integers, FiniteSets

CONSTANTS
    User,
    Goal,           \* the pages of the estate a user may want, by environment
    Link,           \* the values of next in login links found anywhere
    Call,           \* the re-mints that may be on their way together
    MaxExpiries     \* bound on how often a session token expires

VARIABLES
    environment,    \* ENVIRONMENT
    cookies,        \* the browser's cookie jar
    fresh,          \* the token in the session cookie still verifies
    admin,          \* the users who hold aithne:admin
    goal,           \* the page the user wants, or NoURL
    at,             \* what the browser shows, or is asking for
    alive,          \* the users whose IdP session and passkey are still good
    remints,        \* the re-mints on their way
    loggedIn,       \* history: who has logged in since the last logout
    brought,        \* history: whose session a re-mint sent before the last
                    \* logout has brought back since
    expiries

vars == <<environment, cookies, fresh, admin, goal, at, alive, remints, loggedIn, brought,
          expiries>>
session == <<environment, admin, alive, remints, loggedIn, brought, expiries>>

\* As url.Parse has them; "misread" is the host that a browser finds in a URL
\* where url.Parse finds none.  A path "/\\" goes on after the backslash.
Host == {"", "aithne", "app", "apex", "lookalike", "localhost", "elsewhere", "misread"}
Path == {"", "/", "/admin", "/oauth2/authorize", "/app", "relative", "//", "\\", "/\\"}
URL == [scheme : {"", "http", "https", "other"}, host : Host, port : BOOLEAN,
        path : Path, query : 0 .. 2]
NoURL == [scheme |-> "", host |-> "", port |-> FALSE, path |-> "", query |-> 0]
Cookie == [name : {"aithne_session", "aithne_idp_session"}, domain : {"", "l42.eu"},
           path : {"/", "/auth/remint"}, secure : BOOLEAN, user : User]
Remint == [call : Call, user : User, minted : BOOLEAN, late : BOOLEAN]
Place == [kind : {"blank", "asking", "login", "shown", "denied"}, url : URL]

ASSUME GoalAssumption ==
    /\ Goal \in [{"development", "production"} -> SUBSET URL]
    /\ \A u \in Goal["production"] : u.host \in {"aithne", "app", "apex"}
    /\ \A u \in Goal["development"] : u.host \in {"aithne", "app", "apex", "localhost"}
    /\ Link \subseteq URL
    /\ MaxExpiries \in Nat

TypeOK ==
    /\ environment \in {"development", "production"}
    /\ cookies \subseteq Cookie
    /\ fresh \in BOOLEAN
    /\ admin \subseteq User
    /\ goal \in URL
    /\ at \in Place
    /\ alive \subseteq User
    /\ remints \subseteq Remint
    /\ loggedIn \subseteq User /\ brought \subseteq User
    /\ expiries \in 0 .. MaxExpiries

\* APP_ORIGIN with a path.
Own(path, query) ==
    IF environment = "development"
      THEN [scheme |-> "http", host |-> "localhost", port |-> TRUE, path |-> path, query |-> query]
      ELSE [scheme |-> "https", host |-> "aithne", port |-> FALSE, path |-> path, query |-> query]
IsOwn(u) == u = Own(u.path, u.query) /\ u.path # "/app"
Estate == {"aithne", "app", "apex"}

----------------------------------------------------------------------------
(* The two allow-lists                                                     *)

\* isDevLocalhostURL; the hosts localhost and 127.0.0.1 are not told apart.
IsDevLocalhost(u) == u.scheme = "http" /\ u.host = "localhost"

\* Bug: the dot before the suffix is forgotten.
InDomainSuffix(host) == host \in Estate \cup {"lookalike"}

\* "l42.eu" itself or a name that ends in ".l42.eu".
InDomain(host) == host \in Estate

\* isAllowedRedirect, test by test.
AllowedRedirect(u) ==
    /\ u # NoURL
    /\ ~(u.scheme = "" /\ u.host # "")
    /\ IF u.host = "" THEN u.path \notin {"", "//", "\\"}
       ELSE /\ u.scheme \in {"http", "https"}
            /\ \/ environment = "development" /\ IsDevLocalhost(u)
               \/ InDomain(u.host)

\* Bug: only aithne's own origin may re-mint.
AllowedOriginOwn(u) == IsOwn(u)

\* setCORSHeaders for a page at u: aithne's own origin, a sub-domain over
\* https without a port, or in development localhost with one.  A preflight
\* gives the same answer for other origins, and aithne's own has none.
AllowedOrigin(u) ==
    \/ IsOwn(u)
    \/ u.scheme = "https" /\ u.host \in {"aithne", "app"} /\ ~u.port
    \/ environment = "development" /\ IsDevLocalhost(u) /\ u.port

----------------------------------------------------------------------------
(* Cookies                                                                 *)

cookieDomain == IF environment = "development" THEN "" ELSE "l42.eu"

\* Bug: the cookie is Secure everywhere.
SecureAlways == TRUE

Secure == environment # "development"

SessionCookie(p) == [name |-> "aithne_session", domain |-> cookieDomain, path |-> "/",
                     secure |-> Secure, user |-> p]
IDPSessionCookie(p) == [name |-> "aithne_idp_session", domain |-> cookieDomain,
                        path |-> "/auth/remint", secure |-> Secure, user |-> p]

Identity(k) == <<k.name, k.domain, k.path>>

\* Bug: the path of the long-lived cookie is forgotten when it is cleared.
ClearedAtRoot ==
    {<<"aithne_session", cookieDomain, "/">>, <<"aithne_idp_session", cookieDomain, "/">>}

\* ClearSessionCookie and ClearIDPSessionCookie: which cookies they hit.
Cleared ==
    {<<"aithne_session", cookieDomain, "/">>,
     <<"aithne_idp_session", cookieDomain, "/auth/remint">>}

\* External: a browser takes a cookie for its own host, or for a domain that
\* covers it, and a Secure one only over https.
Accepts(k) ==
    /\ k.domain # "" => Own("/", 0).host \in Estate
    /\ k.secure => Own("/", 0).scheme = "https"

\* External: cookies replace those of the same name, domain and path.
With(new) ==
    LET taken == {k \in new : Accepts(k)} IN
    {k \in cookies : \A n \in taken : Identity(k) # Identity(n)} \cup taken

\* External: the session cookie is sent with a request for u; ports do not
\* matter to cookies.
SessionSent(u) ==
    \E k \in cookies :
        /\ k.name = "aithne_session"
        /\ IF k.domain = "" THEN u.host = Own("/", 0).host ELSE u.host \in Estate
        /\ k.secure => u.scheme = "https"

\* External: the users whose long-lived cookie is sent to /auth/remint.
SentToRemint == {k.user : k \in {c \in cookies : c.name = "aithne_idp_session"}}

\* External: in a URL without a host a browser takes what follows a slash and a
\* backslash for one, and what follows a scheme other than the page's own.
Misread(u) ==
    /\ u.host = ""
    /\ \/ u.path = "/\\" /\ u.scheme # "other"
       \/ u.scheme \in {"http", "https"} \ {Own("/", 0).scheme}

\* External: what the browser is asked for next, when told to go to u.
Resolved(u) ==
    CASE Misread(u) -> [u EXCEPT !.host = "misread"]
      [] u.host = "" /\ u.scheme # "other" /\ ~Misread(u) -> Own(u.path, u.query)
      [] OTHER -> u

----------------------------------------------------------------------------
(* The browser asks for a page                                             *)

Idle == at.kind \in {"blank", "shown", "denied"}

Ask(u) ==
    /\ Idle
    /\ goal' = u
    /\ at' = [kind |-> "asking", url |-> u]
    /\ UNCHANGED <<session, cookies, fresh>>

\* Somebody opens a link to the login page.
FollowLink(next) ==
    /\ Idle
    /\ goal' = NoURL
    /\ at' = [kind |-> "login", url |-> next]
    /\ UNCHANGED <<session, cookies, fresh>>

Show(kind) == at' = [kind |-> kind, url |-> at.url]
Login(next) == at' = [kind |-> "login", url |-> next]

RequestURI(u) == [scheme |-> "", host |-> "", port |-> FALSE, path |-> u.path, query |-> u.query]
\* Not escaped: what follows the first "&" is not part of next.
UpToAmpersand(u) == [u EXCEPT !.query = IF @ > 1 THEN 1 ELSE @]

\* requireAdminScopeFromCookie
GetAdmin ==
    /\ at.kind = "asking" /\ IsOwn(at.url) /\ at.url.path = "/admin"
    /\ IF ~(fresh /\ SessionSent(at.url)) THEN Login(UpToAmpersand(RequestURI(at.url)))
       ELSE \E k \in cookies :
              /\ k.name = "aithne_session"
              /\ Show(IF k.user \in admin THEN "shown" ELSE "denied")
    /\ UNCHANGED <<session, cookies, fresh, goal>>

\* handleAuthorize: with a session the browser goes on to the relying party,
\* which counts as shown.
GetAuthorize ==
    /\ at.kind = "asking" /\ IsOwn(at.url) /\ at.url.path = "/oauth2/authorize"
    /\ IF fresh /\ SessionSent(at.url) THEN Show("shown") ELSE Login(RequestURI(at.url))
    /\ UNCHANGED <<session, cookies, fresh, goal>>

\* External: an application of the estate verifies the cookie, or sends the
\* browser to log in and come back to the full URL.
GetApp ==
    /\ at.kind = "asking" /\ at.url.path = "/app"
    /\ IF fresh /\ SessionSent(at.url) THEN Show("shown") ELSE Login(at.url)
    /\ UNCHANGED <<session, cookies, fresh, goal>>

\* handleHomePage and everything else that needs no session.
GetPublic ==
    /\ at.kind = "asking" /\ at.url.path # "/app"
    /\ ~(IsOwn(at.url) /\ at.url.path \in {"/admin", "/oauth2/authorize"})
    /\ Show("shown")
    /\ UNCHANGED <<session, cookies, fresh, goal>>

----------------------------------------------------------------------------
(* Login, re-mint, logout                                                  *)

\* The end of handleLoginFinish.  The IdP session is optional: if it cannot be
\* created, only the session cookie is set.
LoginFinish(p, opened) ==
    /\ at.kind = "login"
    /\ cookies' = With({SessionCookie(p)} \cup IF opened THEN {IDPSessionCookie(p)} ELSE {})
    /\ fresh' = TRUE
    /\ alive' = IF opened THEN alive \cup {p} ELSE alive
    /\ at' = [kind |-> "asking",
              url |-> IF AllowedRedirect(at.url) THEN Resolved(at.url) ELSE Own("/", 0)]
    /\ loggedIn' = loggedIn \cup {p}
    /\ UNCHANGED <<environment, admin, goal, remints, brought, expiries>>

\* The navigation bar of the page that is shown calls /auth/remint, with the
\* cookie that the browser has now.
SendReMint(c) ==
    /\ at.kind = "shown" /\ AllowedOrigin(at.url)
    /\ \A m \in remints : m.call # c
    /\ \E p \in SentToRemint :
          remints' = remints \cup {[call |-> c, user |-> p, minted |-> FALSE, late |-> FALSE]}
    /\ UNCHANGED <<environment, cookies, fresh, admin, goal, at, alive, loggedIn, brought, expiries>>

\* handleReMint: 401 if the session is revoked or expired or no passkey is left.
HandleReMint(m) ==
    /\ ~m.minted
    /\ remints' = (remints \ {m}) \cup
                    IF m.user \in alive THEN {[m EXCEPT !.minted = TRUE]} ELSE {}
    /\ UNCHANGED <<environment, cookies, fresh, admin, goal, at, alive, loggedIn, brought, expiries>>

\* Its answer arrives.
ReMinted(m) ==
    /\ m.minted
    /\ remints' = remints \ {m}
    /\ cookies' = With({SessionCookie(m.user)})
    /\ fresh' = TRUE
    /\ brought' = IF m.late THEN brought \cup {m.user} ELSE brought
    /\ UNCHANGED <<environment, admin, goal, at, alive, loggedIn, expiries>>

\* The answer never arrives.  To the browser an error of the database is the
\* same: there is no cookie, and another call will follow.
LoseReMint(m) ==
    /\ m.minted
    /\ remints' = remints \ {m}
    /\ UNCHANGED <<environment, cookies, fresh, admin, goal, at, alive, loggedIn, brought, expiries>>

\* On the server a session is revoked or reaches its cap, or the passkeys of its
\* user are revoked, or there is one again: see module Sessions.
OnServer(p) ==
    /\ alive' = IF p \in alive THEN alive \ {p} ELSE alive \cup {p}
    /\ UNCHANGED <<environment, cookies, fresh, admin, goal, at, remints, loggedIn, brought, expiries>>

\* handleLogout, from a page of aithne (its Origin check); see module Sessions
\* for the row on the server, which stays.
Logout ==
    /\ at.kind = "shown" /\ IsOwn(at.url)
    /\ cookies' = {k \in cookies : Identity(k) \notin Cleared}
    /\ at' = [kind |-> "asking", url |-> Own("/", 0)]
    /\ goal' = NoURL
    /\ remints' = {[m EXCEPT !.late = TRUE] : m \in remints}
    /\ loggedIn' = {} /\ brought' = {}
    /\ UNCHANGED <<environment, fresh, admin, alive, expiries>>

\* The token expires; its cookie has the same lifetime, by the browser's clock.
Expire ==
    /\ fresh /\ expiries < MaxExpiries
    /\ fresh' = FALSE
    /\ cookies' \in {cookies, {k \in cookies : k.name # "aithne_session"}}
    /\ expiries' = expiries + 1
    /\ UNCHANGED <<environment, admin, goal, at, alive, remints, loggedIn, brought>>

----------------------------------------------------------------------------

Init ==
    /\ environment \in {"development", "production"}
    /\ cookies = {} /\ fresh = FALSE
    /\ admin \in SUBSET User
    /\ goal = NoURL
    /\ at = [kind |-> "blank", url |-> NoURL]
    /\ alive = {} /\ remints = {}
    /\ loggedIn = {} /\ brought = {}
    /\ expiries = 0

Answer == GetAdmin \/ GetAuthorize \/ GetApp \/ GetPublic
Finish == \E p \in User, opened \in BOOLEAN : LoginFinish(p, opened)
Send == \E c \in Call : SendReMint(c)
Handle == \E m \in remints : HandleReMint(m)
Arrive == \E m \in remints : ReMinted(m)

Next ==
    \/ \E u \in Goal[environment] : Ask(u)
    \/ \E n \in Link : FollowLink(n)
    \/ Answer \/ Finish \/ Logout \/ Expire
    \/ Send \/ Handle \/ Arrive
    \/ \E m \in remints : LoseReMint(m)
    \/ \E p \in User : OnServer(p)

\* Requests are answered; a user who is asked to log in does so; the navigation
\* bar calls the re-mint endpoint again and again, and not every call is lost.
Fairness ==
    /\ WF_vars(Answer \/ Finish)
    /\ WF_vars(Send) /\ WF_vars(Handle) /\ SF_vars(Arrive)

Spec == Init /\ [][Next]_vars /\ Fairness

----------------------------------------------------------------------------
(* Properties                                                              *)

AllGoals == Goal["development"] \cup Goal["production"]

\* The user who asks for u sees it, or is told that it is not for him, and not
\* some other page; unless he asks for another one.
Reached(u) ==
    goal = u ~> (goal # u \/ (at.kind \in {"shown", "denied"} /\ at.url = u))

\* The detour through the login page ends at the page that was asked for: the
\* cookies are accepted and sent, the target survives its two journeys through
\* query strings, and the allow-list lets it pass.  Pages of aithne's
\* administration are left out if they have more than one parameter.
ComesBack == \A u \in AllGoals : u.path # "/admin" \/ u.query <= 1 => Reached(u)

\* Whatever login link was followed, the host that isAllowedRedirect decides on
\* is the one that login sends the browser to, and is of the estate (or localhost,
\* in development); unless the browser reads a host where url.Parse reads none.
LandsInEstate ==
    at.kind \in {"asking", "shown"} /\ at.url.host \notin {"", "misread"} =>
        \/ at.url.host \in {"aithne", "app", "apex"}
        \/ environment = "development" /\ at.url.host = "localhost"

\* After a logout the browser has nothing left with which to get a session: the
\* long-lived cookie, and every re-mint sent since, is of a user who has logged in
\* since.  A session of another user there is only if a re-mint that was on its
\* way at the logout has arrived after it.
SignedOutStaysOut ==
    /\ \A k \in cookies :
          k.user \in loggedIn \/ (k.name = "aithne_session" /\ k.user \in brought)
    /\ \A m \in remints : m.user \in loggedIn \/ m.late

\* The browser has a long-lived cookie that the server honours.
CanReMint == SentToRemint # {} /\ SentToRemint \subseteq alive

\* Wherever a session is in use but on the apex, silent re-mints bring it back
\* when its token has expired, for as long as the page is shown and the long-lived
\* cookie honoured; however many calls are lost, whatever older ones arrive.
StaysSignedIn ==
    at.kind = "shown" /\ at.url \in {u \in AllGoals : u.host # "apex"} /\ ~fresh /\ CanReMint
      ~> (fresh \/ at.kind # "shown" \/ ~CanReMint)

=============================================================================
