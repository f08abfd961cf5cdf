---------------------------- MODULE EstateProofs ----------------------------
(***************************************************************************)
(* aithne and its surroundings: the browser (module Navigation), the       *)
(* operator who changes SIGNING_KEK (KEKRotation), and lucos_contacts with *)
(* the relying parties (UserInfo).  The three share no state; what is      *)
(* proved of each is proved for every set of users, links, values, clients *)
(* and requests.                                                           *)
(***************************************************************************)
EXTENDS Navigation, KEKRotation, UserInfo, TLAPS

----------------------------------------------------------------------------
(* The browser                                                             *)

\* The absent URL is a URL like any other.
LEMMA NoURLIsURL == NoURL \in URL
<1>1. "" \in Path /\ "" \in Host
  BY DEF Path, Host
<1>2. "" \in {"", "http", "https", "other"} /\ FALSE \in BOOLEAN /\ 0 \in 0 .. 2
  OBVIOUS
<1> QED
  BY <1>1, <1>2 DEF NoURL, URL

\* URLs stay URLs on their way through redirects and query strings.
LEMMA URLs ==
  ASSUME NEW u \in URL
  PROVE  /\ Own("/", 0) \in URL
         /\ RequestURI(u) \in URL /\ UpToAmpersand(RequestURI(u)) \in URL /\ Resolved(u) \in URL
<1>1. u.path \in Path /\ u.query \in 0 .. 2
  BY DEF URL
<1> DEFINE Of(s, h, o, p, q) == [scheme |-> s, host |-> h, port |-> o, path |-> p, query |-> q]
<1>0. ASSUME NEW s \in {"", "http", "https", "other"}, NEW h \in Host, NEW o \in BOOLEAN,
             NEW p \in Path, NEW q \in 0 .. 2
      PROVE  Of(s, h, o, p, q) \in URL
  BY DEF URL
<1>2. Own("/", 0) \in URL
  <2>1. "/" \in Path /\ "localhost" \in Host /\ "aithne" \in Host
    BY DEF Path, Host
  <2>2. 0 \in 0 .. 2
    OBVIOUS
  <2>4. Of("http", "localhost", TRUE, "/", 0) \in URL
    BY <1>0, <2>1, <2>2
  <2>5. Of("https", "aithne", FALSE, "/", 0) \in URL
    BY <1>0, <2>1, <2>2
  <2> QED
    BY <2>4, <2>5 DEF Own
<1>3. RequestURI(u) \in URL
  BY <1>1 DEF RequestURI, URL, Host
<1>4. UpToAmpersand(RequestURI(u)) \in URL
  <2> DEFINE n == IF u.query > 1 THEN 1 ELSE u.query
  <2>1. n \in 0 .. 2
    BY <1>1
  <2>2. UpToAmpersand(RequestURI(u)) = Of("", "", FALSE, u.path, n)
    <3>1. RequestURI(u).query = u.query
      BY DEF RequestURI
    <3>2. UpToAmpersand(RequestURI(u)) = [RequestURI(u) EXCEPT !.query = n]
      BY <3>1 DEF UpToAmpersand
    <3>3. RequestURI(u) = Of("", "", FALSE, u.path, u.query)
      BY DEF RequestURI
    <3> HIDE DEF n
    <3>4. PICK s, o, p, r : s = "" /\ o = FALSE /\ p = u.path /\ r = u.query
      OBVIOUS
    <3>5. RequestURI(u) = Of(s, s, o, p, r)
      BY <3>3, <3>4
    <3>6. [RequestURI(u) EXCEPT !.query = n] = Of(s, s, o, p, n)
      BY <3>5
    <3> QED
      BY <3>2, <3>4, <3>6
  <2>3. "" \in Host /\ "" \in {"", "http", "https", "other"}
    BY DEF Host
  <2> HIDE DEF Of, n
  <2> QED
    BY <1>0, <1>1, <2>1, <2>2, <2>3
<1>5. Own(u.path, u.query) \in URL
  BY <1>1 DEF Own, URL, Host
<1>6. [u EXCEPT !.host = "misread"] \in URL
  <2>1. "misread" \in Host
    BY DEF Host
  <2>2. PICK h \in Host : h = "misread"
    BY <2>1
  <2>3. [u EXCEPT !.host = h] \in URL
    BY DEF URL
  <2> QED
    BY <2>2, <2>3
<1>7. Resolved(u) \in URL
  BY <1>5, <1>6 DEF Resolved
<1> QED
  BY <1>2, <1>3, <1>4, <1>7

\* Re-mints stay re-mints when they are sent, handled or overtaken by a logout.
LEMMA RemintsMove ==
  ASSUME remints \in SUBSET Remint, cookies \in SUBSET Cookie
  PROVE  /\ Send \/ Handle \/ Logout => remints' \in SUBSET Remint
         /\ \A m \in Remint : \A b \in BOOLEAN :
               /\ [m EXCEPT !.minted = b] \in Remint /\ [m EXCEPT !.late = b] \in Remint
               /\ [m EXCEPT !.minted = b].user = m.user /\ [m EXCEPT !.late = b].user = m.user
               /\ [m EXCEPT !.minted = b].late = m.late /\ [m EXCEPT !.late = b].late = b
<1>1. \A m \in Remint : \A b \in BOOLEAN :
         /\ [m EXCEPT !.minted = b] \in Remint /\ [m EXCEPT !.late = b] \in Remint
         /\ [m EXCEPT !.minted = b].user = m.user /\ [m EXCEPT !.late = b].user = m.user
         /\ [m EXCEPT !.minted = b].late = m.late /\ [m EXCEPT !.late = b].late = b
  BY DEF Remint
<1>2. ASSUME Send PROVE remints' \in SUBSET Remint
  <2>1. PICK c \in Call, p \in SentToRemint :
           remints' = remints \cup {[call |-> c, user |-> p, minted |-> FALSE, late |-> FALSE]}
    BY <1>2 DEF Send, SendReMint
  <2>2. p \in User
    BY <2>1 DEF SentToRemint, Cookie
  <2>3. [call |-> c, user |-> p, minted |-> FALSE, late |-> FALSE] \in Remint
    BY <2>2 DEF Remint
  <2> QED
    BY <2>1, <2>3
<1>3. ASSUME Handle PROVE remints' \in SUBSET Remint
  <2>1. PICK m \in remints : remints' \subseteq remints \cup {[m EXCEPT !.minted = TRUE]}
    BY <1>3 DEF Handle, HandleReMint
  <2>2. [m EXCEPT !.minted = TRUE] \in Remint
    <3>1. m \in Remint /\ TRUE \in BOOLEAN
      OBVIOUS
    <3> QED
      BY <1>1, <3>1, Zenon
  <2>3. PICK x \in Remint : x = [m EXCEPT !.minted = TRUE]
    BY <2>2, Zenon
  <2> QED
    BY <2>1, <2>3
<1>4. ASSUME Logout PROVE remints' \in SUBSET Remint
  <2>1. remints' = {[m EXCEPT !.late = TRUE] : m \in remints}
    BY <1>4 DEF Logout
  <2>2. \A m \in Remint : [m EXCEPT !.late = TRUE] \in Remint
    <3>1. TRUE \in BOOLEAN
      OBVIOUS
    <3> QED
      BY <1>1, <3>1, Zenon
  <2> QED
    BY <2>1, <2>2, Zenon
<1> QED
  BY <1>1, <1>2, <1>3, <1>4

\* The browser's state stays well typed.
THEOREM BrowserTypes == Spec => []TypeOK
<1>1. Init => TypeOK
  <2>1. NoURL \in URL
    BY NoURLIsURL
  <2>2. [kind |-> "blank", url |-> NoURL] \in Place
    BY <2>1 DEF Place
  <2>3. 0 \in 0 .. MaxExpiries
    BY GoalAssumption
  <2> QED
    BY <2>1, <2>2, <2>3 DEF Init, TypeOK
<1>2. TypeOK /\ [Next]_vars => TypeOK'
  <2> SUFFICES ASSUME TypeOK, [Next]_vars PROVE TypeOK'
    OBVIOUS
  <2> USE DEF TypeOK
  <2>0. /\ at.url \in URL /\ at.kind \in {"blank", "asking", "login", "shown", "denied"}
        /\ \A kind \in {"blank", "asking", "login", "shown", "denied"}, u \in URL :
              [kind |-> kind, url |-> u] \in Place
    BY DEF Place
  <2>1. ASSUME NEW u \in Goal[environment], Ask(u) PROVE TypeOK'
    <3>1. u \in URL
      BY GoalAssumption
    <3> QED
      BY <2>0, <2>1, <3>1 DEF Ask, session
  <2>2. ASSUME NEW n \in Link, FollowLink(n) PROVE TypeOK'
    BY <2>0, <2>2, URLs, NoURLIsURL, GoalAssumption DEF FollowLink, session
  <2>3. ASSUME UNCHANGED <<session, cookies, fresh, goal>>,
               NEW kind \in {"login", "shown", "denied"}, NEW u \in URL,
               at' = [kind |-> kind, url |-> u]
        PROVE  TypeOK'
    BY <2>0, <2>3 DEF session
  <2>4. CASE Answer
    <3>1. UNCHANGED <<session, cookies, fresh, goal>>
      BY <2>4 DEF Answer, GetAdmin, GetAuthorize, GetApp, GetPublic
    <3>2. \E kind \in {"login", "shown", "denied"}, u \in URL : at' = [kind |-> kind, url |-> u]
      BY <2>0, <2>4, URLs DEF Answer, GetAdmin, GetAuthorize, GetApp, GetPublic, Show, Login
    <3> QED
      BY <2>3, <3>1, <3>2
  <2>5. ASSUME NEW new_ \in SUBSET Cookie PROVE With(new_) \in SUBSET Cookie
    BY <2>5 DEF With
  <2>6. ASSUME NEW p \in User
        PROVE  SessionCookie(p) \in Cookie /\ IDPSessionCookie(p) \in Cookie
    BY <2>6 DEF SessionCookie, IDPSessionCookie, Cookie, cookieDomain, Secure
  <2>7. ASSUME NEW p \in User, NEW opened \in BOOLEAN, LoginFinish(p, opened) PROVE TypeOK'
    <3>1. cookies' \in SUBSET Cookie
      BY <2>5, <2>6, <2>7 DEF LoginFinish
    <3>2. at' \in Place
      BY <2>0, <2>7, URLs DEF LoginFinish
    <3> QED
      BY <2>7, <3>1, <3>2 DEF LoginFinish
  <2>8. CASE Send \/ Handle \/ Arrive \/ \E m \in remints : LoseReMint(m)
    <3>1. remints' \in SUBSET Remint
      <4>1. CASE Send \/ Handle
        BY <4>1, RemintsMove
      <4>2. CASE Arrive \/ \E m \in remints : LoseReMint(m)
        <5>1. remints' \subseteq remints
          BY <4>2 DEF Arrive, ReMinted, LoseReMint
        <5> QED
          BY <5>1
      <4> QED
        BY <2>8, <4>1, <4>2
    <3>2. CASE Arrive
      <4>1. PICK m \in remints : ReMinted(m)
        BY <3>2 DEF Arrive
      <4>2. m.user \in User
        BY DEF Remint
      <4>3. cookies' \in SUBSET Cookie
        BY <2>5, <2>6, <4>1, <4>2 DEF ReMinted
      <4> QED
        BY <3>1, <4>1, <4>2, <4>3 DEF ReMinted
    <3>3. CASE ~Arrive
      BY <2>8, <3>1, <3>3 DEF Send, SendReMint, Handle, HandleReMint, LoseReMint
    <3> QED
      BY <3>2, <3>3
  <2>9. CASE Logout
    <3>1. remints' \in SUBSET Remint
      BY <2>9, RemintsMove
    <3> QED
      BY <2>0, <2>9, <3>1, URLs, NoURLIsURL DEF Logout
  <2>10. CASE Expire
    <3>1. expiries' \in 0 .. MaxExpiries
      BY <2>10, GoalAssumption DEF Expire
    <3>2. cookies' \subseteq Cookie
      BY <2>10 DEF Expire
    <3> QED
      BY <2>10, <3>1, <3>2 DEF Expire
  <2>11. CASE UNCHANGED vars
    BY <2>11 DEF vars
  <2>12. ASSUME NEW p \in User, OnServer(p) PROVE TypeOK'
    BY <2>12 DEF OnServer
  <2> QED
    BY <2>1, <2>2, <2>4, <2>7, <2>8, <2>9, <2>10, <2>11, <2>12 DEF Next, Finish
<1> QED
  BY <1>1, <1>2, PTL DEF Spec

\* Every cookie in the jar is one that a logout hits, and is of a user who has
\* logged in since the last one, or a session that a late re-mint has brought.
JarInv ==
    /\ TypeOK
    /\ \A k \in cookies :
          /\ Identity(k) \in Cleared
          /\ k.user \in loggedIn \/ (k.name = "aithne_session" /\ k.user \in brought)
    /\ \A m \in remints : m.user \in loggedIn \/ m.late

\* The cookies that the server sets are the ones it clears.
LEMMA SetIsCleared ==
  ASSUME NEW p
  PROVE  /\ SessionCookie(p).user = p /\ Identity(SessionCookie(p)) \in Cleared
         /\ IDPSessionCookie(p).user = p /\ Identity(IDPSessionCookie(p)) \in Cleared
  BY DEF SessionCookie, IDPSessionCookie, Identity, Cleared

\* A login brings cookies of a user who is logged in then, a re-mint a session of
\* the user whose cookie it was sent with; a logout leaves no cookie, and makes
\* every re-mint on its way a late one.
LEMMA JarStep ==
  ASSUME JarInv, [Next]_vars, TypeOK'
  PROVE  JarInv'
<1> DEFINE Fine(k) == k.user \in loggedIn \/ (k.name = "aithne_session" /\ k.user \in brought)
           Sent(m) == m.user \in loggedIn \/ m.late
<1>0. /\ remints \in SUBSET Remint /\ cookies \in SUBSET Cookie
      /\ \A k \in cookies : Identity(k) \in Cleared /\ Fine(k)
      /\ \A m \in remints : Sent(m)
  BY DEF JarInv, TypeOK
<1>1. environment' = environment
  BY DEF Next, Ask, FollowLink, Answer, GetAdmin, GetAuthorize, GetApp, GetPublic, Finish,
         LoginFinish, Send, SendReMint, Handle, HandleReMint, Arrive, ReMinted, LoseReMint,
         OnServer, Logout, Expire, vars, session
<1>2. Cleared' = Cleared
  BY <1>1 DEF Cleared, cookieDomain
<1>3. ASSUME cookies' \subseteq cookies, loggedIn' = loggedIn, brought' = brought,
             \A m \in remints' : m \in remints \/ Sent(m)
      PROVE  JarInv'
  BY <1>0, <1>2, <1>3 DEF JarInv, Identity
<1>4. ASSUME NEW p \in User, NEW opened \in BOOLEAN, LoginFinish(p, opened) PROVE JarInv'
  <2>1. /\ cookies' \subseteq cookies \cup {SessionCookie(p), IDPSessionCookie(p)}
        /\ loggedIn' = loggedIn \cup {p} /\ remints' = remints /\ brought' = brought
    BY <1>4 DEF LoginFinish, With
  <2>2. \A k \in cookies' : Identity(k) \in Cleared /\ Fine(k)'
    BY <1>0, <2>1, SetIsCleared DEF Identity
  <2> QED
    BY <1>0, <1>2, <2>1, <2>2 DEF JarInv, Identity
<1>5. CASE Send
  <2>1. PICK c \in Call, p \in SentToRemint :
           remints' = remints \cup {[call |-> c, user |-> p, minted |-> FALSE, late |-> FALSE]}
    BY <1>5 DEF Send, SendReMint
  <2>2. p \in loggedIn
    BY <1>0, <2>1 DEF SentToRemint
  <2> QED
    BY <1>3, <1>5, <2>1, <2>2 DEF Send, SendReMint
<1>6. CASE Handle
  <2>1. PICK m \in remints : remints' \subseteq remints \cup {[m EXCEPT !.minted = TRUE]}
    BY <1>6 DEF Handle, HandleReMint
  <2>2. Sent([m EXCEPT !.minted = TRUE])
    BY <1>0, <2>1, RemintsMove
  <2> QED
    BY <1>3, <1>6, <2>1, <2>2 DEF Handle, HandleReMint
<1>7. CASE Arrive
  <2>1. PICK m \in remints : ReMinted(m)
    BY <1>7 DEF Arrive
  <2>2. /\ cookies' \subseteq cookies \cup {SessionCookie(m.user)}
        /\ loggedIn' = loggedIn /\ remints' \subseteq remints
        /\ brought \subseteq brought' /\ (m.late => m.user \in brought')
    BY <2>1 DEF ReMinted, With
  <2>3. SessionCookie(m.user).name = "aithne_session"
    BY DEF SessionCookie
  <2>4. LET k == SessionCookie(m.user) IN
          k.user \in loggedIn' \/ (k.name = "aithne_session" /\ k.user \in brought')
    <3>1. m.user \in loggedIn' \/ m.user \in brought'
      BY <1>0, <2>1, <2>2
    <3>2. SessionCookie(m.user).user = m.user
      BY SetIsCleared
    <3>3. PICK k : k = SessionCookie(m.user)
      OBVIOUS
    <3>4. k.name = "aithne_session" /\ (k.user \in loggedIn' \/ k.user \in brought')
      BY <2>3, <3>1, <3>2, <3>3
    <3> QED
      BY <3>3, <3>4
  <2>5. \A k \in cookies' : Identity(k) \in Cleared /\ Fine(k)'
    BY <1>0, <2>2, <2>3, <2>4, SetIsCleared DEF Identity
  <2> QED
    BY <1>0, <1>2, <2>2, <2>5 DEF JarInv, Identity
<1>8. CASE Logout
  <2>1. cookies' = {}
    BY <1>0, <1>8 DEF Logout
  <2>2. \A m \in remints' : m.late
    <3>1. \A m \in Remint : [m EXCEPT !.late = TRUE].late = TRUE
      <4>1. TRUE \in BOOLEAN
        OBVIOUS
      <4> QED
        BY <1>0, <4>1, RemintsMove, Zenon
    <3>2. remints' = {[m EXCEPT !.late = TRUE] : m \in remints}
      BY <1>8 DEF Logout
    <3>3. \A m \in remints' : m.late = TRUE
      BY <1>0, <3>1, <3>2, Zenon
    <3> QED
      BY <3>3
  <2> QED
    BY <2>1, <2>2 DEF JarInv
<1> QED
  BY <1>3, <1>4, <1>5, <1>6, <1>7, <1>8
  DEF Next, Ask, FollowLink, Answer, GetAdmin, GetAuthorize, GetApp, GetPublic, Finish,
      LoseReMint, OnServer, Expire, vars, session

\* After a logout the browser has nothing left with which to get a session: what
\* comes back was on its way at the logout.  handleLogout clears exactly the
\* cookies that were set, whatever the environment.
THEOREM LogoutSignsOut == Spec => []SignedOutStaysOut
<1>1. Init /\ TypeOK => JarInv
  BY DEF Init, JarInv
<1>2. JarInv => SignedOutStaysOut
  BY DEF JarInv, SignedOutStaysOut
<1>3. JarInv /\ [Next]_vars /\ TypeOK' => JarInv'
  BY JarStep
<1> QED
  BY <1>1, <1>2, <1>3, BrowserTypes, PTL DEF Spec

\* The hosts where the browser may be.
Home(u) ==
    \/ u.host \in {"", "misread", "aithne", "app", "apex"}
    \/ environment = "development" /\ u.host = "localhost"

PlaceInv ==
    /\ environment \in {"development", "production"}
    /\ at.kind \in {"asking", "shown"} => Home(at.url)

\* Where a login sends the browser, whatever the value of next.
LEMMA LoginLands ==
  ASSUME NEW next \in URL, environment \in {"development", "production"}
  PROVE  Home(IF AllowedRedirect(next) THEN Resolved(next) ELSE Own("/", 0))
<1>1. \A path, query : Home(Own(path, query))
  BY DEF Home, Own
<1>2. AllowedRedirect(next) => Home(Resolved(next))
  <2>1. Misread(next) /\ next \in URL => Resolved(next).host = "misread"
    <3>1. PICK h : h = "misread"
      OBVIOUS
    <3>2. next \in URL => [next EXCEPT !.host = h].host = h
      BY DEF URL
    <3> QED
      BY <3>1, <3>2 DEF Resolved
  <2>2. CASE Misread(next)
    BY <2>1, <2>2 DEF Home
  <2>3. CASE ~Misread(next) /\ next.host = "" /\ next.scheme # "other"
    BY <1>1, <2>3 DEF Resolved
  <2>4. CASE ~Misread(next) /\ ~(next.host = "" /\ next.scheme # "other")
    <3>1. Resolved(next) = next
      BY <2>4 DEF Resolved
    <3> QED
      BY <3>1 DEF AllowedRedirect, Home, InDomain, Estate, IsDevLocalhost
  <2> QED
    BY <2>2, <2>3, <2>4
<1> QED
  BY <1>1, <1>2

\* Login sends the browser to the host that isAllowedRedirect has decided on, one
\* of the estate; unless it reads a host where url.Parse reads none.
THEOREM LoginStaysHome == Spec => []LandsInEstate
<1>1. Init => PlaceInv
  BY DEF Init, PlaceInv
<1>2. TypeOK /\ PlaceInv /\ [Next]_vars => PlaceInv'
  <2> SUFFICES ASSUME TypeOK, PlaceInv, [Next]_vars PROVE PlaceInv'
    OBVIOUS
  <2>1. environment' = environment
    BY DEF Next, Ask, FollowLink, Answer, GetAdmin, GetAuthorize, GetApp, GetPublic, Finish,
           LoginFinish, Send, SendReMint, Handle, HandleReMint, Arrive, ReMinted, LoseReMint,
           OnServer, Logout, Expire, vars, session
  <2>2. ASSUME NEW u \in Goal[environment], Ask(u) PROVE PlaceInv'
    <3>1. Home(u)
      BY GoalAssumption DEF Home, PlaceInv
    <3> QED
      BY <2>1, <2>2, <3>1 DEF Ask, PlaceInv, Home
  <2>3. ASSUME at'.kind = "login" PROVE PlaceInv'
    BY <2>1, <2>3 DEF PlaceInv
  <2>4. ASSUME at.kind = "asking", at'.url = at.url PROVE PlaceInv'
    BY <2>1, <2>4 DEF PlaceInv, Home
  <2>5. CASE GetAdmin
    BY <2>3, <2>4, <2>5 DEF GetAdmin, Show, Login
  <2>6. CASE GetAuthorize
    BY <2>3, <2>4, <2>6 DEF GetAuthorize, Show, Login
  <2>7. CASE GetApp
    BY <2>3, <2>4, <2>7 DEF GetApp, Show, Login
  <2>8. CASE GetPublic
    BY <2>4, <2>8 DEF GetPublic, Show
  <2>9. ASSUME NEW p \in User, NEW opened \in BOOLEAN, LoginFinish(p, opened) PROVE PlaceInv'
    <3>1. Home(at'.url)
      <4>1. at.url \in URL
        BY DEF TypeOK, Place
      <4> QED
        BY <2>9, <4>1, LoginLands DEF LoginFinish, PlaceInv
    <3> QED
      BY <2>1, <3>1 DEF PlaceInv, Home
  <2>10. CASE Logout
    <3>1. Home(at'.url)
      BY <2>10 DEF Logout, Home, Own
    <3> QED
      BY <2>1, <3>1 DEF PlaceInv, Home
  <2>11. ASSUME at' = at PROVE PlaceInv'
    BY <2>1, <2>11 DEF PlaceInv, Home
  <2>12. ASSUME NEW n \in Link, FollowLink(n) PROVE PlaceInv'
    BY <2>3, <2>12 DEF FollowLink
  <2> QED
    BY <2>2, <2>5, <2>6, <2>7, <2>8, <2>9, <2>10, <2>11, <2>12
    DEF Next, Answer, Finish, Send, SendReMint, Handle, HandleReMint, Arrive, ReMinted, LoseReMint,
        OnServer, Expire, vars
<1>3. PlaceInv => LandsInEstate
  BY DEF PlaceInv, LandsInEstate, Home
<1> QED
  BY <1>1, <1>2, <1>3, BrowserTypes, PTL DEF Spec

----------------------------------------------------------------------------
(* The operator                                                            *)

\* The rows are sealed under a value the operator has.
SealedKnown ==
    sealed \in {Raw(Bare(creds)), Sum256(Bare(creds)), Sum256(Bare(new))}

\* A command that may still commit, or has, seals under the bare new value;
\* the service is down until the operator redeploys.
CommandInv ==
    /\ command.pc \in {"rekeying", "committed"} =>
          container = "down" /\ command.new = Sum256(Bare(new))
    /\ command.pc \in {"committed", "exit 0"} => sealed = Sum256(Bare(new))
    /\ command.pc = "exit 0" => container # "failing"
    /\ container = "serving" => sealed = Sum256(Bare(creds))
    /\ new = NoValue => sealed \in {Raw(Bare(creds)), Sum256(Bare(creds))}

RotationInv == RotationTypeOK /\ SealedKnown /\ CommandInv


\* Both schemes make a KEK of a value.
LEMMA Seals ==
  ASSUME NEW v \in Value
  PROVE  Raw(Bare(v)) \in KEK /\ Sum256(Bare(v)) \in KEK
  BY DEF Raw, Sum256, Bare, KEK, Text

\* However the procedure goes, the invariant of the operator's keys holds.
THEOREM RotationCorrect == RotationSpec => []RotationInv
<1> USE DEF RotationInv, RotationTypeOK, SealedKnown, CommandInv
<1>1. RotationInit => RotationInv
  <2> SUFFICES ASSUME RotationInit PROVE RotationInv
    OBVIOUS
  <2>1. NoCommand \in [name : {"rekey", "migrate-kek", "none"},
                    pc : {"none", "rekeying", "committed", "exit 0", "exit 1"},
                    old : KEK \cup {NoKEK}, new : KEK \cup {NoKEK}] /\ NoCommand.pc = "none"
    BY DEF NoCommand
  <2>2. creds \in Value /\ command = NoCommand /\ new = NoValue /\ kills \in 0 .. MaxKills
    BY ValueAssumption DEF RotationInit
  <2>3. Raw(Bare(creds)) \in KEK /\ Sum256(Bare(creds)) \in KEK
    BY <2>2, Seals
  <2> QED
    BY <2>1, <2>2, <2>3 DEF RotationInit
<1>2. RotationInv /\ [RotationNext]_rotationVars => RotationInv'
  <2> SUFFICES ASSUME RotationInv, [RotationNext]_rotationVars PROVE RotationInv'
    OBVIOUS
  <2>1. CASE StopService
    <3>1. NoCommand \in [name : {"rekey", "migrate-kek", "none"},
                      pc : {"none", "rekeying", "committed", "exit 0", "exit 1"},
                      old : KEK \cup {NoKEK}, new : KEK \cup {NoKEK}] /\ NoCommand.pc = "none"
      BY DEF NoCommand
    <3>2. CASE container = "serving" \/ new = NoValue
      BY <2>1, <3>1, <3>2, ValueAssumption DEF StopService
    <3>3. CASE ~(container = "serving" \/ new = NoValue)
      BY <2>1, <3>1, <3>3 DEF StopService
    <3> QED
      BY <3>2, <3>3
  <2>2. ASSUME NEW name \in {"rekey", "migrate-kek"}, NEW old \in Text, NEW fresh_ \in Text,
               RunCommand(name, old, fresh_)
        PROVE  RotationInv'
    <3>1. OldKEK(name, old) \in KEK /\ NewKEK(name, fresh_) \in KEK
      BY DEF OldKEK, NewKEK, KEK, Sum256, Raw
    <3>2. ~isQuoteWrapped(fresh_) => NewKEK(name, fresh_) = Sum256(Bare(new))
      <4>1. ASSUME ~isQuoteWrapped(fresh_) PROVE fresh_ = Bare(new)
        <5>1. fresh_.value = new /\ ~fresh_.quoted /\ fresh_.quoted \in BOOLEAN
          BY <2>2, <4>1 DEF RunCommand, isQuoteWrapped, Text
        <5> QED
          BY <5>1 DEF Text, Bare
      <4> QED
        BY <4>1 DEF NewKEK
    <3>3. CASE isQuoteWrapped(old) \/ isQuoteWrapped(fresh_)
      <4>1. command'.pc = "exit 1"
        BY <2>2, <3>3 DEF RunCommand
      <4> QED
        BY <2>2, <3>1, <3>3, <4>1 DEF RunCommand
    <3>4. CASE ~(isQuoteWrapped(old) \/ isQuoteWrapped(fresh_))
      <4>1. command'.pc = "rekeying" /\ command'.new = Sum256(Bare(new))
        BY <2>2, <3>2, <3>4 DEF RunCommand
      <4> QED
        BY <2>2, <3>1, <3>4, <4>1 DEF RunCommand
    <3> QED
      BY <3>3, <3>4
  <2>3. CASE RekeySigningKeys
    <3>1. command'.new = command.new
      BY <2>3 DEF RekeySigningKeys
    <3>2. CASE Opens(command.old)
      <4>1. command'.pc = "committed" /\ sealed' = Sum256(Bare(new)) /\ new' = new
        BY <2>3, <3>2 DEF RekeySigningKeys
      <4>2. command.new \in KEK
        <5>1. command.new.scheme = "sha256" /\ NoKEK.scheme = "none"
          <6>1. command.new = Sum256(Bare(new))
            BY <2>3 DEF RekeySigningKeys
          <6> HIDE DEF RotationInv
          <6> QED
            BY <6>1 DEF Sum256, NoKEK
        <5> QED
          BY <5>1
      <4>3. new \in Value
        <5>1. command.new = Sum256(Bare(new))
          BY <2>3 DEF RekeySigningKeys
        <5> HIDE DEF RotationInv
        <5> QED
          BY <4>2, <5>1 DEF Sum256, Bare, KEK, Text
      <4> QED
        BY <2>3, <3>1, <3>2, <4>1, <4>2, <4>3, ValueAssumption DEF RekeySigningKeys
    <3>3. CASE ~Opens(command.old)
      BY <2>3, <3>1, <3>3 DEF RekeySigningKeys
    <3> QED
      BY <3>2, <3>3
  <2>4. CASE Exit
    BY <2>4 DEF Exit
  <2>5. CASE Kill
    <3>1. kills' \in 0 .. MaxKills
      <4>1. kills \in 0 .. MaxKills /\ kills < MaxKills /\ kills' = kills + 1
        BY <2>5 DEF Kill
      <4> HIDE DEF RotationInv
      <4> QED
        BY <4>1, ValueAssumption
    <3>2. command'.pc = "exit 1" /\ command'.new = command.new
      BY <2>5 DEF Kill
    <3> QED
      BY <2>5, <3>1, <3>2 DEF Kill
  <2>6. CASE UpdateAndRedeploy
    <3>1. sealed = Sum256(Bare(new)) /\ new # NoValue /\ container' = "serving"
      <4>1. sealed = Sum256(Bare(new))
        BY <2>6 DEF UpdateAndRedeploy
      <4>2. new # NoValue
        <5>1. sealed.text.value \in Value
          BY DEF KEK, Text
        <5> QED
          BY <4>1, <5>1, ValueAssumption DEF Sum256, Bare
      <4> QED
        BY <2>6, <4>1, <4>2 DEF UpdateAndRedeploy, Boot, Opens
    <3> QED
      BY <2>6, <3>1 DEF UpdateAndRedeploy
  <2>7. CASE RedeployUnchanged
    BY <2>7 DEF RedeployUnchanged, Boot, Opens
  <2>8. CASE UNCHANGED rotationVars
    BY <2>8 DEF rotationVars
  <2> QED
    BY <2>1, <2>2, <2>3, <2>4, <2>5, <2>6, <2>7, <2>8 DEF RotationNext
<1> QED
  BY <1>1, <1>2, PTL DEF RotationSpec
\* Whatever is copied with its quotes, whichever command is run and whenever it
\* is killed, the rows open under a value the operator still has; and a command
\* that exits 0 leaves rows that the redeployed container can open.
THEOREM KeysNeverLost == RotationSpec => []KeysStayOpenable
<1>1. RotationInv => KeysStayOpenable
  BY DEF RotationInv, SealedKnown, CommandInv, KeysStayOpenable, Opens
<1> QED
  BY <1>1, RotationCorrect, PTL

----------------------------------------------------------------------------
(* The relying parties                                                     *)

\* A token knows only scopes that were asked for, and an ID token is for a
\* relying party.
Honest(t) ==
    /\ t.kind \in {"session", "id"}
    /\ t.oidc_scopes \subseteq t.asked
    /\ t.kind = "id" => t.aud \in Client

ToldInv ==
    /\ exchange \in [Request -> [pc : {"idle", "consumed", "looked up"},
                                 client : Client \cup {None}, scope : SUBSET Scope,
                                 email : BOOLEAN]]
    /\ \A r \in Request : /\ exchange[r].email => "email" \in exchange[r].scope
                          /\ exchange[r].pc # "idle" => exchange[r].client \in Client
    /\ \A t \in tokens : Honest(t)
    /\ ToldAsAsked

\* The claims of an answer are bounded by the token, those of a token by the
\* request behind it.
LEMMA ToldStep ==
  ASSUME ToldInv, [InfoNext]_infoVars
  PROVE  ToldInv'
<1> DEFINE X == [pc : {"idle", "consumed", "looked up"}, client : Client \cup {None},
                 scope : SUBSET Scope, email : BOOLEAN]
           Sound(x) == /\ x.email => "email" \in x.scope
                       /\ x.pc # "idle" => x.client \in Client
<1>0. exchange \in [Request -> X] /\ \A r \in Request : Sound(exchange[r])
  BY DEF ToldInv
<1>1. ASSUME NEW r \in Request, NEW x \in X, Sound(x), exchange' = [exchange EXCEPT ![r] = x],
             \A t \in tokens' : Honest(t), ToldAsAsked'
      PROVE  ToldInv'
  <2>1. exchange' \in [Request -> X]
    BY <1>0, <1>1
  <2>2. \A q \in Request : Sound(exchange'[q])
    <3> HIDE DEF X, Sound
    <3> QED
      BY <1>0, <1>1
  <2> QED
    BY <1>1, <2>1, <2>2 DEF ToldInv
<1>2. ASSUME NEW r \in Request, NEW cl \in Client, NEW sc \in SUBSET Scope, Consumed(r, cl, sc)
      PROVE  ToldInv'
  <2> DEFINE x == [pc |-> "consumed", client |-> cl, scope |-> sc, email |-> FALSE]
  <2>1. x \in X /\ Sound(x)
    OBVIOUS
  <2>2. tokens' = tokens /\ told' = told /\ exchange' = [exchange EXCEPT ![r] = x]
    BY <1>2 DEF Consumed
  <2>3. \A t \in tokens' : Honest(t)
    BY <2>2 DEF ToldInv
  <2>4. ToldAsAsked'
    BY <2>2 DEF ToldInv, ToldAsAsked
  <2> HIDE DEF x, X, Sound
  <2> QED
    BY <1>1, <2>1, <2>2, <2>3, <2>4
<1>3. ASSUME NEW r \in Request, Lookup(r)
      PROVE  ToldInv'
  <2> DEFINE x == AfterLookup(r)
  <2>1. x \in X /\ Sound(x)
    <3>1. EmailClaim(requestedOIDCScopes(exchange[r].scope)) \in BOOLEAN
      BY DEF EmailClaim
    <3>2. EmailClaim(requestedOIDCScopes(exchange[r].scope)) => "email" \in exchange[r].scope
      BY DEF EmailClaim, requestedOIDCScopes
    <3>3. exchange[r] \in X /\ exchange[r].client \in Client
      BY <1>0, <1>3 DEF Lookup
    <3> QED
      BY <3>1, <3>2, <3>3 DEF AfterLookup
  <2>2. tokens' = tokens /\ told' = told /\ exchange' = [exchange EXCEPT ![r] = x]
    BY <1>3 DEF Lookup
  <2>3. \A t \in tokens' : Honest(t)
    BY <2>2 DEF ToldInv
  <2>4. ToldAsAsked'
    BY <2>2 DEF ToldInv, ToldAsAsked
  <2> HIDE DEF x, X, Sound
  <2> QED
    BY <1>1, <2>1, <2>2, <2>3, <2>4
<1>4. ASSUME NEW r \in Request, Mint(r)
      PROVE  ToldInv'
  <2>1. NoExchange \in X /\ Sound(NoExchange)
    BY DEF NoExchange
  <2>2. exchange' = [exchange EXCEPT ![r] = NoExchange]
    BY <1>4 DEF Mint
  <2>3. Honest(AccessToken(r)) /\ Honest(IDToken(r))
    <3>1. exchange[r].client \in Client
      BY <1>0, <1>4 DEF Mint
    <3> QED
      BY <3>1 DEF Honest, AccessToken, IDToken, requestedOIDCScopes
  <2>4. \A t \in tokens' : Honest(t)
    BY <1>4, <2>3 DEF Mint, ToldInv
  <2>5. ToldAsAsked'
    BY <1>0, <1>4 DEF Mint, ToldAsAsked
  <2> HIDE DEF X, Sound
  <2> QED
    BY <1>1, <2>1, <2>2, <2>4, <2>5
<1>5. ASSUME NEW class \in {"human", "agent"}, MintElsewhere(class)
      PROVE  ToldInv'
  <2> DEFINE s == [kind |-> "session", aud |-> Audience, class |-> class,
                   oidc_scopes |-> {}, asked |-> {}]
  <2>0. Honest(s) /\ tokens' = tokens \cup {s}
    BY <1>5 DEF MintElsewhere, Honest
  <2>1. \A t \in tokens' : Honest(t)
    <3> HIDE DEF s
    <3> QED
      BY <2>0 DEF ToldInv
  <2> QED
    BY <1>5, <2>1 DEF MintElsewhere, ToldInv, ToldAsAsked
<1>6. ASSUME NEW t \in tokens, Userinfo(t)
      PROVE  ToldInv'
  <2>1. Honest(t) /\ t.aud = Audience
    BY <1>6 DEF ToldInv, Userinfo, Parses
  <2>2. t.kind = "session"
    BY <2>1, ClientAssumption DEF Honest
  <2>3. ToldAsAsked'
    BY <1>6, <2>1, <2>2 DEF Userinfo, ToldAsAsked, EmailClaim, Honest
  <2> QED
    BY <1>6, <2>3 DEF Userinfo, ToldInv
<1>7. CASE ContactsChange
  BY <1>7 DEF ContactsChange, ToldInv, ToldAsAsked
<1>8. CASE UNCHANGED infoVars
  BY <1>8 DEF infoVars, ToldInv, ToldAsAsked
<1> QED
  BY <1>2, <1>3, <1>4, <1>5, <1>6, <1>7, <1>8 DEF InfoNext

\* The invariant holds of the specification.
THEOREM InfoCorrect == InfoSpec => []ToldInv
<1>1. InfoInit => ToldInv
  BY DEF InfoInit, ToldInv, ToldAsAsked, NoExchange
<1> QED
  BY <1>1, ToldStep, PTL DEF InfoSpec

\* No relying party learns a name or an address that its authorization request
\* did not ask for, although userinfo sees only the access token; and an ID
\* token is never taken for one.
THEOREM OnlyWhatWasAsked == InfoSpec => []ToldAsAsked
<1>1. ToldInv => ToldAsAsked
  BY DEF ToldInv
<1> QED
  BY <1>1, InfoCorrect, PTL

\* Exchanges, tokens and answers stay well typed; that an ID token has a client
\* for its audience needs that an exchange past its code has one.
THEOREM InfoTypes == InfoSpec => []InfoTypeOK
<1> DEFINE E == [pc : {"idle", "consumed", "looked up"}, client : Client \cup {None},
                 scope : SUBSET Scope, email : BOOLEAN]
<1>0. NoExchange \in E
  BY DEF NoExchange
<1>1. InfoInit => InfoTypeOK
  <2> SUFFICES ASSUME InfoInit PROVE InfoTypeOK
    OBVIOUS
  <2>1. exchange \in [Request -> E]
    <3> HIDE DEF E
    <3> QED
      BY <1>0 DEF InfoInit
  <2>2. told \in Claims
    BY DEF InfoInit, Claims
  <2>3. exchanges \in 0 .. MaxExchanges
    BY ClientAssumption DEF InfoInit
  <2> QED
    BY <2>1, <2>2, <2>3 DEF InfoInit, InfoTypeOK
<1>2. InfoTypeOK /\ ToldInv /\ [InfoNext]_infoVars => InfoTypeOK'
  <2> SUFFICES ASSUME InfoTypeOK, ToldInv, [InfoNext]_infoVars PROVE InfoTypeOK'
    OBVIOUS
  <2>0. exchange \in [Request -> E]
    BY DEF InfoTypeOK
  <2>1. ASSUME NEW r \in Request, NEW cl \in Client, NEW sc \in SUBSET Scope, Consumed(r, cl, sc)
        PROVE  InfoTypeOK'
    <3>1. exchanges' \in 0 .. MaxExchanges
      <4>1. exchanges \in 0 .. MaxExchanges /\ exchanges < MaxExchanges /\ exchanges' = exchanges + 1
        BY <2>1 DEF Consumed, InfoTypeOK
      <4> QED
        BY <4>1, ClientAssumption
    <3>2. [pc |-> "consumed", client |-> cl, scope |-> sc, email |-> FALSE] \in E
      OBVIOUS
    <3>3. exchange' \in [Request -> E]
      <4> HIDE DEF E
      <4> QED
        BY <2>0, <2>1, <3>2 DEF Consumed
    <3> QED
      BY <2>1, <3>1, <3>3 DEF Consumed, InfoTypeOK
  <2>2. ASSUME NEW r \in Request, Lookup(r) PROVE InfoTypeOK'
    <3>1. AfterLookup(r) \in E
      <4>1. exchange[r] \in E /\ EmailClaim(requestedOIDCScopes(exchange[r].scope)) \in BOOLEAN
        BY <2>0 DEF EmailClaim, PrimaryEmail, Found, InfoTypeOK
      <4>2. \A x \in E, b \in BOOLEAN : [x EXCEPT !.pc = "looked up", !.email = b] \in E
        OBVIOUS
      <4> HIDE DEF E
      <4> QED
        BY <4>1, <4>2 DEF AfterLookup
    <3>2. exchange' \in [Request -> E]
      <4> HIDE DEF E
      <4> QED
        BY <2>0, <2>2, <3>1 DEF Lookup
    <3> QED
      BY <2>2, <3>2 DEF Lookup, InfoTypeOK
  <2>3. ASSUME NEW r \in Request, Mint(r) PROVE InfoTypeOK'
    <3>1. exchange' \in [Request -> E]
      <4> HIDE DEF E
      <4> QED
        BY <1>0, <2>0, <2>3 DEF Mint
    <3>2. exchange[r] \in E
      BY <2>0
    <3>3. told' \in Claims
      BY <2>3, <3>2 DEF Mint, Claims
    <3>4. exchange[r].client \in Client
      BY <2>3 DEF Mint, ToldInv
    <3>5. AccessToken(r) \in Token /\ IDToken(r) \in Token
      BY <3>2, <3>4 DEF AccessToken, IDToken, Token, requestedOIDCScopes
    <3> QED
      BY <2>3, <3>1, <3>3, <3>5 DEF Mint, InfoTypeOK
  <2>4. ASSUME NEW class \in {"human", "agent"}, MintElsewhere(class) PROVE InfoTypeOK'
    <3>1. [kind |-> "session", aud |-> Audience, class |-> class,
           oidc_scopes |-> {}, asked |-> {}] \in Token
      BY DEF Token
    <3> QED
      BY <2>4, <3>1 DEF MintElsewhere, InfoTypeOK
  <2>5. ASSUME NEW t \in tokens, Userinfo(t) PROVE InfoTypeOK'
    <3>1. told' \in Claims
      BY <2>5 DEF Userinfo, Claims, InfoTypeOK, Token, EmailClaim, PrimaryEmail, Found
    <3> QED
      BY <2>5, <3>1 DEF Userinfo, InfoTypeOK
  <2>6. CASE ContactsChange
    BY <2>6 DEF ContactsChange, InfoTypeOK
  <2>7. CASE UNCHANGED infoVars
    BY <2>7 DEF infoVars, InfoTypeOK
  <2> QED
    BY <2>1, <2>2, <2>3, <2>4, <2>5, <2>6, <2>7 DEF InfoNext
<1> QED
  BY <1>1, <1>2, InfoCorrect, PTL DEF InfoSpec

\* What a relying party gets for its code: an access token and an ID token.
Served(r) ==
    /\ \E t \in tokens' : t.kind = "session" /\ t.asked = exchange[r].scope
    /\ \E t \in tokens' : /\ t.kind = "id" /\ t.aud = exchange[r].client
                          /\ t.asked = exchange[r].scope

\* An exchange whose code is spent keeps its client and scope and only moves
\* forward, until it ends with both tokens handed out, and no token is taken back:
\* an error of lucos_contacts never drops it.  ExchangeSurvivesOutage is this with
\* the handler's progress.
THEOREM ExchangesGoOn ==
    InfoSpec => [][\A r \in Request : exchange[r].pc # "idle" =>
                     /\ tokens \subseteq tokens'
                     /\ \/ exchange'[r] = exchange[r]
                        \/ /\ exchange[r].pc = "consumed" /\ exchange'[r].pc = "looked up"
                           /\ exchange'[r].client = exchange[r].client
                           /\ exchange'[r].scope = exchange[r].scope
                        \/ exchange[r].pc = "looked up" /\ Served(r)]_infoVars
<1> DEFINE Goes(r) == /\ tokens \subseteq tokens'
                      /\ \/ exchange'[r] = exchange[r]
                         \/ /\ exchange[r].pc = "consumed" /\ exchange'[r].pc = "looked up"
                            /\ exchange'[r].client = exchange[r].client
                            /\ exchange'[r].scope = exchange[r].scope
                         \/ exchange[r].pc = "looked up" /\ Served(r)
<1>1. ToldInv /\ [InfoNext]_infoVars => \A r \in Request : exchange[r].pc # "idle" => Goes(r)
  <2> SUFFICES ASSUME ToldInv, [InfoNext]_infoVars, NEW r \in Request, exchange[r].pc # "idle"
               PROVE  Goes(r)
    OBVIOUS
  <2>0. DOMAIN exchange = Request
    BY DEF ToldInv
  <2>1. ASSUME NEW q \in Request, NEW cl \in Client, NEW sc \in SUBSET Scope, Consumed(q, cl, sc)
        PROVE  Goes(r)
    BY <2>0, <2>1 DEF Consumed
  <2>2. ASSUME NEW q \in Request, Lookup(q) PROVE Goes(r)
    <3>1. CASE q = r
      <4>1. exchange[r] \in [pc : {"idle", "consumed", "looked up"},
                             client : Client \cup {None}, scope : SUBSET Scope, email : BOOLEAN]
        BY DEF ToldInv
      <4>2. /\ AfterLookup(r).pc = "looked up" /\ AfterLookup(r).client = exchange[r].client
            /\ AfterLookup(r).scope = exchange[r].scope
        BY <4>1 DEF AfterLookup
      <4> QED
        BY <2>0, <2>2, <3>1, <4>2 DEF Lookup
    <3> QED
      BY <2>0, <2>2, <3>1 DEF Lookup
  <2>3. ASSUME NEW q \in Request, Mint(q) PROVE Goes(r)
    <3>1. CASE q = r
      <4>1. tokens' = tokens \cup {AccessToken(r), IDToken(r)} /\ exchange[r].pc = "looked up"
        BY <2>3, <3>1 DEF Mint
      <4>2. AccessToken(r).kind = "session" /\ AccessToken(r).asked = exchange[r].scope
        BY DEF AccessToken
      <4>3. /\ IDToken(r).kind = "id" /\ IDToken(r).aud = exchange[r].client
            /\ IDToken(r).asked = exchange[r].scope
        BY DEF IDToken
      <4> QED
        BY <4>1, <4>2, <4>3 DEF Served
    <3> QED
      BY <2>0, <2>3, <3>1 DEF Mint
  <2>4. ASSUME NEW class \in {"human", "agent"}, MintElsewhere(class) PROVE Goes(r)
    BY <2>4 DEF MintElsewhere
  <2>5. ASSUME NEW t \in tokens, Userinfo(t) PROVE Goes(r)
    BY <2>5 DEF Userinfo
  <2>6. CASE ContactsChange
    BY <2>6 DEF ContactsChange
  <2>7. CASE UNCHANGED infoVars
    BY <2>7 DEF infoVars
  <2> QED
    BY <2>1, <2>2, <2>3, <2>4, <2>5, <2>6, <2>7 DEF InfoNext
<1> QED
  BY <1>1, InfoCorrect, PTL DEF InfoSpec
============================================================================
