# lucos_aithne in TLA+

`lucos_aithne` is the identity provider of the lucOS estate: humans log in with
passkeys, agents with machine keys, and both get short-lived ES256 session
tokens whose scopes come from grants that administrators make. Other services
verify the tokens locally against a published key set, and a few use the OIDC
authorization-code flow. One Go process serves HTTP; one SQLite file, opened
with a single connection, holds everything that survives a restart.

This directory models that program, model-checks it on small instances with
TLC and proves the safety properties for all instances with TLAPS.
`PROJECT.json` is the index: components, runs, the map from definitions to source
lines, mutants, hazards, findings and theorems.

## Inventory

| Component | State | Operations | What is hard | What makes it correct |
|---|---|---|---|---|
| Signing keys (`store/signing_key.go`) | `signing_keys` rows: status, times, sealed blob | get-or-create, rotate, age check, list for verification, migrate, re-key | get-or-create is two calls; signing happens after the key was fetched; migration is not transactional; the operator may pass a wrong KEK | one active key; a token is verifiable for its whole life; rows always share a KEK |
| Tokens and JWKS (`token/token.go`) | none in the server; copies of the key set at consumers | mint, parse, publish; cookies | stale copies; lifetimes against windows; cookie paths | a refresh always cures an unknown key id; retired keys leave |
| OIDC code flow (`oidc.go`, `store/oidc.go`) | `oidc_clients`, `oidc_auth_codes` | authorize, exchange, userinfo | concurrent exchanges of one code; checks repeated later; a crash after consumption | one answer per code, in time, with the scopes asked for; a refused request consumes nothing |
| Enrolment (`enrolment.go`, `store/enrolment_invite.go`) | `enrolment_invites`, `principals`, `credentials`, pending ceremonies in memory | create and revoke an invite, begin, finish | validated at begin, used at finish; finish races revocation; slow calls to lucos_contacts | an invite is spent once; a recovery stays done; late use is bounded |
| Login (`webauthn.go`) | pending ceremonies in memory, sign counts | begin (explicit, discoverable), finish | a challenge presented twice; lost update of the sign count; passkey revoked during a login | one session per challenge |
| IdP sessions (`remint.go`, `store/store.go`, `main.go`) | `idp_sessions`, browser cookies | open, re-mint, logout, bulk revocation | requests in flight during a revocation; re-enrolment leaves sessions | no token after expiry or revocation beyond the request in flight; lock-out is final |
| Grants and admin API (`store/grant.go`, `main.go`) | `grants`, scopes inside tokens | authorise, create, revoke, bootstrap at start | power comes from the token, not from the grant; check-then-update | one active grant per scope; lost power ends within a token lifetime |
| Machine keys (`machine_credentials.go`) | `credentials` rows | create, revoke, client_credentials | revocation during a request | a revoked key gives no token |
| Rate limiters (`ratelimit.go`) | map of windows, in memory | allow, sweep | two differently written expiry tests; unaligned windows | sweeping never changes a decision |
| Ceremony store and limiter (`webauthn.go`, `ratelimit.go`) | two maps of pending ceremonies, a map of windows | put, take, two kinds of clean-up, tickers | anybody may begin; clean-up on use covers one map only | what an address can fill is bounded; expired entries leave without new requests |
| Schema migration (`store/store.go`) | tables, indexes, columns | `Open`, statement by statement | no transaction; older files; two processes | `Open` returns with the whole schema, and does in the end |
| OIDC client reconciliation (`main.go`) | `oidc_clients` | filter, skip, upsert per manifest entry | incomplete keys, broken manifests, failing statements, crashes | clients are served as declared, loopback URIs only in development; none is wiped |
| Commands (`main.go`) | SIGNING_KEK in lucos_creds, sealed rows | `--rekey`, `--migrate-kek`, `--bootstrap-invite` | three steps of an operator; quoted values, wrong command, kills | the keys stay openable; exit 0 means the service starts |
| Redirects, CORS, cookies (`redirect.go`, `remint.go`, `token/token.go`) | cookies of browsers | allow-lists, set and clear cookies | URLs in URLs; attributes that must agree; two environments | the user comes back, stays signed in, and stays signed out |
| Userinfo and contacts client (`oidc.go`, `enrolment.go`) | - | look-up, ID-token and userinfo claims | another service that fails; only the token to go by | told as asked; an outage fails no exchange |
| `/_info` (`main.go`) | - | key and key-age checks | thresholds of alarm and rotation | an alarm means that nobody has deployed for long enough |
| Pages, logging, credential JSON | - | rendering, conversion | - | not modelled |

The components interact only through the database, the two in-memory stores and
the tokens: enrolment creates the principals and passkeys that login uses; login
opens the sessions that re-minting uses; minting reads grants and the signing
key; the admin API is authorised by minted tokens; the code flow is entered with
a session token. Browsers connect them too: cookies and redirects carry a user from
a page to login and back, and a page's calls to the re-mint endpoint keep the session.

## Modules

Every store call, and every transaction, is one atomic step, because SQLite is
opened with one connection; the in-memory stores are guarded by mutexes. A
handler that makes several such calls is several actions, and other requests, a
restart or the clock may come in between. A request that is refused before it has
written anything is simply a step that is not taken (or, where the refusal comes
later, a return to `idle`). Database I/O errors are not modelled: apart from the
ones the code treats as non-fatal they end the request like a crash does.

- `SigningKeys` - the `signing_keys` table column by column, `main` from start to
  `ListenAndServe`, minting handlers, rotation, the maintenance transactions,
  consumers with cached key sets. The private key is abstracted to the KEK that
  opens it (`Plain` for the legacy format).
- `AuthCodes` - `/oauth2/authorize` and the token exchange in its four steps
  (validate, consume, read scopes, answer). The two reads of the validation are one
  step: a client row changes only in a restart, which ends the request.
  `OneTimeCode` is the abstract specification it implements.
- `Enrolment` - invites, ceremonies and the replacing transaction; passkeys are
  named by the invite that enrolled them.
- `Sessions` - login, IdP sessions, re-mint, logout, bulk revocation, passkey
  revocation, re-enrolment. A principal's successive passkeys are numbered (`gen`).
  The authenticator's counter and cookie path matching are external.
- `Grants` - principals, grants, machine keys, tokens as "until when does some
  token of this principal carry this scope", the admin handlers, minting, the
  bootstrap. `AnswerOnly` stands for the read-only handlers and for refusals.
- `RateLimiter` - `keyedLimiter`; `FixedWindow` is the limiter without a memory
  to clean, which it implements.
- `Sweeping` (on `RateLimiter`) - the ceremony store behind its limiter, with both
  tickers. `Allow` and the `put` of a begin are two steps with any delay between them.
  Its steps are steps of the limiter or leave it alone. A goroutine runs
  within the time unit its ticker fires in, so "eventually swept" is a deadline.
- `Navigation` - a browser, its cookies, the page it is at; the two allow-lists over
  parsed URLs (scheme, kind of host, port, kind of path, number of parameters). A re-mint
  is sent with the cookie of that moment, handled (or refused: session revoked or
  expired, no passkey) and answered in separate steps, and does not end when the tab
  moves on; so calls of other tabs are covered, the answers that arrive after a logout
  among them. `OnServer` is what `Sessions` has in detail.
- `Migration` - `store.Open` statement by statement, from every file an earlier
  version or start may have left.
- `ClientReconcile` (on `Migration`) - the server's start: the variables required
  first, `store.Open`, the signing keys (which KEK opens them; `SigningKeys` has the
  rest), `reconcileOIDCClients` entry by entry, the variables required after it and
  `webauthn.New`, then `ListenAndServe`. Every `log.Fatalf` on the way is a step back to
  the start. A maintenance command opens the same file, and deploys and crashes come
  at every point.
- `KEKRotation` - the two commands within the operator's procedure. `SigningKeys`
  shows that all rows share a KEK, so here they are one; what is added is how a KEK
  is derived from a value. The operator's new value is a fresh one, as the runbook has
  it; `--rekey` with the old value as the new one exits with 0 and does nothing
  (main.go:560-563), and is left out.
- `UserInfo` - the token exchange after the code is spent, userinfo, and
  lucos_contacts as a service that fails and changes.
- `KeyHealth` (on `SigningKeys`) - the signing-key checks of `/_info`.
- `SigningKeysProofs` (with `KeyHealth`), `AuthCodesProofs`, `EnrolmentProofs`,
  `SessionsProofs`, `GrantsProofs`, `RateLimiterProofs` (with `Sweeping`), `StartUpProofs`
  (`Migration` and `ClientReconcile`), `EstateProofs` (`Navigation`, `KEKRotation` and
  `UserInfo`, which share no state) - theorems and proofs. `MC*` - instances for TLC.

Variables marked *history* record what a property needs and influence no step.
Definitions introduced by a comment "Bug:" are the mutated forms that
`PROJECT.json` lists; no specification uses them.

## Runs and what they show

| Run | Bounds | Shows |
|---|---|---|
| `signing_keys` (`HealthSpec`) | 3 keys, 2 KEKs, 2 handlers, 1 consumer, margin 1 | `AtMostOneActive`, `PublishedUntilExpiry`, `CacheMissesOnlyNewKeys`, `RetiredKeyEvicted`, `OneKEK`, `ServingReadable`, `AlarmMeansNoDeploy`, `TypeOK` |
| `auth_codes` | 2 codes, 2 clients, 2 concurrent requests, one aithne and one OIDC scope | `SingleUse`, `TokenMatchesCode`, `OnlyValidatedConsumes`, `ImplementsOneTimeCode` |
| `enrolment` | 2 invites for one contact, 2 requests | `SpentOnce`, `RecoveryHolds`, `InviteHasPrincipal`, `UsedSoonAfterExpiry`, `PasskeysChangeWithInvite` |
| `sessions` | 1 principal with up to 2 passkeys, 2 challenges, 2 sessions, 2 requests | `ChallengeOpensOneSession`, `RemintEndsWithSession`, `RevokedPasskeyStopsTokens`, `LockoutIsFinal` |
| `grants` | 1 human, 1 agent, 2 scopes, 2 grants, 1 key, 2 requests | `OneActiveGrant`, `TokensOutliveGrantsByTTL`, `RevokedKeyStopsTokens`, `AdminPowerExpires` |
| `sweeping` (`SweepingSpec`) | 1 address, limit 1, window 2, 5 ceremonies in two maps, 2 requests in progress, periods 2 and 3 | `TwiceTheLimit`, `ImplementsFixedWindow`, `PendingBounded`, `ExpiredLeave` |
| `start_up` (`StartUpSpec`) | server and command, all 12 statements, 2 clients, 2 secrets, 2 KEKs, a variable missing early, late or not at all, 1 deploy, 1 fault; manifests broken, with repeated and with empty entries | `OpenMeansComplete`, `ServedAsDeclared`, `UsableStaysUsable`, `EventuallyServes` |
| `navigation` | 2 users, 3 pages in development and 5 in production (the apex too), 1 re-mint at a time, 1 expiry, a login link of every kind | `ComesBack`, `StaysSignedIn`, `SignedOutStaysOut`, `LandsInEstate` |
| `kek_rotation` (`RotationSpec`) | 3 values, 2 kills, unlimited attempts | `KeysStayOpenable` |
| `user_info` (`InfoSpec`) | 1 relying party, 2 codes, every set of scopes | `ToldAsAsked`, `ExchangeSurvivesOutage` |
| `logout_doc` | 1 of each | **violation** of `LogoutRevokesSession` |
| `sign_count_doc` | as `sessions` | **violation** of `StoredCountGrows` |

Two requests are enough for every race in this code, since each handler's
check-then-act pair has two steps that a single other request can separate; two
codes, invites, sessions or grants are enough to confuse one with another.
Lifetimes are one or two clock units and the clock runs until every lifetime
plus every delay has passed, so each expiry happens on time, early and late.
`MaxTime` bounds the clock, `MaxGen` the passkeys of a principal, `MaxCount` the
count of a window, `MaxDeploys`, `MaxFaults`, `MaxKills`,
`MaxExpiries` and `MaxExchanges` the events they name; ids are never reused, so their sets bound how many
rows there can be. `MintDelay`, `MaxDelay` and `MaxRequest` are not bounds of the
model but assumptions: a handler finishes within them. The properties' slack is
stated in terms of them. Symmetry is used where the ids are interchangeable and
only invariants and action properties are checked; `auth_codes` permutes
requests and `sweeping` ceremonies, which their refinement mappings do not mention.
`PendingBounded` says that an address has fewer than four times `Limit` ceremonies
pending that were stored within `MaxDelay` of being counted. Slower requests are in the
model and not in the bound: a look-up at lucos_contacts ends after 10 s, but the server
sets no timeout on reading a body, so `MaxDelay <= Window` is an assumption about them.
With `Limit = 1` the bound is reached up to its last ceremony, and without the ticker it
is broken; larger limits are covered by the theorem. In `start_up` the first KEK is
fixed, and in `navigation` which of the two users is the administrator, since the
choice makes no difference. The limiter's windows belong to single addresses, so one address shows what
there is to show; a restart is visible in the abstract limiter (it forgets its last
decision), so that an early sweep cannot pass for one.
`AlarmMeansNoDeploy` leaves `MaxAge` out of the bound on purpose: a process may
begin to serve with a key that is just short of it.
Deadlock checking is off in the `signing_keys` run, where key ids run out and the
clock stops, and in `start_up`, which ends when the service serves, or cannot start for want of
a variable, and the deploys and faults are spent.

Every module states the types of its variables in `TypeOK` (`RotationTypeOK`,
`InfoTypeOK`). They are theorems: by themselves for `SigningKeys`, `AuthCodes`, `RateLimiter`,
`ClientReconcile` (`StartUpTypes`), `Navigation` (`BrowserTypes`) and `UserInfo`
(`InfoTypes`), as part of an inductive invariant for the other modules. The run
`signing_keys` checks them for the module on which two others build.

### Fairness

Fairness is assumed of the following, and of nothing else; it is weak except where
stated.

- `ClientReconcile` (with `Migration`): a start, and each step of `main` up to
  `ListenAndServe`. The container has `restart: always`, `main` waits for nothing,
  and an operator repeats a command that failed. Crashes and faults are bounded,
  since a service that crashes for ever never serves.
- `UserInfo`: the two remaining steps of an exchange. lucos_contacts need not answer:
  the client's timeout of 10 s turns silence into an error.
- `Navigation`: a request is answered, a user who is asked to log in does so, the
  navigation bar of a page calls `/auth/remint` again and again (external), and the
  handler, which waits for nothing but the database, handles a call. Strong
  fairness of the arrival of its answer: not every answer is lost for ever.

The other components wait for nothing: a request ends or its client tries again, and
no liveness is claimed of them.

### Disagreements between the code and what is said of it

Two are shown by a run:

- **Logout** (`logout_doc`). `handleLogout` promises to revoke the server-side IdP
  session, but `SetIDPSessionCookie` gives the cookie the path `/auth/remint`, so
  browsers do not send it to `/auth/logout`: the row stays active until it
  expires.
- **Sign count** (`sign_count_doc`). Read, compare and write are separate calls
  and the write is unconditional; two concurrent logins may store the smaller
  count.

Others were met while modelling. The models contain the behaviour, and no property
of this project claims the opposite:

- *Rotation.* The incident runbook says that after `POST /admin/rotate-signing-key`
  every session is immediately invalidated, and two lines earlier that the old key
  stays published for 30 minutes; the latter is what the code does
  (`PublishedUntilExpiry`).
- *Double revocation.* `RevokeGrant` is documented to refuse an already revoked grant;
  of two concurrent revocations (`RevokeGrantRead`, `RevokeGrantWrite`) both succeed and
  the second overwrites `revoked_by`. The grant ends up revoked all the same.
- *Rotated client secret.* ADR-0004 says that the old secret stops validating at the
  next redeploy; a client that is skipped because all its redirect URIs are filtered
  out keeps its row, secret included (the first case of `ServedAsDeclared`).
- *Coming back to an admin page.* The target is put into the login URL unescaped
  (`UpToAmpersand`), so parameters after the first are lost; `handleAuthorize` escapes
  it. `ComesBack` leaves those pages out. (An escaped value in the one parameter that is
  left would be read unescaped, too; values are not modelled.)
- *Login without an IdP session.* If the session row cannot be created the login goes
  on, with the long-lived cookie of whoever used the browser before; the next re-mint
  signs that user in. `SignedOutStaysOut` bounds this by the last logout.
- *Logout and re-mints.* A re-mint that was on its way at a logout, from another tab,
  brings the session cookie back when its answer arrives. `SignedOutStaysOut` says that
  nothing else does, and that such a session cannot be renewed.
- *The apex.* The cookie's domain and the redirect allow-list cover `https://l42.eu`
  itself, the CORS expression asks for a label before it, so a page there is never
  re-minted. `ComesBack` includes it, `StaysSignedIn` leaves it out.
- *Targets without a host.* The comment on `isAllowedRedirect` says that everything but
  bare paths and hosts of the estate is rejected. A target in which `url.Parse` finds
  no host is accepted by its path alone, whatever its scheme, and a browser finds a
  host in some of these (`Misread`). `LandsInEstate` excepts a host read so, and a scheme
  that has none: it says that the allow-list decides rightly about the hosts it sees,
  and not that every target it accepts is safe.
- *Exit status of the KEK commands.* Killed between commit and exit, a command reports
  failure with the store re-sealed, although the runbook says that it is unchanged.
  `KeysStayOpenable` shows that nothing is lost as long as the new value is kept.

`RevokedPasskeyStopsTokens` also contradicts, in the safe direction, the runbook's
"A credential revocation alone does not stop re-mints": `handleReMint` refuses a
principal without an active passkey. And `LockoutIsFinal` needs the order passkey
first, requests in flight run out, then sessions; the runbook revokes the
sessions first, which leaves a login in between with a session of its own.

## Proofs

Each theorem holds for all values of the constants that satisfy the named
assumptions of its module.

**SigningKeys.** `AtMostOneActive` is not inductive: a process at `generate` is
about to insert an active key. `ControlInv` adds that a process is there only if
it is `main` before serving and no key is active, which holds because after `main`
has passed that point some key is always active, so no handler ever reaches
the INSERT. `SealInv` says that what `main` has queued, and
has already accepted, is plain or sealed under `kek`; it gives `OneKEK` and
`ServingReadable`. `TimeInv` relates a token, its key and the key's retirement: a
held key was active when it was fetched, hence a token's `iat` is at most
`retired_at + MintDelay`; with `Window >= TTL + CacheTTL + MintDelay`
(`WindowAssumption`, the relation the comment on `VerificationWindow` asks for) every
unexpired token's key is inside the window. `CacheInv` carries this to
consumers' copies.

**AuthCodes.** `OwnerInv`: a consumed code has at most one request past its
consumption, and has been answered only if it has none; `SingleUse` follows, and so
does `ConsumedInTime`, which no run repeats. `TokenInv` carries the client and the
scopes of requests in flight on from the check that compared them. For
the refinement the stage of a code is computed from its row, the clock and
`answered`; lemmas `Invisible` and `OneMoves` say which steps are stutters and
which move one code, and a clock tick is the abstract `Expire`.

**Enrolment.** `IInv` is the type invariant with the facts that tie a request's
local data to its control point. `TallyInv` counts each invite's uses and
revocations against its state, `OwnInv` keeps contact and principal consistent
through request, ceremony and invite, `HeldInv` says that the passkeys of a contact are
of its latest enrolment, `LateInv` bounds the chain begin check, put,
take, replace by `ChallengeTTL + 2 * MaxDelay`.

**Grants.** `OneActiveGrant` is inductive over `IInv` (types, and what rows and
requests refer to). The bounds on lost power need `PowerInv`: a request about to
mint has scopes that were held at some time since it began, a request that
administers began before a token of a former holder ran out, and every token
ends within `MaxRequest + SessionTTL` of the last time its scope was held. It is
stated over a table H of those times: `HeldGrows` shows that no step takes one back,
`PowerSteps` that every step keeps the bound when none is taken back.
`TokensOutliveGrantsByTTL` and, with `TimeInv` (no request runs longer than
`MaxRequest`), `AdminPowerExpires` follow. `KeyInv` says that a request a machine
key authenticated began before the key was revoked.

**RateLimiter and Sweeping.** The limiter implements `FixedWindow` under the mapping that
hides every entry the next `Allow` would discard: a sweep is a stutter, because an
entry it deletes is already hidden. `SweepingRefinesLimiter` shows that the composition
with the ceremony store takes only steps of the limiter, so all of this holds of it.

`TwiceTheLimit` speaks of the sequence of requests let through, each with the window
it was counted in, and says that a request and the `2 * Limit`-th after it are more
than a window apart. Stated so it needs no sum: `Stepwise` says that of `Limit + 1`
requests in a row the last is in a later window than the first, and starts after that
one was over; two such steps cover `2 * Limit` requests, and further ones (`Spread`) the
`4 * Limit - 1` of `PendingBounded`. `HistoryInv` ties the
sequence to the counter: all but the last `count` requests are of windows that were
over before the present one.

`ExpiredLeave` needs `SweepInv`: each ticker fires within its period, and its next
firing comes before the deadline of every entry in its map. A sweep spares an entry
only if the entry's lifetime, and with it the deadline, reaches past the next firing.
For `PendingBounded`, `BegunInv` says that distinct ceremonies of an address can be
traced to distinct requests that were let through. By `ExpiredLeave` the ceremonies in
memory were stored within `2 * TTL` (a lifetime and a period of the ticker), the prompt
ones counted within `2 * TTL + MaxDelay`, and by `Spread` those requests are among the
last `4 * Limit - 1` of the address (`RecentOnly`); the bound is then a fact about
injections between finite sets. This uses `TTL <= Window` (both are a minute in the
code) and `MaxDelay <= Window` (`SweepingAssumption`).

**KeyHealth.** `HealthRefinesKeys` carries the theorems of `SigningKeys` over. For
`AlarmMeansNoDeploy`, `AgeInv` says that the key active in a serving process was
at most `MaxAge` old when it began to serve, or made later; this needs that the key
`main` holds at its age check is the active one, and that there is only one
(`ControlInv`).

**Sessions.** `IInv` (types, and what rows and requests refer to) and `TimeInv` (no
request runs longer than `MaxRequest`) carry the rest. `ChallengeInv`: a challenge is
pending, or with one request, or in one session, and only moves in that order.
`MintInv` and `SeenInv`: a re-mint that has read its session's row, and a request that
has seen its passkey active, began before the row or the passkey was revoked, so its
token comes at most `MaxRequest` after. `LockInv` is what makes a lock-out final: a
login under way that is past its check of the passkey uses one newer than those
locked out, because a bulk revocation only counts as a lock-out when `MaxRequest` has
gone by since the passkey ended.

**Migration and ClientReconcile.** `MigrationInv`: a process that has got to a
statement finds the objects of all earlier ones in the file. `OpenMeansComplete`
follows, and so does `OpenNeverRefused`: no statement of `store.Open` fails but by a crash
or a lock, which is the safety half of `EventuallyServes`. `LoopInv` is the invariant of
the loop over the manifest: after `n` entries a client whose last upsert did not fail
has the row of the last deciding entry among those `n`, or the row it had when the
start began. `SkippedIsUndecided` shows that the loop passes over exactly the entries
that do not decide, the property being stated apart from the code's two tests. That
`Max` of a set of positions is its largest element is proved from the
well-foundedness of the naturals. `UsableStaysUsable` follows from `ReconcileInv`: an upsert
writes no empty set of URIs unless its entry has none.

**Navigation, KEKRotation, UserInfo.** `JarInv`: every cookie in the jar has the name,
domain and path that a logout clears, and is of a user who has logged in since (or a
session that a late re-mint brought); and a re-mint on its way is of such a user or was
sent before the logout. With other attributes the long-lived cookie would survive a
logout. `PlaceInv` says where the browser is after the allow-list and the resolution of
the target.
`RotationInv` says for each place of a command, and of the container, under which
value the rows are sealed. `ToldInv`: a token's OIDC scopes are among those asked for, and
only ID tokens have a client for their audience, so the check of the audience
keeps them out of userinfo. `ExchangesGoOn` is the safety half of
`ExchangeSurvivesOutage`: an exchange past its code only moves forward, to both tokens.

What the proofs assume of the constants is in the named assumptions: timing
(`WindowAssumption`, `TimingAssumption`, `SweepingAssumption`), that the values standing for
"none" are no members of the sets they are added to, that pages a user wants are pages
of the estate (`GoalAssumption`), and that the bounds are natural numbers.

Only model-checked: the liveness properties `EventuallyServes`, `ComesBack`,
`StaysSignedIn` and `ExchangeSurvivesOutage` (temporal proofs under fairness are out of the
prover's reach), and the two runs that expect a violation. Every other property of a
run is a theorem.

## Plan

1. *Done*: the modules above, checked, and every safety property of a passing run proved.
2. Left: the action-level facts behind `ComesBack` and `StaysSignedIn`, as
   `OpenNeverRefused` and `ExchangesGoOn` are for the other two liveness properties: a page that
   was asked for stays the target until it is reached.

## Not modelled

- The WebAuthn protocol and JWT cryptography: libraries; a response verifies or not,
  a signature is right or wrong.
- HTML pages, error pages, the request log, static files, the JSON of stored
  credentials: rendering and conversion without a state or a decision that a
  property could be about.
- `DeletePrincipal`, `DeleteCredential`, `DeleteOIDCClient`, `CreateOIDCClient`: no caller
  in the server.
- The read-only lists (`listAgents`, `listHumanPrincipals`, `handleAdminContacts`), the
  discovery document, `--healthcheck`.
- `clientIP`: one header or one address, given by the router.
- Database I/O errors, except where the code treats them as non-fatal (the IdP
  session of a login, the upsert of a client).
