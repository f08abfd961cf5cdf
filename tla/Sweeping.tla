------------------------------ MODULE Sweeping ------------------------------
(***************************************************************************)
(* The memory of the unauthenticated endpoints: the ceremonyStore of       *)
(* pending WebAuthn ceremonies behind ceremonyLimiter (module RateLimiter, *)
(* whose keys are addresses here), and main's two background goroutines    *)
(* that sweep both.                                                        *)
(***************************************************************************)
EXTENDS RateLimiter, FiniteSets

CONSTANTS
    Disco,          \* ids of discoverable logins; the code draws fresh ones
    Contact,        \* contacts with a passkey (explicit logins)
    Invite,         \* token hashes of valid invites
    Request,        \* begin requests that may be in progress at once
    MaxDelay,       \* how long a prompt begin takes from Allow to its put
    TTL,            \* challengeTTL, also the period of the ceremony sweep
    CleanupInterval \* rateLimiterCleanupInterval

ASSUME SweepingAssumption ==
    /\ Disco \cap Contact = {} /\ (Disco \cup Contact) \cap Invite = {}
    /\ TTL \in Nat \ {0} /\ CleanupInterval \in Nat \ {0}
    /\ TTL <= Window    \* both are a minute in the code
    /\ Request \cap (Disco \cup Contact \cup Invite) = {}
    /\ MaxDelay \in Nat /\ MaxDelay <= Window

VARIABLES
    begun,          \* the requests let through by Allow that have not put yet
    pending,        \* cs.entries and cs.enrol; by and since are history
    ceremonySweep,  \* when the ceremony ticker fires next
    limiterSweep    \* when the limiter ticker does

tickers == <<ceremonySweep, limiterSweep>>

Login == Disco \cup Contact     \* the keys of cs.entries
Ceremony == Login \cup Invite   \* and those of cs.enrol
NoRequest == [by |-> NoKey, at |-> 0]
None == [by |-> NoKey, since |-> 0, expiresAt |-> 0]

Present(c) == pending[c] # None

\* "now.After(e.expiresAt)"
Expired(c) == Present(c) /\ now > pending[c].expiresAt

----------------------------------------------------------------------------
(* Requests                                                                *)

\* The first thing /auth/login/begin and /enrol/begin do.  The handler goes on
\* to read the body, the database and lucos_contacts, for as long as that takes.
BeginAllowed(k, r) ==
    /\ begun[r] = NoRequest
    /\ Allow(k) /\ decision'.ok
    /\ begun' = [begun EXCEPT ![r] = [by |-> k, at |-> now]]
    /\ UNCHANGED <<pending, tickers>>

\* Over the limit: 429.
BeginRefused(k) ==
    /\ Allow(k) /\ ~decision'.ok
    /\ UNCHANGED <<begun, pending, tickers>>

\* put and putEnrol: the entry is stored, then the map it is in, and only
\* that one, is cleared of expired entries.
Put(r, c) ==
    LET own == IF c \in Login THEN Login ELSE Invite IN
    pending' = [d \in Ceremony |->
                  IF d = c THEN [by |-> begun[r].by, since |-> begun[r].at,
                                 expiresAt |-> now + TTL]
                  ELSE IF d \in own /\ Expired(d) THEN None ELSE pending[d]]

\* The end of a begin that goes well.  A key that is in use is overwritten, a
\* discoverable login has a new one.
BeginPut(r, c) ==
    /\ begun[r] # NoRequest
    /\ c \in Disco => ~Present(c)
    /\ Put(r, c)
    /\ begun' = [begun EXCEPT ![r] = NoRequest]
    /\ UNCHANGED <<vars, tickers>>

\* The end of one that stops short: a bad body, an unknown contact or invite, a
\* failure of the database or the WebAuthn library.  It has counted.
BeginStops(r) ==
    /\ begun[r] # NoRequest
    /\ begun' = [begun EXCEPT ![r] = NoRequest]
    /\ UNCHANGED <<vars, pending, tickers>>

\* take and takeEnrol, of finish requests: expired or not, the entry goes.
Take(c) ==
    /\ Present(c)
    /\ pending' = [pending EXCEPT ![c] = None]
    /\ UNCHANGED <<vars, begun, tickers>>

----------------------------------------------------------------------------
(* The goroutines.  They run within the time unit their ticker fires in.   *)

\* Bugs: the other map is forgotten; the ticker never clears anything.
SweptLoginOnly == {c \in Login : Expired(c)}
SweptNever == {}

Swept == {c \in Ceremony : Expired(c)}

\* cs.sweepExpired
SweepCeremonies ==
    /\ now = ceremonySweep
    /\ pending' = [c \in Ceremony |-> IF c \in Swept THEN None ELSE pending[c]]
    /\ ceremonySweep' = now + TTL
    /\ UNCHANGED <<vars, begun, limiterSweep>>

\* keyedLimiter.sweepExpired
SweepLimiter ==
    /\ now = limiterSweep
    /\ SweepExpired
    /\ limiterSweep' = now + CleanupInterval
    /\ UNCHANGED <<begun, pending, ceremonySweep>>

TimePasses ==
    /\ now < ceremonySweep /\ now < limiterSweep
    /\ Tick
    /\ UNCHANGED <<begun, pending, tickers>>

----------------------------------------------------------------------------

\* A restart loses the requests, both maps and the limiter, and starts the
\* tickers anew.
RestartAll ==
    /\ Restart
    /\ begun' = [r \in Request |-> NoRequest]
    /\ pending' = [c \in Ceremony |-> None]
    /\ ceremonySweep' = now + TTL /\ limiterSweep' = now + CleanupInterval

SweepingInit ==
    /\ Init
    /\ begun = [r \in Request |-> NoRequest]
    /\ pending = [c \in Ceremony |-> None]
    /\ ceremonySweep = now + TTL /\ limiterSweep = now + CleanupInterval

SweepingNext ==
    \/ \E k \in Key : (\E r \in Request : BeginAllowed(k, r)) \/ BeginRefused(k)
    \/ \E r \in Request : (\E c \in Ceremony : BeginPut(r, c)) \/ BeginStops(r)
    \/ \E c \in Ceremony : Take(c)
    \/ SweepCeremonies \/ SweepLimiter \/ TimePasses \/ RestartAll

sweepingVars == <<vars, begun, pending, tickers>>

SweepingSpec == SweepingInit /\ [][SweepingNext]_sweepingVars

----------------------------------------------------------------------------
(* Properties.                                                             *)

\* The ceremonies of address k whose begin took no longer than MaxDelay.
PromptlyBegun(k) ==
    {c \in Ceremony : pending[c].by = k /\ pending[c].expiresAt <= pending[c].since + MaxDelay + TTL}

\* However the begin requests of one address are spread over the two maps, and
\* although each stores its ceremony some time after it was counted, the limiter
\* and the ticker together keep less than four windows' worth of its ceremonies
\* in memory: late ones of one window, all of the next two, and the start of a
\* fourth that comes before the sweep.  The request that opened the first is
\* always gone by then.  (TTL and MaxDelay are at most a window.)
PendingBounded == \A k \in Key : Cardinality(PromptlyBegun(k)) < 4 * Limit

\* "Memory is reclaimed even when no new ceremonies are started": an entry of
\* either map is gone one period of the ticker after its expiry, and an address
\* leaves the limiter, or has come back, within a period of its window's end,
\* whatever requests do or do not come.
ExpiredLeave ==
    /\ \A c \in Ceremony : Present(c) => now <= pending[c].expiresAt + TTL
    /\ \A k \in Key : entries[k].count > 0 =>
          now <= entries[k].windowStart + Window + CleanupInterval

============================================================================
