---------------------------- MODULE SigningKeys ----------------------------
(***************************************************************************)
(* The life cycle of lucos_aithne's ES256 signing keys.                    *)
(*                                                                         *)
(* The signing_keys table is held column by column.  One server process    *)
(* boots (main), migrates legacy rows, makes sure an active key exists,    *)
(* rotates it when it is too old, and then serves.  Minting handlers fetch *)
(* the active key in one database call and sign in a later step, so a      *)
(* rotation may come in between.  Consumers verify tokens locally against  *)
(* a cached copy of the published key set.  The maintenance subcommands    *)
(* re-encrypt the table while the server is stopped.                       *)
(*                                                                         *)
(* SQLite runs with one connection: every store call, and every            *)
(* transaction, is one atomic step; a crash may fall between any two.      *)
(***************************************************************************)
EXTENDS Integers, FiniteSets

CONSTANTS
    Key,          \* key ids (UUIDs); an id is used at most once
    KEK,          \* key-encryption keys, after derivation from SIGNING_KEK
    Plain,        \* the private_key column of a legacy row: raw PKCS8 DER
    Handler,      \* concurrent token-minting HTTP requests
    Main,         \* the goroutine that runs main()
    NoKey,        \* "this process holds no key"
    Consumer,     \* services that verify tokens locally
    TTL,          \* token.DefaultSessionTTL
    Window,       \* token.VerificationWindow
    CacheTTL,     \* max-age of the JWKS response
    MintDelay,    \* longest time between fetching the key and signing with it
    MaxAge,       \* signingKeyRotationInterval
    MaxTime       \* bound on the clock

ASSUME TimingAssumption ==
    /\ TTL \in Nat \ {0} /\ Window \in Nat /\ CacheTTL \in Nat
    /\ MintDelay \in Nat /\ MaxAge \in Nat /\ MaxTime \in Nat

\* The relation token.go demands of the constant: the part of the headroom
\* that the server itself uses up is the time a handler holds a fetched key.
ASSUME WindowAssumption == Window >= TTL + CacheTTL + MintDelay

ASSUME NameAssumption == Plain \notin KEK /\ Main \notin Handler /\ NoKey \notin Key

VARIABLES
    now,          \* wall clock, in units of the stored time stamps' resolution
    status,       \* signing_keys.status; "none" when there is no such row
    created_at,
    retired_at,
    private_key,  \* the KEK the blob is sealed under, or Plain
    kek,          \* the KEK the process derives from SIGNING_KEK
    pc,           \* control point of main and of every handler
    held,         \* the signing key a process has fetched
    heldAt,       \* when it fetched it
    toMigrate,    \* rows MigrateSigningKeyEncryption has queued
    tokens,       \* unexpired tokens in circulation
    cache         \* each consumer's copy of the JWKS

rows == <<status, created_at, retired_at, private_key>>
vars == <<now, status, created_at, retired_at, private_key, kek, pc, held,
          heldAt, toMigrate, tokens, cache>>

Proc == Handler \cup {Main}
Time == 0 .. MaxTime
Token == [kid : Key, iat : Time]
JWKS == [kids : SUBSET Key, at : Time]

TypeOK ==
    /\ now \in Time
    /\ status \in [Key -> {"none", "active", "retired"}]
    /\ created_at \in [Key -> Time]
    /\ retired_at \in [Key -> Time]
    /\ private_key \in [Key -> KEK \cup {Plain}]
    /\ kek \in KEK
    /\ pc \in [Proc -> {"down", "migrate", "update", "get", "generate",
                        "have", "serving", "idle"}]
    /\ held \in [Proc -> Key \cup {NoKey}]
    /\ \A p \in Proc : pc[p] = "have" => held[p] \in Key
    /\ heldAt \in [Proc -> Time]
    /\ toMigrate \in SUBSET Key
    /\ tokens \in SUBSET Token
    /\ cache \in [Consumer -> JWKS]

----------------------------------------------------------------------------
(* The table and the published key set.                                    *)

Row == {k \in Key : status[k] # "none"}
Unused == Key \ Row
Active == {k \in Key : status[k] = "active"}

\* decryptKeyDER: AES-GCM opens a blob only under the KEK that sealed it.
Decrypts(K, k) == private_key[k] = K

\* Bugs: the window counts the token's lifetime only, or the clause is missing.
WithinTTL(k, t) == retired_at[k] > t - TTL
WithinAnyTime(k, t) == TRUE

\* The cut-off of ListVerificationKeys at time t.
WithinWindow(k, t) == retired_at[k] >= t - Window

\* ListVerificationKeys: the active key and the recently retired ones.
ListVerificationKeys(t) ==
    Active \cup {k \in Key : status[k] = "retired" /\ WithinWindow(k, t)}

\* The row that generateSigningKeyWith inserts.
InsertActive(k) ==
    /\ k \in Unused
    /\ created_at' = [created_at EXCEPT ![k] = now]
    /\ private_key' = [private_key EXCEPT ![k] = kek]

Serving == pc[Main] = "serving"

----------------------------------------------------------------------------
(* Minting: GetOrCreateActiveSigningKey, then MintSession.                 *)

\* A handler that needs the key, or main before it starts to listen.
AboutToGet(p) == IF p = Main THEN pc[Main] = "get" ELSE Serving /\ pc[p] = "idle"

\* The SELECT of GetOrCreateActiveSigningKey.  A row that does not decrypt is
\* an error and changes nothing.
GetActive(p) ==
    /\ AboutToGet(p)
    /\ \/ \E k \in Active :
            /\ Decrypts(kek, k)
            /\ held' = [held EXCEPT ![p] = k]
            /\ heldAt' = [heldAt EXCEPT ![p] = now]
            /\ pc' = [pc EXCEPT ![p] = "have"]
       \/ /\ Active = {}
          /\ pc' = [pc EXCEPT ![p] = "generate"]
          /\ UNCHANGED <<held, heldAt>>
    /\ UNCHANGED <<now, rows, kek, toMigrate, tokens, cache>>

\* The INSERT of GetOrCreateActiveSigningKey, a later database call.
Generate(p) ==
    /\ pc[p] = "generate"
    /\ \E k \in Unused :
          /\ InsertActive(k)
          /\ status' = [status EXCEPT ![k] = "active"]
          /\ held' = [held EXCEPT ![p] = k]
          /\ heldAt' = [heldAt EXCEPT ![p] = now]
    /\ pc' = [pc EXCEPT ![p] = "have"]
    /\ UNCHANGED <<now, retired_at, kek, toMigrate, tokens, cache>>

\* MintSession and MintIDToken: sign with the key fetched earlier.
MintSession(h) ==
    /\ pc[h] = "have"
    /\ tokens' = tokens \cup {[kid |-> held[h], iat |-> now]}
    /\ pc' = [pc EXCEPT ![h] = "idle"]
    /\ held' = [held EXCEPT ![h] = NoKey]
    /\ heldAt' = [heldAt EXCEPT ![h] = 0]
    /\ UNCHANGED <<now, rows, kek, toMigrate, cache>>

----------------------------------------------------------------------------
(* Rotation.                                                               *)

\* Bugs: the UPDATE is left out, or stores the end of the window.
RetiredByNone(k) == {}
RetirementLate == now + Window

\* The rows the UPDATE of RotateSigningKey retires, and the time it stores.
RetiredBy(k) == Active \ {k}
Retirement == now

\* RotateSigningKey: one transaction inserts the new key and retires every
\* other active one.
RotateSigningKey(k) ==
    /\ InsertActive(k)
    /\ status' = [x \in Key |-> IF x = k THEN "active"
                                ELSE IF x \in RetiredBy(k) THEN "retired"
                                ELSE status[x]]
    /\ retired_at' = [x \in Key |-> IF x \in RetiredBy(k) THEN Retirement ELSE retired_at[x]]

\* POST /admin/rotate-signing-key.
HandleRotateSigningKey ==
    /\ Serving
    /\ \E k \in Unused : RotateSigningKey(k)
    /\ UNCHANGED <<now, kek, pc, held, heldAt, toMigrate, tokens, cache>>

----------------------------------------------------------------------------
(* Start-up and crash.                                                     *)

Start ==
    /\ pc[Main] = "down"
    /\ pc' = [pc EXCEPT ![Main] = "migrate"]
    /\ UNCHANGED <<now, rows, kek, held, heldAt, toMigrate, tokens, cache>>

\* Bugs: any row passes the scan, or only the active legacy row is queued.
RecognisedAny(k) == TRUE
LegacyActive == {k \in Active : private_key[k] = Plain}

\* A row is sealed under the KEK or is plain PKCS8; the plain ones are queued.
Recognised(k) == Decrypts(kek, k) \/ private_key[k] = Plain
Legacy == {k \in Row : private_key[k] = Plain}

\* The read loop of MigrateSigningKeyEncryption: a row that is neither is
\* fatal, before anything is written.
MigrateScan ==
    /\ pc[Main] = "migrate"
    /\ IF \A k \in Row : Recognised(k)
         THEN /\ toMigrate' = Legacy
              /\ pc' = [pc EXCEPT ![Main] = "update"]
         ELSE /\ pc' = [pc EXCEPT ![Main] = "down"]
              /\ UNCHANGED toMigrate
    /\ UNCHANGED <<now, rows, kek, held, heldAt, tokens, cache>>

\* One UPDATE per queued row, outside any transaction.
MigrateUpdate ==
    /\ pc[Main] = "update"
    /\ \E k \in toMigrate :
          /\ private_key' = [private_key EXCEPT ![k] = kek]
          /\ toMigrate' = toMigrate \ {k}
    /\ UNCHANGED <<now, status, created_at, retired_at, kek, pc, held, heldAt,
                   tokens, cache>>

MigrateDone ==
    /\ pc[Main] = "update"
    /\ toMigrate = {}
    /\ pc' = [pc EXCEPT ![Main] = "get"]
    /\ UNCHANGED <<now, rows, kek, held, heldAt, toMigrate, tokens, cache>>

\* RotateSigningKeyIfOlderThan, then ListenAndServe.  Nothing runs beside
\* main here, so its SELECT and its transaction are one step.
AgeCheck ==
    /\ pc[Main] = "have"
    /\ IF now - created_at[held[Main]] <= MaxAge
         THEN UNCHANGED rows
         ELSE \E k \in Unused : RotateSigningKey(k)
    /\ pc' = [pc EXCEPT ![Main] = "serving"]
    /\ held' = [held EXCEPT ![Main] = NoKey]
    /\ heldAt' = [heldAt EXCEPT ![Main] = 0]
    /\ UNCHANGED <<now, kek, toMigrate, tokens, cache>>

\* A crash, a stop or a redeploy: what is in memory is gone.
Crash ==
    /\ pc[Main] # "down"
    /\ pc' = [p \in Proc |-> IF p = Main THEN "down" ELSE "idle"]
    /\ held' = [p \in Proc |-> NoKey]
    /\ heldAt' = [p \in Proc |-> 0]
    /\ toMigrate' = {}
    /\ UNCHANGED <<now, rows, kek, tokens, cache>>

----------------------------------------------------------------------------
(* Maintenance, with the service stopped.                                  *)

\* --rekey and --migrate-kek: RekeySigningKeys opens every row under the old
\* KEK before it writes any, and writes all of them in one transaction.
Rekey(old, new) ==
    /\ pc[Main] = "down"
    /\ old # new
    /\ \A k \in Row : Decrypts(old, k)
    /\ private_key' = [k \in Key |-> IF k \in Row THEN new ELSE private_key[k]]
    /\ UNCHANGED <<now, status, created_at, retired_at, kek, pc, held, heldAt,
                   toMigrate, tokens, cache>>

\* The operator updates SIGNING_KEK, rightly or wrongly, before a deploy.
SetKEK(new) ==
    /\ pc[Main] = "down"
    /\ kek' = new
    /\ UNCHANGED <<now, rows, pc, held, heldAt, toMigrate, tokens, cache>>

----------------------------------------------------------------------------
(* Consumers and time.                                                     *)

\* A consumer fetches /.well-known/jwks.json (JWKSHandler).
FetchJWKS(c) ==
    /\ Serving
    /\ \A k \in ListVerificationKeys(now) : Decrypts(kek, k)
    /\ cache' = [cache EXCEPT ![c] =
                   [kids |-> ListVerificationKeys(now), at |-> now]]
    /\ UNCHANGED <<now, rows, kek, pc, held, heldAt, toMigrate, tokens>>

\* Time passes.  A handler does no I/O between fetching the key and signing,
\* so it never holds a key for longer than MintDelay.
Tick ==
    /\ now < MaxTime
    /\ \A h \in Handler : pc[h] = "have" => now < heldAt[h] + MintDelay
    /\ now' = now + 1
    /\ tokens' = {t \in tokens : now + 1 < t.iat + TTL}
    /\ UNCHANGED <<rows, kek, pc, held, heldAt, toMigrate, cache>>

----------------------------------------------------------------------------

\* "At most one key is active at any time" (signing_key.go, package comment),
\* although GetOrCreateActiveSigningKey selects and inserts in two calls that
\* handlers, rotations and crashes may fall between.
AtMostOneActive == \A j, k \in Active : j = k

\* What an earlier version may have left: an empty table, or one active key and
\* any number of retired ones, each plain PKCS8 or sealed under one KEK.
Init ==
    /\ now = 0
    /\ status \in [Key -> {"none", "active", "retired"}]
    /\ AtMostOneActive
    /\ Row # {} => Active # {}
    /\ created_at = [k \in Key |-> 0]
    /\ retired_at = [k \in Key |-> 0]
    /\ \E e \in KEK : private_key \in [Key -> {e, Plain}]
    /\ \A k \in Unused : private_key[k] = Plain
    /\ kek \in KEK
    /\ pc = [p \in Proc |-> IF p = Main THEN "down" ELSE "idle"]
    /\ held = [p \in Proc |-> NoKey]
    /\ heldAt = [p \in Proc |-> 0]
    /\ toMigrate = {}
    /\ tokens = {}
    /\ cache = [c \in Consumer |-> [kids |-> {}, at |-> 0]]

Next ==
    \/ \E p \in Proc : GetActive(p) \/ Generate(p)
    \/ \E h \in Handler : MintSession(h)
    \/ HandleRotateSigningKey
    \/ Start \/ MigrateScan \/ MigrateUpdate \/ MigrateDone \/ AgeCheck \/ Crash
    \/ \E old, new \in KEK : Rekey(old, new)
    \/ \E new \in KEK : SetKEK(new)
    \/ \E c \in Consumer : FetchJWKS(c)
    \/ Tick

Spec == Init /\ [][Next]_vars

----------------------------------------------------------------------------
(* Properties.                                                             *)

\* A token in circulation can be verified for its whole life: its key is
\* published whatever rotations happened since the key was fetched, also when
\* the token was signed after the key was retired.
PublishedUntilExpiry == \A t \in tokens : t.kid \in ListVerificationKeys(now)

\* A consumer's copy of the JWKS, however old, misses the key of an unexpired
\* token only if that key was made since the copy was fetched: the refresh on
\* an unknown kid always cures it.
CacheMissesOnlyNewKeys ==
    \A c \in Consumer, t \in tokens :
        t.kid \notin cache[c].kids => cache[c].at <= created_at[t.kid]

\* A retired key leaves circulation: no consumer that honours max-age trusts
\* it later than Window + CacheTTL after its retirement.
RetiredKeyEvicted ==
    \A c \in Consumer, k \in Key :
        /\ k \in cache[c].kids
        /\ now <= cache[c].at + CacheTTL
        /\ status[k] = "retired"
        => now <= retired_at[k] + Window + CacheTTL

\* Whatever crashes fall into the row-by-row migration, and whatever KEKs the
\* operator passes to the maintenance commands, all sealed rows stay sealed
\* under one KEK, so that there is a SIGNING_KEK under which the service boots.
OneKEK ==
    \A j, k \in Row :
        private_key[j] # Plain /\ private_key[k] # Plain => private_key[j] = private_key[k]

\* While the service answers requests every row opens under its KEK: no
\* minting or JWKS request can fail on a key (scanSigningKey), and no legacy
\* row has been forgotten.
ServingReadable == Serving => Active # {} /\ \A k \in Row : Decrypts(kek, k)

============================================================================
