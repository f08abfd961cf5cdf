------------------------- MODULE SigningKeysProofs -------------------------
(***************************************************************************)
(* Proofs about SigningKeys, for every number of keys, handlers, consumers *)
(* and KEKs and every choice of the time constants that satisfies          *)
(* WindowAssumption; and about the age check of /_info (module KeyHealth), *)
(* for every rotation interval and margin.                                 *)
(***************************************************************************)
EXTENDS KeyHealth, TLAPS

----------------------------------------------------------------------------
(* The inductive invariant, in four parts.                                 *)

\* Control: handlers run only while main serves, and only main ever finds the
\* table without an active key.
ControlInv ==
    /\ pc[Main] # "idle"
    /\ \A h \in Handler : /\ pc[h] \in {"idle", "have"}
                          /\ pc[h] = "have" => Serving
    /\ pc[Main] = "generate" => Active = {}
    /\ pc[Main] \in {"have", "serving"} => Active # {}
    /\ AtMostOneActive

\* Sealing: once the scan has passed, what is not sealed under kek is queued.
SealInv ==
    /\ OneKEK
    /\ pc[Main] = "update" =>
         \A k \in Row : Decrypts(kek, k) \/ (private_key[k] = Plain /\ k \in toMigrate)
    /\ pc[Main] \in {"get", "generate", "have", "serving"} =>
         \A k \in Row : Decrypts(kek, k)

\* A key that was fetched, or has signed, and was retired since, was retired
\* no earlier than it was fetched and at most MintDelay before it signed.
TimeInv ==
    /\ \A k \in Row : created_at[k] <= now
    /\ \A k \in Key : status[k] = "retired" => retired_at[k] <= now
    /\ \A p \in Proc : pc[p] = "have" =>
         /\ held[p] \in Row
         /\ heldAt[p] <= now
         /\ p \in Handler => now <= heldAt[p] + MintDelay
         /\ status[held[p]] = "retired" => heldAt[p] <= retired_at[held[p]]
    /\ \A t \in tokens :
         /\ t.kid \in Row
         /\ t.iat <= now
         /\ now < t.iat + TTL
         /\ status[t.kid] = "retired" => t.iat <= retired_at[t.kid] + MintDelay

\* The keys that sign now or may still be asked for.
Wanted(k) ==
    \/ k \in Active
    \/ \E h \in Handler : pc[h] = "have" /\ held[h] = k
    \/ \E t \in tokens : t.kid = k

\* Every cached key set is the published one of the moment it was fetched.
CacheInv ==
    \A c \in Consumer :
       /\ cache[c].at <= now
       /\ \A k \in cache[c].kids :
            /\ k \in Row
            /\ status[k] = "retired" => cache[c].at <= retired_at[k] + Window
       /\ \A k \in Key :
            Wanted(k) /\ k \notin cache[c].kids => cache[c].at <= created_at[k]

----------------------------------------------------------------------------

\* Every variable keeps the type its column, clock or local has in the code.
THEOREM TypeCorrect == Spec => []TypeOK
<1>1. Init => TypeOK
  BY TimingAssumption, NameAssumption DEF Init, TypeOK, Time, JWKS, Proc, Token
<1>2. TypeOK /\ [Next]_vars => TypeOK'
  <2> SUFFICES ASSUME TypeOK, [Next]_vars PROVE TypeOK'
    OBVIOUS
  <2> USE TimingAssumption DEF TypeOK, Time, Proc
  <2>1. ASSUME NEW p \in Proc, GetActive(p) PROVE TypeOK'
    BY <2>1 DEF GetActive, rows, Active
  <2>2. ASSUME NEW p \in Proc, Generate(p) PROVE TypeOK'
    BY <2>2 DEF Generate, InsertActive, Unused
  <2>3. ASSUME NEW h \in Handler, MintSession(h) PROVE TypeOK'
    BY <2>3 DEF MintSession, rows, Token
  <2>4. CASE HandleRotateSigningKey
    BY <2>4 DEF HandleRotateSigningKey, RotateSigningKey, RetiredBy, Retirement,
       InsertActive, Unused
  <2>5. CASE Start
    BY <2>5 DEF Start, rows
  <2>6. CASE MigrateScan
    BY <2>6 DEF MigrateScan, Legacy, rows, Row
  <2>7. CASE MigrateUpdate
    BY <2>7 DEF MigrateUpdate
  <2>8. CASE MigrateDone
    BY <2>8 DEF MigrateDone, rows
  <2>9. CASE AgeCheck
    BY <2>9 DEF AgeCheck, RotateSigningKey, RetiredBy, Retirement, InsertActive, Unused, rows
  <2>10. CASE Crash
    BY <2>10 DEF Crash, rows
  <2>11. ASSUME NEW old \in KEK, NEW new \in KEK, Rekey(old, new) PROVE TypeOK'
    BY <2>11 DEF Rekey
  <2>12. ASSUME NEW new \in KEK, SetKEK(new) PROVE TypeOK'
    BY <2>12 DEF SetKEK, rows
  <2>13. ASSUME NEW c \in Consumer, FetchJWKS(c) PROVE TypeOK'
    BY <2>13 DEF FetchJWKS, rows, JWKS, ListVerificationKeys, WithinWindow, Active
  <2>14. CASE Tick
    BY <2>14 DEF Tick, rows
  <2>15. CASE UNCHANGED vars
    BY <2>15 DEF vars
  <2> QED
    BY <2>1, <2>2, <2>3, <2>4, <2>5, <2>6, <2>7, <2>8, <2>9, <2>10, <2>11,
       <2>12, <2>13, <2>14, <2>15 DEF Next
<1> QED
  BY <1>1, <1>2, PTL DEF Spec

\* At most one signing key is active, and a process that serves always finds
\* one, however handlers, rotations and crashes interleave with the two calls
\* of GetOrCreateActiveSigningKey.
LEMMA ControlCorrect == Spec => []ControlInv
<1>1. Init => ControlInv
  BY NameAssumption DEF Init, ControlInv, Serving, Proc
<1>2. TypeOK /\ ControlInv /\ [Next]_vars => ControlInv'
  <2> SUFFICES ASSUME TypeOK, ControlInv, [Next]_vars PROVE ControlInv'
    OBVIOUS
  <2> USE NameAssumption DEF TypeOK, ControlInv, Proc, Serving, Active, AtMostOneActive
  <2>1. ASSUME NEW p \in Proc, GetActive(p) PROVE ControlInv'
    BY <2>1 DEF GetActive, AboutToGet, rows
  <2>2. ASSUME NEW p \in Proc, Generate(p) PROVE ControlInv'
    BY <2>2 DEF Generate, InsertActive, Unused, Row
  <2>3. ASSUME NEW h \in Handler, MintSession(h) PROVE ControlInv'
    BY <2>3 DEF MintSession, rows
  <2>4. CASE HandleRotateSigningKey
    BY <2>4 DEF HandleRotateSigningKey, RotateSigningKey, RetiredBy, Retirement,
       InsertActive, Unused, Row
  <2>5. CASE Start
    BY <2>5 DEF Start, rows
  <2>6. CASE MigrateScan
    BY <2>6 DEF MigrateScan, Recognised, Legacy, rows
  <2>7. CASE MigrateUpdate
    BY <2>7 DEF MigrateUpdate
  <2>8. CASE MigrateDone
    BY <2>8 DEF MigrateDone, rows
  <2>9. CASE AgeCheck
    BY <2>9 DEF AgeCheck, RotateSigningKey, RetiredBy, Retirement, InsertActive, Unused, Row, rows
  <2>10. CASE Crash
    BY <2>10 DEF Crash, rows
  <2>11. ASSUME NEW old \in KEK, NEW new \in KEK, Rekey(old, new) PROVE ControlInv'
    BY <2>11 DEF Rekey
  <2>12. ASSUME NEW new \in KEK, SetKEK(new) PROVE ControlInv'
    BY <2>12 DEF SetKEK, rows
  <2>13. ASSUME NEW c \in Consumer, FetchJWKS(c) PROVE ControlInv'
    BY <2>13 DEF FetchJWKS, rows
  <2>14. CASE Tick
    BY <2>14 DEF Tick, rows
  <2>15. CASE UNCHANGED vars
    BY <2>15 DEF vars
  <2> QED
    BY <2>1, <2>2, <2>3, <2>4, <2>5, <2>6, <2>7, <2>8, <2>9, <2>10, <2>11,
       <2>12, <2>13, <2>14, <2>15 DEF Next
<1> QED
  BY <1>1, <1>2, TypeCorrect, PTL DEF Spec

\* At most one signing key is ever active (signing_key.go package comment).
THEOREM OneActiveKey == Spec => []AtMostOneActive
<1>1. ControlInv => AtMostOneActive
  BY DEF ControlInv
<1> QED
  BY <1>1, ControlCorrect, PTL

\* No crash inside the migration, no wrong KEK and no order of maintenance
\* commands leaves rows sealed under two KEKs.
LEMMA SealCorrect == Spec => []SealInv
<1>1. Init => SealInv
  BY NameAssumption DEF Init, SealInv, OneKEK, Row, Proc
<1>2. TypeOK /\ ControlInv /\ SealInv /\ [Next]_vars => SealInv'
  <2> SUFFICES ASSUME TypeOK, ControlInv, SealInv, [Next]_vars PROVE SealInv'
    OBVIOUS
  <2> USE NameAssumption DEF TypeOK, ControlInv, SealInv, OneKEK, Row, Active, Decrypts,
         Proc, Serving
  <2>1. ASSUME NEW p \in Proc, GetActive(p) PROVE SealInv'
    BY <2>1 DEF GetActive, AboutToGet, rows
  <2>2. ASSUME NEW p \in Proc, Generate(p) PROVE SealInv'
    BY <2>2 DEF Generate, InsertActive, Unused
  <2>3. ASSUME NEW h \in Handler, MintSession(h) PROVE SealInv'
    BY <2>3 DEF MintSession, rows
  <2>4. CASE HandleRotateSigningKey
    BY <2>4 DEF HandleRotateSigningKey, RotateSigningKey, RetiredBy, Retirement,
       InsertActive, Unused
  <2>5. CASE Start
    BY <2>5 DEF Start, rows
  <2>6. CASE MigrateScan
    BY <2>6 DEF MigrateScan, Recognised, Legacy, rows
  <2>7. CASE MigrateUpdate
    BY <2>7 DEF MigrateUpdate
  <2>8. CASE MigrateDone
    BY <2>8 DEF MigrateDone, rows
  <2>9. CASE AgeCheck
    BY <2>9 DEF AgeCheck, RotateSigningKey, RetiredBy, Retirement, InsertActive, Unused, rows
  <2>10. CASE Crash
    BY <2>10 DEF Crash, rows
  <2>11. ASSUME NEW old \in KEK, NEW new \in KEK, Rekey(old, new) PROVE SealInv'
    BY <2>11 DEF Rekey
  <2>12. ASSUME NEW new \in KEK, SetKEK(new) PROVE SealInv'
    BY <2>12 DEF SetKEK, rows
  <2>13. ASSUME NEW c \in Consumer, FetchJWKS(c) PROVE SealInv'
    BY <2>13 DEF FetchJWKS, rows
  <2>14. CASE Tick
    BY <2>14 DEF Tick, rows
  <2>15. CASE UNCHANGED vars
    BY <2>15 DEF vars
  <2> QED
    BY <2>1, <2>2, <2>3, <2>4, <2>5, <2>6, <2>7, <2>8, <2>9, <2>10, <2>11,
       <2>12, <2>13, <2>14, <2>15 DEF Next
<1> QED
  BY <1>1, <1>2, TypeCorrect, ControlCorrect, PTL DEF Spec

\* Keys retire after they are fetched, and tokens are signed soon after that.
LEMMA TimeCorrect == Spec => []TimeInv
<1>1. Init => TimeInv
  BY NameAssumption, TimingAssumption DEF Init, TimeInv, Proc, Row
<1>2. TypeOK /\ ControlInv /\ TimeInv /\ [Next]_vars => TimeInv'
  <2> SUFFICES ASSUME TypeOK, ControlInv, TimeInv, [Next]_vars PROVE TimeInv'
    OBVIOUS
  <2> USE NameAssumption, TimingAssumption DEF TypeOK, ControlInv, TimeInv, Row, Active,
         Proc, Serving, Time, Token
  <2>1. ASSUME NEW p \in Proc, GetActive(p) PROVE TimeInv'
    BY <2>1 DEF GetActive, AboutToGet, rows
  <2>2. ASSUME NEW p \in Proc, Generate(p) PROVE TimeInv'
    BY <2>2 DEF Generate, InsertActive, Unused
  <2>3. ASSUME NEW h \in Handler, MintSession(h) PROVE TimeInv'
    BY <2>3 DEF MintSession, rows
  <2>4. CASE HandleRotateSigningKey
    BY <2>4 DEF HandleRotateSigningKey, RotateSigningKey, RetiredBy, Retirement,
       InsertActive, Unused
  <2>5. CASE Start
    BY <2>5 DEF Start, rows
  <2>6. CASE MigrateScan
    BY <2>6 DEF MigrateScan, Recognised, Legacy, rows
  <2>7. CASE MigrateUpdate
    BY <2>7 DEF MigrateUpdate
  <2>8. CASE MigrateDone
    BY <2>8 DEF MigrateDone, rows
  <2>9. CASE AgeCheck
    BY <2>9 DEF AgeCheck, RotateSigningKey, RetiredBy, Retirement, InsertActive, Unused, rows
  <2>10. CASE Crash
    BY <2>10 DEF Crash, rows
  <2>11. ASSUME NEW old \in KEK, NEW new \in KEK, Rekey(old, new) PROVE TimeInv'
    BY <2>11 DEF Rekey
  <2>12. ASSUME NEW new \in KEK, SetKEK(new) PROVE TimeInv'
    BY <2>12 DEF SetKEK, rows
  <2>13. ASSUME NEW c \in Consumer, FetchJWKS(c) PROVE TimeInv'
    BY <2>13 DEF FetchJWKS, rows
  <2>14. CASE Tick
    BY <2>14 DEF Tick, rows
  <2>15. CASE UNCHANGED vars
    BY <2>15 DEF vars
  <2> QED
    BY <2>1, <2>2, <2>3, <2>4, <2>5, <2>6, <2>7, <2>8, <2>9, <2>10, <2>11,
       <2>12, <2>13, <2>14, <2>15 DEF Next
<1> QED
  BY <1>1, <1>2, TypeCorrect, ControlCorrect, PTL DEF Spec

\* What a consumer has cached, and what it may lack.
LEMMA CacheCorrect == Spec => []CacheInv
<1>1. Init => CacheInv
  BY NameAssumption, TimingAssumption DEF Init, CacheInv, Wanted, Time
<1>2. TypeOK /\ ControlInv /\ TimeInv /\ CacheInv /\ [Next]_vars => CacheInv'
  <2> SUFFICES ASSUME TypeOK, ControlInv, TimeInv, CacheInv, [Next]_vars PROVE CacheInv'
    OBVIOUS
  <2> USE NameAssumption, TimingAssumption, WindowAssumption DEF TypeOK, ControlInv, TimeInv,
         CacheInv, Wanted, Row, Active, Proc, Serving, Time, Token, JWKS
  <2>1. ASSUME NEW p \in Proc, GetActive(p) PROVE CacheInv'
    BY <2>1 DEF GetActive, AboutToGet, rows
  <2>2. ASSUME NEW p \in Proc, Generate(p) PROVE CacheInv'
    BY <2>2 DEF Generate, InsertActive, Unused
  <2>3. ASSUME NEW h \in Handler, MintSession(h) PROVE CacheInv'
    BY <2>3 DEF MintSession, rows
  <2>4. CASE HandleRotateSigningKey
    BY <2>4 DEF HandleRotateSigningKey, RotateSigningKey, RetiredBy, Retirement,
       InsertActive, Unused
  <2>5. CASE Start
    BY <2>5 DEF Start, rows
  <2>6. CASE MigrateScan
    BY <2>6 DEF MigrateScan, Recognised, Legacy, rows
  <2>7. CASE MigrateUpdate
    BY <2>7 DEF MigrateUpdate
  <2>8. CASE MigrateDone
    BY <2>8 DEF MigrateDone, rows
  <2>9. CASE AgeCheck
    BY <2>9 DEF AgeCheck, RotateSigningKey, RetiredBy, Retirement, InsertActive, Unused, rows
  <2>10. CASE Crash
    BY <2>10 DEF Crash, rows
  <2>11. ASSUME NEW old \in KEK, NEW new \in KEK, Rekey(old, new) PROVE CacheInv'
    BY <2>11 DEF Rekey
  <2>12. ASSUME NEW new \in KEK, SetKEK(new) PROVE CacheInv'
    BY <2>12 DEF SetKEK, rows
  <2>13. ASSUME NEW c \in Consumer, FetchJWKS(c) PROVE CacheInv'
    BY <2>13 DEF FetchJWKS, rows, ListVerificationKeys, WithinWindow
  <2>14. CASE Tick
    BY <2>14 DEF Tick, rows
  <2>15. CASE UNCHANGED vars
    BY <2>15 DEF vars
  <2> QED
    BY <2>1, <2>2, <2>3, <2>4, <2>5, <2>6, <2>7, <2>8, <2>9, <2>10, <2>11,
       <2>12, <2>13, <2>14, <2>15 DEF Next
<1> QED
  BY <1>1, <1>2, TypeCorrect, ControlCorrect, TimeCorrect, PTL DEF Spec

----------------------------------------------------------------------------

\* A token stays verifiable until it expires, whatever rotations happen while
\* it is being minted and afterwards (ListVerificationKeys).
THEOREM TokensStayVerifiable == Spec => []PublishedUntilExpiry
<1>1. TypeOK /\ TimeInv => PublishedUntilExpiry
  BY TimingAssumption, WindowAssumption
     DEF TypeOK, TimeInv, PublishedUntilExpiry, ListVerificationKeys, WithinWindow, Row, Active,
         Token, Time
<1> QED
  BY <1>1, TypeCorrect, TimeCorrect, PTL

\* A consumer that refreshes on an unknown kid never rejects a live token.
THEOREM RefreshSuffices == Spec => []CacheMissesOnlyNewKeys
<1>1. TypeOK /\ CacheInv => CacheMissesOnlyNewKeys
  BY DEF TypeOK, CacheInv, CacheMissesOnlyNewKeys, Wanted, Token
<1> QED
  BY <1>1, TypeCorrect, CacheCorrect, PTL

\* A consumer that honours max-age drops a retired key in bounded time.
THEOREM RetiredKeysLeave == Spec => []RetiredKeyEvicted
<1>1. TypeOK /\ CacheInv => RetiredKeyEvicted
  BY TimingAssumption DEF TypeOK, CacheInv, RetiredKeyEvicted, JWKS, Time
<1> QED
  BY <1>1, TypeCorrect, CacheCorrect, PTL

\* Sealed rows never disagree on the KEK, so one SIGNING_KEK opens them all.
THEOREM RowsShareKEK == Spec => []OneKEK
<1>1. SealInv => OneKEK
  BY DEF SealInv
<1> QED
  BY <1>1, SealCorrect, PTL

\* A serving process can read every key it may be asked for.
THEOREM ServingCanRead == Spec => []ServingReadable
<1>1. ControlInv /\ SealInv => ServingReadable
  BY DEF ControlInv, SealInv, ServingReadable, Serving
<1> QED
  BY <1>1, ControlCorrect, SealCorrect, PTL

----------------------------------------------------------------------------
(* The health checks of /_info                                             *)


\* The health checks only watch: what is proved of Spec holds of HealthSpec.
THEOREM HealthRefinesKeys == HealthSpec => Spec
<1>1. HealthInit => Init
  BY DEF HealthInit
<1>2. [HealthNext]_<<vars, servingSince>> => [Next]_vars
  BY DEF HealthNext
<1> QED
  BY <1>1, <1>2, PTL DEF HealthSpec, Spec

----------------------------------------------------------------------------

\* The key that main has fetched is the active one, and when the process began
\* to serve, the key that is active now was not too old.
AgeInv ==
    /\ servingSince \in Nat /\ servingSince <= now
    /\ pc[Main] = "have" => held[Main] \in Active
    /\ Serving => \A k \in Active : servingSince <= created_at[k] + MaxAge

\* The age invariant is inductive, given the types and that one key is active.
LEMMA AgeInductive ==
  ASSUME TypeOK, ControlInv, AgeInv, [HealthNext]_<<vars, servingSince>>
  PROVE  AgeInv'
<1> USE TimingAssumption, NameAssumption DEF TypeOK, Time, Proc, ControlInv, AtMostOneActive,
                                             AgeInv, Active, Serving
<1>1. servingSince' = servingSince \/ (servingSince' = now /\ ~Serving /\ Serving')
  BY DEF HealthNext
<1>2. ASSUME NEW p \in Proc, GetActive(p) PROVE AgeInv'
  BY <1>1, <1>2 DEF GetActive, AboutToGet, rows
<1>3. ASSUME NEW p \in Proc, Generate(p) PROVE AgeInv'
  BY <1>1, <1>3 DEF Generate, InsertActive, Unused
<1>4. ASSUME NEW h \in Handler, MintSession(h) PROVE AgeInv'
  BY <1>1, <1>4 DEF MintSession, rows
<1>5. CASE HandleRotateSigningKey
  BY <1>1, <1>5 DEF HandleRotateSigningKey, RotateSigningKey, RetiredBy, InsertActive, Unused
<1>6. CASE Start \/ MigrateScan \/ MigrateUpdate \/ MigrateDone \/ Crash
  BY <1>1, <1>6 DEF Start, MigrateScan, MigrateUpdate, MigrateDone, Crash, rows
<1>7. CASE AgeCheck
  <2>1. ~Serving /\ Serving' /\ servingSince' \in {servingSince, now} /\ now' = now
    BY <1>1, <1>7 DEF AgeCheck
  <2>2. \A k \in Active' : now <= created_at'[k] + MaxAge
    <3>1. CASE now - created_at[held[Main]] <= MaxAge
      BY <1>7, <3>1 DEF AgeCheck, rows
    <3>2. CASE now - created_at[held[Main]] > MaxAge
      <4>1. PICK k \in Unused : RotateSigningKey(k)
        BY <1>7, <3>2 DEF AgeCheck
      <4>2. Active' \subseteq {k}
        BY <4>1 DEF RotateSigningKey, RetiredBy
      <4>3. k \in Key /\ created_at'[k] = now
        BY <4>1 DEF RotateSigningKey, InsertActive, Unused
      <4> QED
        BY <4>2, <4>3
    <3> QED
      BY <1>7, <3>1, <3>2 DEF AgeCheck
  <2>3. created_at' \in [Key -> Time]
    BY <1>7 DEF AgeCheck, RotateSigningKey, InsertActive, rows
  <2> QED
    BY <2>1, <2>2, <2>3
<1>8. CASE (\E old, new \in KEK : Rekey(old, new)) \/ (\E new \in KEK : SetKEK(new))
  BY <1>1, <1>8 DEF Rekey, SetKEK, rows
<1>9. CASE (\E c \in Consumer : FetchJWKS(c)) \/ Tick
  BY <1>1, <1>9 DEF FetchJWKS, Tick, rows
<1>10. CASE UNCHANGED <<vars, servingSince>>
  BY <1>10 DEF vars
<1> QED
  BY <1>2, <1>3, <1>4, <1>5, <1>6, <1>7, <1>8, <1>9, <1>10 DEF HealthNext, Next

\* The age check fails only in a process that has served longer than the
\* margin, whatever crashes, restarts and rotations came before.
THEOREM NoFalseAlarm == HealthSpec => []AlarmMeansNoDeploy
<1>1. HealthInit => AgeInv
  BY NameAssumption DEF HealthInit, Init, AgeInv, Serving, Proc
<1>2. TypeOK /\ ControlInv /\ AgeInv /\ [HealthNext]_<<vars, servingSince>> => AgeInv'
  BY AgeInductive
<1>3. TypeOK /\ AgeInv => AlarmMeansNoDeploy
  BY TimingAssumption, GraceAssumption
     DEF TypeOK, Time, AgeInv, AlarmMeansNoDeploy, SigningKeyAgeFails, Age, maxSigningKeyAge, Active
<1> QED
  BY <1>1, <1>2, <1>3, TypeCorrect, ControlCorrect, HealthRefinesKeys, PTL DEF HealthSpec

=============================================================================
