--------------------------- MODULE SessionsProofs ---------------------------
(***************************************************************************)
(* Proofs about Sessions, for every number of principals, challenges,      *)
(* sessions, browsers and concurrent requests, and every choice of the     *)
(* lifetimes.                                                              *)
(***************************************************************************)
EXTENDS Sessions, TLAPS

\* The places of a login before it opens its session, and those of any request
\* that has seen its principal's passkey active.
LoggingIn == {"taken", "verified", "counted"}
PasskeySeen == {"verified", "counted", "checked"}

\* What requests and rows refer to.
ControlInv ==
    /\ \A r \in Proc :
         /\ proc[r].pc \in LoggingIn \cup {"session", "checked", "revoking"} =>
              proc[r].principal \in Principal
         /\ proc[r].pc \in LoggingIn =>
              proc[r].challenge \in Challenge /\ proc[r].browser \in Browser
         /\ proc[r].pc \in {"session", "checked"} =>
              /\ proc[r].session \in Session
              /\ Opened(proc[r].session)
              /\ sessions[proc[r].session].principal = proc[r].principal
    /\ \A s \in Session :
         Opened(s) => sessions[s].principal \in Principal /\ sessions[s].challenge \in Challenge

\* Type correctness, with what it needs to be inductive.
IInv == TypeOK /\ ControlInv

\* A challenge is in one place: pending, with one request, or in one session.
ChallengeInv ==
    /\ \A r \in Proc : proc[r].pc \in LoggingIn =>
         /\ pending[proc[r].challenge].kind = "gone"
         /\ \A q \in Proc : q # r /\ proc[q].pc \in LoggingIn =>
              proc[q].challenge # proc[r].challenge
         /\ \A s \in Session : Opened(s) => sessions[s].challenge # proc[r].challenge
    /\ \A s \in Session : Opened(s) => pending[sessions[s].challenge].kind = "gone"
    /\ ChallengeOpensOneSession

\* No request runs longer than MaxRequest, and nothing is from the future.
TimeInv ==
    /\ \A r \in Proc : proc[r].pc # "idle" =>
         proc[r].since <= now /\ now <= proc[r].since + MaxRequest
    /\ \A s \in Session : lastMint[s] <= now
    /\ \A p \in Principal : passkey[p].created_at <= now /\ passkey[p].revoked_at <= now

\* A re-mint under way began while its session was usable.
MintInv ==
    /\ \A r \in Proc : proc[r].pc \in {"session", "checked"} =>
         LET s == sessions[proc[r].session] IN
         /\ proc[r].since <= s.expires_at
         /\ s.state = "revoked" => proc[r].since <= s.revoked_at
    /\ RemintEndsWithSession

\* A request that has seen an active passkey began before its revocation.
SeenInv ==
    /\ \A r \in Proc : proc[r].pc \in PasskeySeen =>
         LET k == passkey[proc[r].principal] IN
         k.state = "revoked" => proc[r].since <= k.revoked_at
    /\ RevokedPasskeyStopsTokens

\* A passkey that may still be used, or has been by a login under way, is newer
\* than the ones locked out; a login with a replaced passkey began before the
\* replacement.
LockInv ==
    /\ \A p \in Principal :
         /\ locked[p] <= passkey[p].gen
         /\ passkey[p].state = "active" => locked[p] < passkey[p].gen
    /\ \A r \in Proc : proc[r].pc \in LoggingIn =>
         LET k == passkey[proc[r].principal] IN
         /\ proc[r].gen <= k.gen
         /\ proc[r].pc # "taken" =>
              /\ locked[proc[r].principal] < proc[r].gen
              /\ proc[r].gen < k.gen => proc[r].since <= k.created_at
    /\ LockoutIsFinal

----------------------------------------------------------------------------

\* What a revocation leaves of a session's row.
LEMMA RevokedRow ==
    ASSUME TypeOK
    PROVE  \A s \in Session :
             /\ Revoked(s) \in SessionRow
             /\ Revoked(s).state = "revoked" /\ Revoked(s).revoked_at = now
             /\ Revoked(s).principal = sessions[s].principal
             /\ Revoked(s).challenge = sessions[s].challenge
             /\ Revoked(s).expires_at = sessions[s].expires_at
  BY DEF TypeOK, Revoked, SessionRow, Time

\* Types: every row, request and pending ceremony has its shape.
THEOREM TypeCorrect == Spec => []IInv
<1>1. Init => IInv
  BY TimingAssumption, NameAssumption
     DEF Init, IInv, TypeOK, ControlInv, Opened, LoggingIn, Time, Gen, Passkey, Ceremony,
         SessionRow, Local, Idle, NoCeremony
<1>2. IInv /\ [Next]_vars => IInv'
  <2> SUFFICES ASSUME IInv, [Next]_vars PROVE IInv'
    OBVIOUS
  <2> USE TimingAssumption, NameAssumption
         DEF IInv, TypeOK, ControlInv, Opened, LoggingIn, Time, Gen, Passkey, Ceremony,
             SessionRow, Local, Idle, NoCeremony
  <2>1. ASSUME NEW r \in Proc, NEW c \in Challenge, NEW q \in Principal, NEW b \in Browser,
              NEW answers \in BOOLEAN, FinishTake(r, c, q, b, answers)
       PROVE  IInv'
    <3> DEFINE new == [pc |-> "taken", principal |-> q, gen |-> passkey[q].gen,
                       sign_count |-> counter[q] + 1, challenge |-> c,
                       session |-> NoSession, browser |-> b, since |-> now]
    <3>1. new \in Local
      OBVIOUS
    <3>2. /\ proc' \in {proc, [proc EXCEPT ![r] = new]}
          /\ UNCHANGED <<now, passkey, sessions, jar, lastMint, locked>>
      BY <2>1, Zenon DEF FinishTake, Go
    <3>3. pending' \in [Challenge -> Ceremony] /\ counter' \in [Principal -> Nat]
      BY <2>1 DEF FinishTake, LeftByTake
    <3>4. CASE proc' = [proc EXCEPT ![r] = new]
      BY <3>1, <3>2, <3>3, <3>4
    <3>5. CASE proc' = proc
      BY <3>2, <3>3, <3>5
    <3> QED
      BY <3>2, <3>4, <3>5
  <2>2. ASSUME NEW r \in Proc, FinishVerify(r) PROVE IInv'
    <3>1. /\ proc' \in {[proc EXCEPT ![r] = Idle], [proc EXCEPT ![r].pc = "verified"]}
          /\ proc[r].pc = "taken"
          /\ UNCHANGED <<now, passkey, counter, pending, sessions, jar, lastMint, locked>>
      BY <2>2, Zenon DEF FinishVerify, Step, Go
    <3>2. CASE proc' = [proc EXCEPT ![r] = Idle]
      BY <3>1, <3>2
    <3>3. CASE proc' = [proc EXCEPT ![r].pc = "verified"]
      BY <3>1, <3>3
    <3> QED
      BY <3>1, <3>2, <3>3
  <2>3. ASSUME NEW r \in Proc, FinishCount(r) PROVE IInv'
    <3>1. /\ proc' = [proc EXCEPT ![r].pc = "counted"] /\ proc[r].pc = "verified"
          /\ passkey' \in
               {passkey, [passkey EXCEPT ![proc[r].principal].sign_count = proc[r].sign_count]}
          /\ UNCHANGED <<now, counter, pending, sessions, jar, lastMint, locked>>
      BY <2>3, Zenon DEF FinishCount, Step
    <3>2. proc[r].principal \in Principal /\ proc[r].sign_count \in Nat
      BY <3>1
    <3>3. [passkey[proc[r].principal] EXCEPT !.sign_count = proc[r].sign_count] \in Passkey
      BY <3>2
    <3>4. passkey' \in [Principal -> Passkey]
      BY <3>1, <3>2, <3>3
    <3>5. proc' \in [Proc -> Local]
      BY <3>1
    <3> QED
      BY <3>1, <3>4, <3>5
  <2>4. ASSUME NEW r \in Proc, FinishOpen(r) PROVE IInv'
    BY <2>4 DEF FinishOpen, Go
  <2>5. ASSUME NEW r \in Proc, NEW s \in Session, RemintRead(r, s) PROVE IInv'
    BY <2>5 DEF RemintRead, Usable, Go, At
  <2>6. ASSUME NEW r \in Proc, RemintCheck(r) PROVE IInv'
    <3>1. /\ proc' \in {[proc EXCEPT ![r] = Idle], [proc EXCEPT ![r].pc = "checked"]}
          /\ proc[r].pc = "session"
          /\ UNCHANGED <<now, passkey, counter, pending, sessions, jar, lastMint, locked>>
      BY <2>6, Zenon DEF RemintCheck, Step, Go
    <3>2. CASE proc' = [proc EXCEPT ![r] = Idle]
      BY <3>1, <3>2
    <3>3. CASE proc' = [proc EXCEPT ![r].pc = "checked"]
      <4>1. [proc[r] EXCEPT !.pc = "checked"] \in Local
        OBVIOUS
      <4>2. proc' \in [Proc -> Local]
        BY <3>3, <4>1
      <4> QED
        BY <3>1, <3>3, <4>2
    <3> QED
      BY <3>1, <3>2, <3>3
  <2>7. ASSUME NEW r \in Proc, RemintMint(r) PROVE IInv'
    BY <2>7 DEF RemintMint, Go
  <2>8. ASSUME NEW r \in Proc, NEW p \in Principal, RevokeRead(r, p) PROVE IInv'
    BY <2>8 DEF RevokeRead, Go, At
  <2>9. ASSUME NEW r \in Proc, RevokeWrite(r) PROVE IInv'
    <3>1. /\ proc' = [proc EXCEPT ![r] = Idle] /\ proc[r].pc = "revoking"
          /\ passkey' \in {passkey, [passkey EXCEPT ![proc[r].principal].state = "revoked",
                                                   ![proc[r].principal].revoked_at = now]}
          /\ UNCHANGED <<now, counter, pending, sessions, jar, lastMint, locked>>
      BY <2>9, Zenon DEF RevokeWrite, Go
    <3>2. passkey' \in [Principal -> Passkey]
      BY <3>1
    <3> QED
      BY <3>1, <3>2
  <2>10. ASSUME NEW p \in Principal, NEW c \in Challenge, LoginBegin(p, c) PROVE IInv'
    BY <2>10 DEF LoginBegin, Swept, Lapsed
  <2>11. ASSUME NEW c \in Challenge, LoginBeginDiscoverable(c) PROVE IInv'
    BY <2>11 DEF LoginBeginDiscoverable, Swept, Lapsed
  <2>12. ASSUME NEW b \in Browser, Logout(b) PROVE IInv'
    <3>1. jar[b] \in Session
      BY <2>12 DEF Logout
    <3>2. /\ \/ sessions' = sessions
             \/ Opened(jar[b]) /\ sessions' = [sessions EXCEPT ![jar[b]] = Revoked(jar[b])]
          /\ jar' = [jar EXCEPT ![b] = NoSession]
          /\ UNCHANGED <<now, passkey, counter, pending, proc, lastMint, locked>>
      BY <2>12, Zenon DEF Logout
    <3>3. /\ sessions' \in [Session -> SessionRow]
          /\ \A s \in Session : /\ sessions'[s].principal = sessions[s].principal
                                /\ sessions'[s].challenge = sessions[s].challenge
                                /\ Opened(s)' <=> Opened(s)
      <4>1. CASE sessions' = sessions
        BY <4>1
      <4>2. CASE Opened(jar[b]) /\ sessions' = [sessions EXCEPT ![jar[b]] = Revoked(jar[b])]
        <5> HIDE DEF SessionRow
        <5> QED
          BY <3>1, <4>2, RevokedRow
      <4> QED
        BY <3>2, <4>1, <4>2
    <3> QED
      BY <3>1, <3>2, <3>3
  <2>13. ASSUME NEW p \in Principal, BulkRevoke(p) PROVE IInv'
    <3>1. EndedBefore(p) \in Gen
      BY DEF EndedBefore
    <3>2. locked' \in [Principal -> Gen]
      BY <2>13, <3>1 DEF BulkRevoke
    <3>3. /\ sessions' \in [Session -> SessionRow]
          /\ \A s \in Session : /\ sessions'[s].principal = sessions[s].principal
                                /\ sessions'[s].challenge = sessions[s].challenge
                                /\ Opened(s)' <=> Opened(s)
      BY <2>13, RevokedRow DEF BulkRevoke, InBulk
    <3> QED
      BY <2>13, <3>2, <3>3 DEF BulkRevoke
  <2>14. ASSUME NEW p \in Principal, Enrol(p) PROVE IInv'
    BY <2>14 DEF Enrol
  <2>15. CASE SweepExpired
    BY <2>15 DEF SweepExpired, Swept, Lapsed
  <2>16. CASE Restart
    BY <2>16 DEF Restart
  <2>17. CASE Tick
    BY <2>17 DEF Tick
  <2>18. CASE UNCHANGED vars
    BY <2>18 DEF vars
  <2> QED
    BY <2>1, <2>2, <2>3, <2>4, <2>5, <2>6, <2>7, <2>8, <2>9, <2>10,
       <2>11, <2>12, <2>13, <2>14, <2>15, <2>16, <2>17, <2>18 DEF Next, Handler
<1> QED
  BY <1>1, <1>2, PTL DEF Spec

\* What the steps with several outcomes do, field by field.
Takes(r, c, q) ==
    /\ proc[r].pc = "idle"
    /\ \A o \in Proc \ {r} : proc'[o] = proc[o]
    /\ \/ proc'[r] = proc[r]
       \/ /\ proc'[r].pc = "taken" /\ proc'[r].principal = q /\ proc'[r].challenge = c
          /\ proc'[r].gen = passkey[q].gen /\ proc'[r].since = now
    /\ pending[c].kind \in {"explicit", "discoverable"} /\ pending'[c].kind = "gone"
    /\ \A d \in Challenge \ {c} : pending'[d] = pending[d]
    /\ UNCHANGED <<now, passkey, sessions, lastMint, locked>>

Verifies(r) ==
    /\ proc[r].pc = "taken"
    /\ \A o \in Proc \ {r} : proc'[o] = proc[o]
    /\ \/ proc'[r].pc = "idle"
       \/ /\ proc'[r].pc = "verified" /\ proc'[r].principal = proc[r].principal
          /\ proc'[r].challenge = proc[r].challenge
          /\ proc'[r].gen = proc[r].gen /\ proc'[r].since = proc[r].since
          /\ passkey[proc[r].principal].state = "active"
          /\ passkey[proc[r].principal].gen = proc[r].gen
    /\ UNCHANGED <<now, passkey, pending, sessions, lastMint, locked>>

Checks(r) ==
    /\ proc[r].pc = "session"
    /\ \A o \in Proc \ {r} : proc'[o] = proc[o]
    /\ \/ proc'[r].pc = "idle"
       \/ /\ proc'[r].pc = "checked" /\ proc'[r].principal = proc[r].principal
          /\ proc'[r].session = proc[r].session /\ proc'[r].since = proc[r].since
          /\ passkey[proc[r].principal].state = "active"
    /\ UNCHANGED <<now, passkey, pending, sessions, lastMint, locked>>

RevokesAll(p) ==
    /\ \A s \in Session :
         IF sessions[s].principal = p /\ sessions[s].state = "active"
           THEN /\ sessions'[s].state = "revoked" /\ sessions'[s].revoked_at = now
                /\ sessions'[s].principal = sessions[s].principal
                /\ sessions'[s].challenge = sessions[s].challenge
                /\ sessions'[s].expires_at = sessions[s].expires_at
           ELSE sessions'[s] = sessions[s]
    /\ \A o \in Principal \ {p} : locked'[o] = locked[o]
    /\ locked'[p] \in {locked[p], EndedBefore(p)} /\ locked'[p] >= locked[p]
    /\ UNCHANGED <<now, passkey, pending, proc, lastMint>>

LEMMA TakeEffect ==
    ASSUME IInv, NEW r \in Proc, NEW c \in Challenge, NEW q \in Principal, NEW b \in Browser,
           NEW answers \in BOOLEAN, FinishTake(r, c, q, b, answers)
    PROVE  Takes(r, c, q)
<1> DEFINE new == [pc |-> "taken", principal |-> q, gen |-> passkey[q].gen,
                   sign_count |-> counter[q] + 1, challenge |-> c,
                   session |-> NoSession, browser |-> b, since |-> now]
<1>1. /\ proc[r].pc = "idle" /\ pending[c].kind \in {"explicit", "discoverable"}
      /\ proc' \in {proc, [proc EXCEPT ![r] = new]}
      /\ pending' = [pending EXCEPT ![c] = NoCeremony]
      /\ UNCHANGED <<now, passkey, sessions, lastMint, locked>>
  BY Zenon DEF FinishTake, LeftByTake, Go
<1> QED
  BY <1>1 DEF IInv, TypeOK, NoCeremony, Takes

LEMMA VerifyEffect ==
    ASSUME IInv, NEW r \in Proc, FinishVerify(r)
    PROVE  Verifies(r)
<1>1. /\ proc[r].pc = "taken"
      /\ \/ proc' = [proc EXCEPT ![r] = Idle]
         \/ /\ proc' = [proc EXCEPT ![r].pc = "verified"]
            /\ passkey[proc[r].principal].state = "active"
            /\ passkey[proc[r].principal].gen = proc[r].gen
      /\ UNCHANGED <<now, passkey, pending, sessions, lastMint, locked>>
  BY Zenon DEF FinishVerify, HasPasskey, Step, Go
<1>2. CASE proc' = [proc EXCEPT ![r] = Idle]
  BY <1>1, <1>2 DEF IInv, TypeOK, Idle, Verifies
<1>3. CASE proc' = [proc EXCEPT ![r].pc = "verified"]
  BY <1>1, <1>3 DEF IInv, TypeOK, Local, Idle, Verifies
<1> QED
  BY <1>1, <1>2, <1>3

LEMMA CheckEffect ==
    ASSUME IInv, NEW r \in Proc, RemintCheck(r)
    PROVE  Checks(r)
<1>1. /\ proc[r].pc = "session"
      /\ \/ proc' = [proc EXCEPT ![r] = Idle]
         \/ /\ proc' = [proc EXCEPT ![r].pc = "checked"]
            /\ passkey[proc[r].principal].state = "active"
      /\ UNCHANGED <<now, passkey, pending, sessions, lastMint, locked>>
  BY Zenon DEF RemintCheck, HasPasskey, Step, Go
<1>2. CASE proc' = [proc EXCEPT ![r] = Idle]
  BY <1>1, <1>2 DEF IInv, TypeOK, Idle, Checks
<1>3. CASE proc' = [proc EXCEPT ![r].pc = "checked"]
  BY <1>1, <1>3 DEF IInv, TypeOK, Local, Idle, Checks
<1> QED
  BY <1>1, <1>2, <1>3

LEMMA BulkEffect ==
    ASSUME IInv, NEW p \in Principal, BulkRevoke(p)
    PROVE  RevokesAll(p)
<1>1. EndedBefore(p) \in Gen
  BY TimingAssumption DEF IInv, TypeOK, EndedBefore, Passkey, Gen, Time
<1> QED
  BY <1>1, RevokedRow DEF IInv, TypeOK, BulkRevoke, InBulk, RevokesAll, Gen


\* A handler ends within MaxRequest, and no row or request bears a later time
\* than now.
THEOREM TimeCorrect == Spec => []TimeInv
<1>1. Init => TimeInv
  BY TimingAssumption, NameAssumption
     DEF Init, Time, Gen, Idle, NoCeremony, Opened, LoggingIn, TimeInv
<1>2. IInv /\ TimeInv /\ [Next]_vars => TimeInv'
  <2> SUFFICES ASSUME IInv, TimeInv, [Next]_vars PROVE TimeInv'
    OBVIOUS
  <2> USE TimingAssumption, NameAssumption
         DEF IInv, TypeOK, ControlInv, Opened, LoggingIn, Time, Gen, Passkey, Ceremony,
             SessionRow, Local, Idle, NoCeremony, TimeInv
  <2>1. ASSUME NEW r \in Proc, NEW c \in Challenge, NEW q \in Principal, NEW b \in Browser,
              NEW answers \in BOOLEAN, FinishTake(r, c, q, b, answers)
       PROVE  TimeInv'
    <3>1. Takes(r, c, q)
      <4> HIDE DEF IInv
      <4> QED
        BY <2>1, TakeEffect
    <3> QED
      BY <3>1 DEF Takes
  <2>2. ASSUME NEW r \in Proc, FinishVerify(r) PROVE TimeInv'
    <3>1. Verifies(r)
      <4> HIDE DEF IInv
      <4> QED
        BY <2>2, VerifyEffect
    <3> QED
      BY <3>1 DEF Verifies
  <2>3. ASSUME NEW r \in Proc, FinishCount(r) PROVE TimeInv'
    BY <2>3 DEF FinishCount, HasPasskey, Step
  <2>4. ASSUME NEW r \in Proc, FinishOpen(r) PROVE TimeInv'
    BY <2>4 DEF FinishOpen, Go
  <2>5. ASSUME NEW r \in Proc, NEW s \in Session, RemintRead(r, s) PROVE TimeInv'
    BY <2>5 DEF RemintRead, Usable, Go, At
  <2>6. ASSUME NEW r \in Proc, RemintCheck(r) PROVE TimeInv'
    <3>1. Checks(r)
      <4> HIDE DEF IInv
      <4> QED
        BY <2>6, CheckEffect
    <3> QED
      BY <3>1 DEF Checks
  <2>7. ASSUME NEW r \in Proc, RemintMint(r) PROVE TimeInv'
    BY <2>7 DEF RemintMint, Go
  <2>8. ASSUME NEW r \in Proc, NEW p \in Principal, RevokeRead(r, p) PROVE TimeInv'
    BY <2>8 DEF RevokeRead, Go, At
  <2>9. ASSUME NEW r \in Proc, RevokeWrite(r) PROVE TimeInv'
    BY <2>9 DEF RevokeWrite, Go
  <2>10. ASSUME NEW p \in Principal, NEW c \in Challenge, LoginBegin(p, c) PROVE TimeInv'
    BY <2>10 DEF LoginBegin, Swept, Lapsed
  <2>11. ASSUME NEW c \in Challenge, LoginBeginDiscoverable(c) PROVE TimeInv'
    BY <2>11 DEF LoginBeginDiscoverable, Swept, Lapsed
  <2>12. ASSUME NEW b \in Browser, Logout(b) PROVE TimeInv'
    BY <2>12 DEF Logout, Revoked
  <2>13. ASSUME NEW p \in Principal, BulkRevoke(p) PROVE TimeInv'
    <3>1. RevokesAll(p)
      <4> HIDE DEF IInv
      <4> QED
        BY <2>13, BulkEffect
    <3> QED
      BY <3>1 DEF RevokesAll
  <2>14. ASSUME NEW p \in Principal, Enrol(p) PROVE TimeInv'
    BY <2>14 DEF Enrol
  <2>15. CASE SweepExpired
    BY <2>15 DEF SweepExpired, Swept, Lapsed
  <2>16. CASE Restart
    BY <2>16 DEF Restart
  <2>17. CASE Tick
    BY <2>17 DEF Tick
  <2>18. CASE UNCHANGED vars
    BY <2>18 DEF vars
  <2> QED
    BY <2>1, <2>2, <2>3, <2>4, <2>5, <2>6, <2>7, <2>8, <2>9, <2>10,
       <2>11, <2>12, <2>13, <2>14, <2>15, <2>16, <2>17, <2>18 DEF Next, Handler
<1> QED
  BY <1>1, <1>2, TypeCorrect, PTL DEF Spec

\* take moves a challenge from the ceremony store into one request, FinishOpen
\* from there into one session; no step puts one back.
THEOREM ChallengeCorrect == Spec => []ChallengeInv
<1>1. Init => ChallengeInv
  BY TimingAssumption, NameAssumption
     DEF Init, Time, Gen, Idle, NoCeremony, Opened, LoggingIn, ChallengeInv,
         ChallengeOpensOneSession
<1>2. IInv /\ ChallengeInv /\ [Next]_vars => ChallengeInv'
  <2> SUFFICES ASSUME IInv, ChallengeInv, [Next]_vars PROVE ChallengeInv'
    OBVIOUS
  <2> USE TimingAssumption, NameAssumption
         DEF IInv, TypeOK, ControlInv, Opened, LoggingIn, Idle, NoCeremony, Local,
             ChallengeInv, ChallengeOpensOneSession
  <2>1. ASSUME NEW r \in Proc, NEW c \in Challenge, NEW q \in Principal, NEW b \in Browser,
              NEW answers \in BOOLEAN, FinishTake(r, c, q, b, answers)
       PROVE  ChallengeInv'
    <3>1. Takes(r, c, q)
      <4> HIDE DEF IInv
      <4> QED
        BY <2>1, TakeEffect
    <3> QED
      BY <3>1 DEF Takes
  <2>2. ASSUME NEW r \in Proc, FinishVerify(r) PROVE ChallengeInv'
    <3>1. Verifies(r)
      <4> HIDE DEF IInv
      <4> QED
        BY <2>2, VerifyEffect
    <3>2. \A o \in Proc : proc'[o].pc \in LoggingIn =>
            proc[o].pc \in LoggingIn /\ proc'[o].challenge = proc[o].challenge
      BY <3>1 DEF Verifies
    <3>3. UNCHANGED <<pending, sessions>>
      BY <3>1 DEF Verifies
    <3> QED
      BY <3>2, <3>3
  <2>3. ASSUME NEW r \in Proc, FinishCount(r) PROVE ChallengeInv'
    BY <2>3 DEF FinishCount, HasPasskey, Step
  <2>4. ASSUME NEW r \in Proc, FinishOpen(r) PROVE ChallengeInv'
    BY <2>4 DEF FinishOpen, Go
  <2>5. ASSUME NEW r \in Proc, NEW s \in Session, RemintRead(r, s) PROVE ChallengeInv'
    BY <2>5 DEF RemintRead, Usable, Go, At
  <2>6. ASSUME NEW r \in Proc, RemintCheck(r) PROVE ChallengeInv'
    <3>1. Checks(r)
      <4> HIDE DEF IInv
      <4> QED
        BY <2>6, CheckEffect
    <3> QED
      BY <3>1 DEF Checks
  <2>7. ASSUME NEW r \in Proc, RemintMint(r) PROVE ChallengeInv'
    BY <2>7 DEF RemintMint, Go
  <2>8. ASSUME NEW r \in Proc, NEW p \in Principal, RevokeRead(r, p) PROVE ChallengeInv'
    BY <2>8 DEF RevokeRead, Go, At
  <2>9. ASSUME NEW r \in Proc, RevokeWrite(r) PROVE ChallengeInv'
    BY <2>9 DEF RevokeWrite, Go
  <2>10. ASSUME NEW p \in Principal, NEW c \in Challenge, LoginBegin(p, c) PROVE ChallengeInv'
    BY <2>10 DEF LoginBegin, Swept, Lapsed
  <2>11. ASSUME NEW c \in Challenge, LoginBeginDiscoverable(c) PROVE ChallengeInv'
    <3>1. \A d \in Challenge : pending[d].kind = "gone" => pending'[d].kind = "gone"
      BY <2>11 DEF LoginBeginDiscoverable, Swept
    <3> QED
      BY <2>11, <3>1 DEF LoginBeginDiscoverable
  <2>12. ASSUME NEW b \in Browser, Logout(b) PROVE ChallengeInv'
    BY <2>12 DEF Logout, Revoked
  <2>13. ASSUME NEW p \in Principal, BulkRevoke(p) PROVE ChallengeInv'
    <3>1. RevokesAll(p)
      <4> HIDE DEF IInv
      <4> QED
        BY <2>13, BulkEffect
    <3> QED
      BY <3>1 DEF RevokesAll
  <2>14. ASSUME NEW p \in Principal, Enrol(p) PROVE ChallengeInv'
    BY <2>14 DEF Enrol
  <2>15. CASE SweepExpired
    BY <2>15 DEF SweepExpired, Swept, Lapsed
  <2>16. CASE Restart
    BY <2>16 DEF Restart
  <2>17. CASE Tick
    BY <2>17 DEF Tick
  <2>18. CASE UNCHANGED vars
    BY <2>18 DEF vars
  <2> QED
    BY <2>1, <2>2, <2>3, <2>4, <2>5, <2>6, <2>7, <2>8, <2>9, <2>10,
       <2>11, <2>12, <2>13, <2>14, <2>15, <2>16, <2>17, <2>18 DEF Next, Handler
<1> QED
  BY <1>1, <1>2, TypeCorrect, PTL DEF Spec

\* A re-mint that has read its session's row began before the row expired or
\* was revoked, and all the rest of it takes at most MaxRequest.
THEOREM MintCorrect == Spec => []MintInv
<1>1. Init => MintInv
  BY TimingAssumption, NameAssumption
     DEF Init, Time, Gen, Idle, NoCeremony, Opened, LoggingIn, MintInv, RemintEndsWithSession
<1>2. IInv /\ TimeInv /\ MintInv /\ [Next]_vars => MintInv'
  <2> SUFFICES ASSUME IInv, TimeInv, MintInv, [Next]_vars PROVE MintInv'
    OBVIOUS
  <2> USE TimingAssumption, NameAssumption
         DEF IInv, TypeOK, ControlInv, Opened, LoggingIn, Time, Gen, Passkey, Ceremony,
             SessionRow, Local, Idle, NoCeremony, TimeInv, MintInv, RemintEndsWithSession
  <2>1. ASSUME NEW r \in Proc, NEW c \in Challenge, NEW q \in Principal, NEW b \in Browser,
              NEW answers \in BOOLEAN, FinishTake(r, c, q, b, answers)
       PROVE  MintInv'
    <3>1. Takes(r, c, q)
      <4> HIDE DEF IInv
      <4> QED
        BY <2>1, TakeEffect
    <3> QED
      BY <3>1 DEF Takes
  <2>2. ASSUME NEW r \in Proc, FinishVerify(r) PROVE MintInv'
    <3>1. Verifies(r)
      <4> HIDE DEF IInv
      <4> QED
        BY <2>2, VerifyEffect
    <3> QED
      BY <3>1 DEF Verifies
  <2>3. ASSUME NEW r \in Proc, FinishCount(r) PROVE MintInv'
    BY <2>3 DEF FinishCount, HasPasskey, Step
  <2>4. ASSUME NEW r \in Proc, FinishOpen(r) PROVE MintInv'
    BY <2>4 DEF FinishOpen, Go
  <2>5. ASSUME NEW r \in Proc, NEW s \in Session, RemintRead(r, s) PROVE MintInv'
    BY <2>5 DEF RemintRead, Usable, Go, At
  <2>6. ASSUME NEW r \in Proc, RemintCheck(r) PROVE MintInv'
    <3>1. Checks(r)
      <4> HIDE DEF IInv
      <4> QED
        BY <2>6, CheckEffect
    <3> QED
      BY <3>1 DEF Checks
  <2>7. ASSUME NEW r \in Proc, RemintMint(r) PROVE MintInv'
    BY <2>7 DEF RemintMint, Go
  <2>8. ASSUME NEW r \in Proc, NEW p \in Principal, RevokeRead(r, p) PROVE MintInv'
    BY <2>8 DEF RevokeRead, Go, At
  <2>9. ASSUME NEW r \in Proc, RevokeWrite(r) PROVE MintInv'
    BY <2>9 DEF RevokeWrite, Go
  <2>10. ASSUME NEW p \in Principal, NEW c \in Challenge, LoginBegin(p, c) PROVE MintInv'
    BY <2>10 DEF LoginBegin, Swept, Lapsed
  <2>11. ASSUME NEW c \in Challenge, LoginBeginDiscoverable(c) PROVE MintInv'
    BY <2>11 DEF LoginBeginDiscoverable, Swept, Lapsed
  <2>12. ASSUME NEW b \in Browser, Logout(b) PROVE MintInv'
    BY <2>12 DEF Logout, Revoked
  <2>13. ASSUME NEW p \in Principal, BulkRevoke(p) PROVE MintInv'
    <3>1. RevokesAll(p)
      <4> HIDE DEF IInv
      <4> QED
        BY <2>13, BulkEffect
    <3> QED
      BY <3>1 DEF RevokesAll
  <2>14. ASSUME NEW p \in Principal, Enrol(p) PROVE MintInv'
    BY <2>14 DEF Enrol
  <2>15. CASE SweepExpired
    BY <2>15 DEF SweepExpired, Swept, Lapsed
  <2>16. CASE Restart
    BY <2>16 DEF Restart
  <2>17. CASE Tick
    BY <2>17 DEF Tick
  <2>18. CASE UNCHANGED vars
    BY <2>18 DEF vars
  <2> QED
    BY <2>1, <2>2, <2>3, <2>4, <2>5, <2>6, <2>7, <2>8, <2>9, <2>10,
       <2>11, <2>12, <2>13, <2>14, <2>15, <2>16, <2>17, <2>18 DEF Next, Handler
<1> QED
  BY <1>1, <1>2, TypeCorrect, TimeCorrect, PTL DEF Spec

\* A request goes past the check of the passkey only while that is active, so
\* it began before any later revocation.
THEOREM SeenCorrect == Spec => []SeenInv
<1>1. Init => SeenInv
  BY TimingAssumption, NameAssumption
     DEF Init, Time, Gen, Idle, NoCeremony, Opened, LoggingIn, SeenInv, PasskeySeen,
         RevokedPasskeyStopsTokens
<1>2. IInv /\ TimeInv /\ SeenInv /\ [Next]_vars => SeenInv'
  <2> SUFFICES ASSUME IInv, TimeInv, SeenInv, [Next]_vars PROVE SeenInv'
    OBVIOUS
  <2> USE TimingAssumption, NameAssumption
         DEF IInv, TypeOK, ControlInv, Opened, LoggingIn, Time, Gen, Passkey, Ceremony,
             SessionRow, Local, Idle, NoCeremony, TimeInv, SeenInv, PasskeySeen,
             RevokedPasskeyStopsTokens
  <2>1. ASSUME NEW r \in Proc, NEW c \in Challenge, NEW q \in Principal, NEW b \in Browser,
              NEW answers \in BOOLEAN, FinishTake(r, c, q, b, answers)
       PROVE  SeenInv'
    <3>1. Takes(r, c, q)
      <4> HIDE DEF IInv
      <4> QED
        BY <2>1, TakeEffect
    <3> QED
      BY <3>1 DEF Takes
  <2>2. ASSUME NEW r \in Proc, FinishVerify(r) PROVE SeenInv'
    <3>1. Verifies(r)
      <4> HIDE DEF IInv
      <4> QED
        BY <2>2, VerifyEffect
    <3> QED
      BY <3>1 DEF Verifies
  <2>3. ASSUME NEW r \in Proc, FinishCount(r) PROVE SeenInv'
    BY <2>3 DEF FinishCount, HasPasskey, Step
  <2>4. ASSUME NEW r \in Proc, FinishOpen(r) PROVE SeenInv'
    BY <2>4 DEF FinishOpen, Go
  <2>5. ASSUME NEW r \in Proc, NEW s \in Session, RemintRead(r, s) PROVE SeenInv'
    BY <2>5 DEF RemintRead, Usable, Go, At
  <2>6. ASSUME NEW r \in Proc, RemintCheck(r) PROVE SeenInv'
    <3>1. Checks(r)
      <4> HIDE DEF IInv
      <4> QED
        BY <2>6, CheckEffect
    <3> QED
      BY <3>1 DEF Checks
  <2>7. ASSUME NEW r \in Proc, RemintMint(r) PROVE SeenInv'
    BY <2>7 DEF RemintMint, Go
  <2>8. ASSUME NEW r \in Proc, NEW p \in Principal, RevokeRead(r, p) PROVE SeenInv'
    BY <2>8 DEF RevokeRead, Go, At
  <2>9. ASSUME NEW r \in Proc, RevokeWrite(r) PROVE SeenInv'
    BY <2>9 DEF RevokeWrite, Go
  <2>10. ASSUME NEW p \in Principal, NEW c \in Challenge, LoginBegin(p, c) PROVE SeenInv'
    BY <2>10 DEF LoginBegin, Swept, Lapsed
  <2>11. ASSUME NEW c \in Challenge, LoginBeginDiscoverable(c) PROVE SeenInv'
    BY <2>11 DEF LoginBeginDiscoverable, Swept, Lapsed
  <2>12. ASSUME NEW b \in Browser, Logout(b) PROVE SeenInv'
    BY <2>12 DEF Logout, Revoked
  <2>13. ASSUME NEW p \in Principal, BulkRevoke(p) PROVE SeenInv'
    <3>1. RevokesAll(p)
      <4> HIDE DEF IInv
      <4> QED
        BY <2>13, BulkEffect
    <3> QED
      BY <3>1 DEF RevokesAll
  <2>14. ASSUME NEW p \in Principal, Enrol(p) PROVE SeenInv'
    BY <2>14 DEF Enrol
  <2>15. CASE SweepExpired
    BY <2>15 DEF SweepExpired, Swept, Lapsed
  <2>16. CASE Restart
    BY <2>16 DEF Restart
  <2>17. CASE Tick
    BY <2>17 DEF Tick
  <2>18. CASE UNCHANGED vars
    BY <2>18 DEF vars
  <2> QED
    BY <2>1, <2>2, <2>3, <2>4, <2>5, <2>6, <2>7, <2>8, <2>9, <2>10,
       <2>11, <2>12, <2>13, <2>14, <2>15, <2>16, <2>17, <2>18 DEF Next, Handler
<1> QED
  BY <1>1, <1>2, TypeCorrect, TimeCorrect, PTL DEF Spec

\* When the operator's bulk revocation comes more than MaxRequest after the end
\* of a passkey, no login with that passkey is past its check any more, and none
\* gets past it afterwards.
THEOREM LockCorrect == Spec => []LockInv
<1>1. Init => LockInv
  BY TimingAssumption, NameAssumption
     DEF Init, Time, Gen, Idle, NoCeremony, Opened, LoggingIn, LockInv, LockoutIsFinal
<1>2. IInv /\ TimeInv /\ SeenInv /\ LockInv /\ [Next]_vars => LockInv'
  <2> SUFFICES ASSUME IInv, TimeInv, SeenInv, LockInv, [Next]_vars PROVE LockInv'
    OBVIOUS
  <2> USE TimingAssumption, NameAssumption
         DEF IInv, TypeOK, ControlInv, Opened, LoggingIn, Time, Gen, Passkey, Ceremony,
             SessionRow, Local, Idle, NoCeremony, TimeInv, SeenInv, PasskeySeen, LockInv,
             LockoutIsFinal
  <2>1. ASSUME NEW r \in Proc, NEW c \in Challenge, NEW q \in Principal, NEW b \in Browser,
              NEW answers \in BOOLEAN, FinishTake(r, c, q, b, answers)
       PROVE  LockInv'
    <3>1. Takes(r, c, q)
      <4> HIDE DEF IInv
      <4> QED
        BY <2>1, TakeEffect
    <3> QED
      BY <3>1 DEF Takes
  <2>2. ASSUME NEW r \in Proc, FinishVerify(r) PROVE LockInv'
    <3>1. Verifies(r)
      <4> HIDE DEF IInv
      <4> QED
        BY <2>2, VerifyEffect
    <3> QED
      BY <3>1 DEF Verifies
  <2>3. ASSUME NEW r \in Proc, FinishCount(r) PROVE LockInv'
    BY <2>3 DEF FinishCount, HasPasskey, Step
  <2>4. ASSUME NEW r \in Proc, FinishOpen(r) PROVE LockInv'
    BY <2>4 DEF FinishOpen, Go
  <2>5. ASSUME NEW r \in Proc, NEW s \in Session, RemintRead(r, s) PROVE LockInv'
    BY <2>5 DEF RemintRead, Usable, Go, At
  <2>6. ASSUME NEW r \in Proc, RemintCheck(r) PROVE LockInv'
    <3>1. Checks(r)
      <4> HIDE DEF IInv
      <4> QED
        BY <2>6, CheckEffect
    <3> QED
      BY <3>1 DEF Checks
  <2>7. ASSUME NEW r \in Proc, RemintMint(r) PROVE LockInv'
    BY <2>7 DEF RemintMint, Go
  <2>8. ASSUME NEW r \in Proc, NEW p \in Principal, RevokeRead(r, p) PROVE LockInv'
    BY <2>8 DEF RevokeRead, Go, At
  <2>9. ASSUME NEW r \in Proc, RevokeWrite(r) PROVE LockInv'
    BY <2>9 DEF RevokeWrite, Go
  <2>10. ASSUME NEW p \in Principal, NEW c \in Challenge, LoginBegin(p, c) PROVE LockInv'
    BY <2>10 DEF LoginBegin, Swept, Lapsed
  <2>11. ASSUME NEW c \in Challenge, LoginBeginDiscoverable(c) PROVE LockInv'
    BY <2>11 DEF LoginBeginDiscoverable, Swept, Lapsed
  <2>12. ASSUME NEW b \in Browser, Logout(b) PROVE LockInv'
    BY <2>12 DEF Logout, Revoked
  <2>13. ASSUME NEW p \in Principal, BulkRevoke(p) PROVE LockInv'
    <3>1. RevokesAll(p)
      <4> HIDE DEF IInv
      <4> QED
        BY <2>13, BulkEffect
    <3>2. /\ locked'[p] <= passkey[p].gen
          /\ passkey[p].state = "active" => locked'[p] < passkey[p].gen
      BY <3>1 DEF RevokesAll, EndedBefore
    <3>3. ASSUME NEW r \in Proc, proc[r].pc \in {"verified", "counted"}, proc[r].principal = p
          PROVE  locked'[p] < proc[r].gen
      BY <3>1, <3>3 DEF RevokesAll, EndedBefore
    <3>4. LockoutIsFinal'
      BY <3>1 DEF RevokesAll
    <3>5. \A r \in Proc : proc[r].pc \in {"verified", "counted"} =>
            locked'[proc[r].principal] < proc[r].gen
      BY <3>1, <3>3 DEF RevokesAll
    <3>6. \A o \in Principal : /\ locked'[o] <= passkey[o].gen
                               /\ passkey[o].state = "active" => locked'[o] < passkey[o].gen
      BY <3>1, <3>2 DEF RevokesAll
    <3> QED
      BY <3>1, <3>4, <3>5, <3>6 DEF RevokesAll
  <2>14. ASSUME NEW p \in Principal, Enrol(p) PROVE LockInv'
    BY <2>14 DEF Enrol
  <2>15. CASE SweepExpired
    BY <2>15 DEF SweepExpired, Swept, Lapsed
  <2>16. CASE Restart
    BY <2>16 DEF Restart
  <2>17. CASE Tick
    BY <2>17 DEF Tick
  <2>18. CASE UNCHANGED vars
    BY <2>18 DEF vars
  <2> QED
    BY <2>1, <2>2, <2>3, <2>4, <2>5, <2>6, <2>7, <2>8, <2>9, <2>10,
       <2>11, <2>12, <2>13, <2>14, <2>15, <2>16, <2>17, <2>18 DEF Next, Handler
<1> QED
  BY <1>1, <1>2, TypeCorrect, TimeCorrect, SeenCorrect, PTL DEF Spec

----------------------------------------------------------------------------

\* However many finishes race for a challenge, it opens one session at most.
THEOREM OneSessionPerChallenge == Spec => []ChallengeOpensOneSession
<1>1. ChallengeInv => ChallengeOpensOneSession
  BY DEF ChallengeInv
<1> QED
  BY <1>1, ChallengeCorrect, PTL

\* A session that has expired or was revoked gives no token, but to a re-mint
\* that had read its row.
THEOREM NoTokensAfterSession == Spec => []RemintEndsWithSession
<1>1. MintInv => RemintEndsWithSession
  BY DEF MintInv
<1> QED
  BY <1>1, MintCorrect, PTL

\* While a passkey is revoked neither login nor re-mint gives its principal a
\* token, but to a request that had seen the passkey active.
THEOREM NoTokensAfterPasskey == Spec => []RevokedPasskeyStopsTokens
<1>1. SeenInv => RevokedPasskeyStopsTokens
  BY DEF SeenInv
<1> QED
  BY <1>1, SeenCorrect, PTL

\* Passkey ended, requests run out, sessions revoked: the principal is locked
\* out, and re-enrolment brings none of the old sessions back.
THEOREM LockoutHolds == Spec => []LockoutIsFinal
<1>1. LockInv => LockoutIsFinal
  BY DEF LockInv
<1> QED
  BY <1>1, LockCorrect, PTL

============================================================================
