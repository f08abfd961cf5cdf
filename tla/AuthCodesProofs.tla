-------------------------- MODULE AuthCodesProofs --------------------------
(***************************************************************************)
(* Proofs about AuthCodes, for every number of codes, clients, principals  *)
(* and concurrent token requests: single use, and the refinement of        *)
(* OneTimeCode.                                                            *)
(***************************************************************************)
EXTENDS AuthCodes, TLAPS

\* Request r has consumed its code and not answered yet.
Owns(r, c) == req[r].pc \in {"consumed", "scoped"} /\ req[r].code = c

\* The inductive invariant: a code that some request owns is used and
\* unanswered, and no second request owns it.
OwnerInv ==
    /\ \A r \in Request, c \in Code :
         Owns(r, c) => /\ codes[c].state = "used"
                       /\ answered[c] = 0
                       /\ \A q \in Request : Owns(q, c) => q = r
    /\ \A c \in Code :
         /\ answered[c] \in {0, 1}
         /\ answered[c] = 1 => codes[c].state = "used"
    /\ \A r \in Request : req[r].pc = "validated" => codes[req[r].code].state # "none"
    /\ ConsumedInTime

\* The client and the scopes a request carries, and the tokens made of them, are
\* the code's.
TokenInv ==
    /\ \A r \in Request :
         req[r].pc # "idle" => /\ codes[req[r].code].state # "none"
                               /\ req[r].client = codes[req[r].code].client
    /\ \A r \in Request :
         req[r].pc = "scoped" => req[r].scopes \subseteq codes[req[r].code].scope
    /\ \A t \in tokens : codes[t.code].state = "used"
    /\ TokenMatchesCode

----------------------------------------------------------------------------

\* The record of a request that is not running.
LEMMA IdleFacts == Idle \in Local /\ Idle.pc = "idle"
  BY NonEmptyAssumption DEF Idle, Local

\* What ConsumeOIDCAuthCode does to the code row and to the request: both
\* change and the code was redeemable, or the request ends and nothing changes.
ConsumeEffect(r, row, loc) ==
    LET c == req[r].code IN
    \/ /\ codes[c].state = "unused" /\ now <= codes[c].expires_at
       /\ row.state = "used" /\ row.used_at = now
       /\ row.expires_at = codes[c].expires_at /\ row.scope = codes[c].scope
       /\ row.client = codes[c].client /\ row.principal = codes[c].principal
       /\ loc.pc = "consumed" /\ loc.code = c /\ loc.client = req[r].client
    \/ row = codes[c] /\ loc.pc = "idle"

\* The transaction of ConsumeOIDCAuthCode in the form the proofs use.
LEMMA ConsumeStep ==
    ASSUME TypeOK, NEW r \in Request, Consume(r)
    PROVE  \E row \in CodeRow, loc \in Local :
              /\ codes' = [codes EXCEPT ![req[r].code] = row]
              /\ req' = [req EXCEPT ![r] = loc]
              /\ ConsumeEffect(r, row, loc)
<1> DEFINE c == req[r].code
<1>0. /\ req[r] \in Local /\ c \in Code /\ codes[c] \in CodeRow /\ now \in Time
      /\ codes \in [Code -> CodeRow] /\ req \in [Request -> Local]
  BY DEF TypeOK, Local
<1>1. CASE Redeemable(c)
  <2> DEFINE row == [codes[c] EXCEPT !.state = "used", !.used_at = now]
             loc == [req[r] EXCEPT !.pc = "consumed"]
  <2>1. row \in CodeRow /\ loc \in Local
    BY <1>0 DEF CodeRow, Local
  <2>2. codes' = [codes EXCEPT ![c] = row] /\ req' = [req EXCEPT ![r] = loc]
    BY <1>1 DEF Consume
  <2>3. ConsumeEffect(r, row, loc)
    BY <1>0, <1>1 DEF ConsumeEffect, Redeemable, CodeRow, Local
  <2> QED
    BY <2>1, <2>2, <2>3
<1>2. CASE ~Redeemable(c)
  <2>1. codes' = codes /\ req' = [req EXCEPT ![r] = Idle]
    BY <1>2 DEF Consume
  <2>2. codes' = [codes EXCEPT ![c] = codes[c]]
    BY <1>0, <2>1
  <2> QED
    BY <1>0, <2>1, <2>2, IdleFacts DEF ConsumeEffect
<1> QED
  BY <1>1, <1>2

\* Every variable keeps the type its table, request or clock has in the code.
THEOREM TypeCorrect == Spec => []TypeOK
<1>1. Init => TypeOK
  BY TimingAssumption, NonEmptyAssumption, IdleFacts DEF Init, TypeOK, Time, Deadline,
     ClientRow, CodeRow, Local, Token
<1>2. TypeOK /\ [Next]_vars => TypeOK'
  <2> SUFFICES ASSUME TypeOK, [Next]_vars PROVE TypeOK'
    OBVIOUS
  <2> USE TimingAssumption, ScopeAssumption, IdleFacts DEF TypeOK, Time, Deadline, ClientRow,
         CodeRow, Local, Token
  <2>1. ASSUME NEW c \in Code, NEW cl \in Client, NEW p \in Principal, NEW u \in URI,
              NEW sc \in SUBSET (Scope \cup OIDCScope), Authorize(c, cl, p, u, sc)
       PROVE  TypeOK'
    BY <2>1 DEF Authorize
  <2>2. ASSUME NEW r \in Request, NEW c \in Code, NEW cl \in Client, NEW s \in Secret,
              NEW u \in URI, Validate(r, c, cl, s, u)
       PROVE  TypeOK'
    BY <2>2 DEF Validate, Validated, Redeemable
  <2>3. ASSUME NEW r \in Request, Consume(r) PROVE TypeOK'
    <3>1. PICK row \in CodeRow, loc \in Local :
            /\ codes' = [codes EXCEPT ![req[r].code] = row]
            /\ req' = [req EXCEPT ![r] = loc]
            /\ ConsumeEffect(r, row, loc)
      BY <2>3, ConsumeStep
    <3>2. UNCHANGED <<now, clients, session, grants, tokens, answered>>
      BY <2>3 DEF Consume
    <3> QED
      BY <2>3, <3>1, <3>2 DEF Consume, ConsumeEffect
  <2>4. ASSUME NEW r \in Request, NarrowScopes(r) PROVE TypeOK'
    BY <2>4 DEF NarrowScopes, EffectiveScopes
  <2>5. ASSUME NEW r \in Request, Answer(r) PROVE TypeOK'
    BY <2>5 DEF Answer
  <2>6. ASSUME NEW p \in Principal, Login(p) PROVE TypeOK'
    BY <2>6 DEF Login
  <2>7. ASSUME NEW p \in Principal, NEW s \in Scope, ChangeGrant(p, s) PROVE TypeOK'
    BY <2>7 DEF ChangeGrant
  <2>8. ASSUME NEW cl \in Client, NEW s \in Secret, NEW U \in SUBSET URI, Restart(cl, s, U)
       PROVE  TypeOK'
    BY <2>8 DEF Restart
  <2>9. CASE Tick
    BY <2>9 DEF Tick
  <2>10. CASE UNCHANGED vars
    BY <2>10 DEF vars
  <2> QED
    BY <2>1, <2>2, <2>3, <2>4, <2>5, <2>6, <2>7, <2>8, <2>9,
       <2>10 DEF Next, Exchange
<1> QED
  BY <1>1, <1>2, PTL DEF Spec

\* At any time at most one request owns a code.
LEMMA OwnerCorrect == Spec => []OwnerInv
<1>1. Init => OwnerInv
  BY IdleFacts DEF Init, OwnerInv, Owns, ConsumedInTime
<1>2. TypeOK /\ OwnerInv /\ [Next]_vars => OwnerInv'
  <2> SUFFICES ASSUME TypeOK, OwnerInv, [Next]_vars PROVE OwnerInv'
    OBVIOUS
  <2> USE TimingAssumption, IdleFacts DEF TypeOK, OwnerInv, Owns, ConsumedInTime, Time,
         Deadline, ClientRow, CodeRow, Local, Token
  <2>1. ASSUME NEW c \in Code, NEW cl \in Client, NEW p \in Principal, NEW u \in URI,
              NEW sc \in SUBSET (Scope \cup OIDCScope), Authorize(c, cl, p, u, sc)
       PROVE  OwnerInv'
    BY <2>1 DEF Authorize
  <2>2. ASSUME NEW r \in Request, NEW c \in Code, NEW cl \in Client, NEW s \in Secret,
              NEW u \in URI, Validate(r, c, cl, s, u)
       PROVE  OwnerInv'
    BY <2>2 DEF Validate, Validated, Redeemable
  <2>3. ASSUME NEW r \in Request, Consume(r) PROVE OwnerInv'
    <3>1. PICK row \in CodeRow, loc \in Local :
            /\ codes' = [codes EXCEPT ![req[r].code] = row]
            /\ req' = [req EXCEPT ![r] = loc]
            /\ ConsumeEffect(r, row, loc)
      BY <2>3, ConsumeStep
    <3>2. UNCHANGED <<now, clients, session, grants, tokens, answered>>
      BY <2>3 DEF Consume
    <3>3. CASE row = codes[req[r].code] /\ loc.pc = "idle"
      BY <3>1, <3>2, <3>3
    <3>4. CASE ~(row = codes[req[r].code] /\ loc.pc = "idle")
      <4>1. /\ codes[req[r].code].state = "unused" /\ now <= codes[req[r].code].expires_at
            /\ row.state = "used" /\ row.used_at = now
            /\ row.expires_at = codes[req[r].code].expires_at
            /\ loc.pc = "consumed" /\ loc.code = req[r].code
        BY <3>1, <3>4 DEF ConsumeEffect
      <4>2. PICK c \in Code : c = req[r].code
        OBVIOUS
      <4>3. /\ \A q \in Request : q # r => req'[q] = req[q]
            /\ req'[r].pc = "consumed" /\ req'[r].code = c
            /\ \A d \in Code : d # c => codes'[d] = codes[d]
            /\ codes'[c].state = "used" /\ codes'[c].used_at <= codes'[c].expires_at
            /\ answered' = answered
        BY <3>1, <3>2, <4>1, <4>2
      <4>4. answered[c] = 0 /\ \A q \in Request : ~Owns(q, c)
        BY <4>1, <4>2
      <4>5. \A q \in Request, d \in Code : Owns(q, d)' <=> Owns(q, d) \/ (q = r /\ d = c)
        BY <4>1, <4>2, <4>3
      <4>6. \A q \in Request, d \in Code :
               Owns(q, d)' => /\ codes'[d].state = "used" /\ answered'[d] = 0
                              /\ \A p \in Request : Owns(p, d)' => p = q
        <5> HIDE DEF Owns, TypeOK
        <5> QED
          BY <4>3, <4>4, <4>5
      <4>7. \A q \in Request :
               req'[q].pc = "validated" => codes'[req'[q].code].state # "none"
        <5>1. \A q \in Request : req[q].code \in Code
          OBVIOUS
        <5> HIDE DEF TypeOK, Owns, Time, Deadline, ConsumedInTime, CodeRow, Local
        <5> QED
          BY <4>3, <5>1
      <4>8. \A d \in Code :
               /\ answered'[d] \in {0, 1}
               /\ answered'[d] = 1 => codes'[d].state = "used"
               /\ codes'[d].state = "used" => codes'[d].used_at <= codes'[d].expires_at
        <5> HIDE DEF TypeOK, Owns, Time, Deadline, CodeRow, Local
        <5> QED
          BY <4>3
      <4> QED
        BY <4>6, <4>7, <4>8
    <3> QED
      BY <3>3, <3>4
  <2>4. ASSUME NEW r \in Request, NarrowScopes(r) PROVE OwnerInv'
    <3>1. \A q \in Request :
            /\ req'[q].code = req[q].code
            /\ q # r => req'[q] = req[q]
      BY <2>4 DEF NarrowScopes
    <3>2. req[r].pc = "consumed" /\ req'[r].pc = "scoped"
      BY <2>4 DEF NarrowScopes
    <3>3. UNCHANGED <<codes, answered>>
      BY <2>4 DEF NarrowScopes
    <3>4. \A q \in Request, c \in Code : Owns(q, c)' <=> Owns(q, c)
      BY <3>1, <3>2
    <3>5. \A q \in Request : req'[q].pc = "validated" => q # r
      BY <3>2
    <3>6. \A q \in Request : req'[q].pc = "validated" => codes'[req'[q].code].state # "none"
      <4> HIDE DEF TypeOK, Owns
      <4> QED
        BY <3>1, <3>3, <3>5
    <3> HIDE DEF Owns
    <3> QED
      BY <3>3, <3>4, <3>6
  <2>5. ASSUME NEW r \in Request, Answer(r) PROVE OwnerInv'
    BY <2>5 DEF Answer
  <2>6. ASSUME NEW p \in Principal, Login(p) PROVE OwnerInv'
    BY <2>6 DEF Login
  <2>7. ASSUME NEW p \in Principal, NEW s \in Scope, ChangeGrant(p, s) PROVE OwnerInv'
    BY <2>7 DEF ChangeGrant
  <2>8. ASSUME NEW cl \in Client, NEW s \in Secret, NEW U \in SUBSET URI, Restart(cl, s, U)
       PROVE  OwnerInv'
    BY <2>8 DEF Restart
  <2>9. CASE Tick
    BY <2>9 DEF Tick
  <2>10. CASE UNCHANGED vars
    BY <2>10 DEF vars
  <2> QED
    BY <2>1, <2>2, <2>3, <2>4, <2>5, <2>6, <2>7, <2>8, <2>9,
       <2>10 DEF Next, Exchange
<1> QED
  BY <1>1, <1>2, TypeCorrect, PTL DEF Spec

\* A code produces at most one token response, however requests interleave
\* (ConsumeOIDCAuthCode).
THEOREM CodesAreSingleUse == Spec => []SingleUse
<1>1. OwnerInv => SingleUse
  BY DEF OwnerInv, SingleUse
<1> QED
  BY <1>1, OwnerCorrect, PTL

\* No code is consumed after it expired (the re-check in the transaction).
THEOREM CodesAreConsumedInTime == Spec => []ConsumedInTime
<1>1. OwnerInv => ConsumedInTime
  BY DEF OwnerInv
<1> QED
  BY <1>1, OwnerCorrect, PTL

\* Tokens are minted for the client of their code and carry at most its scopes.
THEOREM TokensMatchCodes == Spec => []TokenMatchesCode
<1>1. Init => TokenInv
  BY IdleFacts DEF Init, TokenInv, TokenMatchesCode
<1>2. TypeOK /\ OwnerInv /\ TokenInv /\ [Next]_vars => TokenInv'
  <2> SUFFICES ASSUME TypeOK, OwnerInv, TokenInv, [Next]_vars PROVE TokenInv'
    OBVIOUS
  <2> USE ScopeAssumption, IdleFacts DEF TypeOK, OwnerInv, Owns, TokenInv, TokenMatchesCode,
         Time, Deadline, ClientRow, CodeRow, Local, Token
  <2>1. ASSUME NEW c \in Code, NEW cl \in Client, NEW p \in Principal, NEW u \in URI,
              NEW sc \in SUBSET (Scope \cup OIDCScope), Authorize(c, cl, p, u, sc)
       PROVE  TokenInv'
    BY <2>1 DEF Authorize
  <2>2. ASSUME NEW r \in Request, NEW c \in Code, NEW cl \in Client, NEW s \in Secret,
              NEW u \in URI, Validate(r, c, cl, s, u)
       PROVE  TokenInv'
    BY <2>2 DEF Validate, Validated, Redeemable
  <2>3. ASSUME NEW r \in Request, Consume(r) PROVE TokenInv'
    <3>1. PICK row \in CodeRow, loc \in Local :
            /\ codes' = [codes EXCEPT ![req[r].code] = row]
            /\ req' = [req EXCEPT ![r] = loc]
            /\ ConsumeEffect(r, row, loc)
      BY <2>3, ConsumeStep
    <3>2. UNCHANGED <<now, clients, session, grants, tokens, answered>>
      BY <2>3 DEF Consume
    <3> QED
      BY <2>3, <3>1, <3>2 DEF Consume, ConsumeEffect
  <2>4. ASSUME NEW r \in Request, NarrowScopes(r) PROVE TokenInv'
    BY <2>4 DEF NarrowScopes, EffectiveScopes
  <2>5. ASSUME NEW r \in Request, Answer(r) PROVE TokenInv'
    BY <2>5 DEF Answer
  <2>6. ASSUME NEW p \in Principal, Login(p) PROVE TokenInv'
    BY <2>6 DEF Login
  <2>7. ASSUME NEW p \in Principal, NEW s \in Scope, ChangeGrant(p, s) PROVE TokenInv'
    BY <2>7 DEF ChangeGrant
  <2>8. ASSUME NEW cl \in Client, NEW s \in Secret, NEW U \in SUBSET URI, Restart(cl, s, U)
       PROVE  TokenInv'
    BY <2>8 DEF Restart
  <2>9. CASE Tick
    BY <2>9 DEF Tick
  <2>10. CASE UNCHANGED vars
    BY <2>10 DEF vars
  <2> QED
    BY <2>1, <2>2, <2>3, <2>4, <2>5, <2>6, <2>7, <2>8, <2>9,
       <2>10 DEF Next, Exchange
<1>3. TokenInv => TokenMatchesCode
  BY DEF TokenInv
<1> QED
  BY <1>1, <1>2, <1>3, TypeCorrect, OwnerCorrect, PTL DEF Spec

\* A code is consumed only by a request that had validated it: a refused
\* request leaves the code to its legitimate holder.
THEOREM RefusalsDoNotConsume == Spec => OnlyValidatedConsumes
<1> DEFINE A == \A c \in Code :
                  codes[c].state = "unused" /\ codes'[c].state = "used" =>
                     \E r \in Request : /\ req[r].pc = "validated" /\ req[r].code = c
                                        /\ req'[r].pc = "consumed"
<1>1. TypeOK /\ [Next]_vars => [A]_vars
  <2> SUFFICES ASSUME TypeOK, [Next]_vars PROVE A
    OBVIOUS
  <2> USE DEF TypeOK, CodeRow, Local
  <2>1. ASSUME NEW r \in Request, Consume(r) PROVE A
    BY <2>1 DEF Consume, Redeemable
  <2>2. ASSUME NEW c \in Code, NEW cl \in Client, NEW p \in Principal, NEW u \in URI,
               NEW sc \in SUBSET (Scope \cup OIDCScope), Authorize(c, cl, p, u, sc)
        PROVE  A
    BY <2>2 DEF Authorize
  <2>3. CASE UNCHANGED codes
    BY <2>3
  <2> QED
    BY <2>1, <2>2, <2>3
       DEF Next, Exchange, Validate, NarrowScopes, Answer, Login, ChangeGrant,
           Restart, Tick, vars
<1> QED
  BY <1>1, TypeCorrect, PTL DEF Spec, OnlyValidatedConsumes

----------------------------------------------------------------------------

\* Steps that leave the code table, the clock and the responses alone are
\* invisible to OneTimeCode.
LEMMA Invisible ==
    ASSUME UNCHANGED <<now, codes, answered>>
    PROVE  UNCHANGED [c \in Code |-> Stage(c)]
  BY DEF Stage

\* What moves one code and leaves the others alone is a step of OneTimeCode.
LEMMA OneMoves ==
    ASSUME NEW c \in Code, \A d \in Code : d # c => Stage(d)' = Stage(d),
           \/ Stage(c) = "absent" /\ Stage(c)' = "live"
           \/ Stage(c) = "live" /\ Stage(c)' = "spent"
           \/ Stage(c) = "spent" /\ Stage(c)' = "answered"
    PROVE  Abstract!Next
<1> DEFINE st == [d \in Code |-> Stage(d)]
<1>1. st' = [st EXCEPT ![c] = Stage(c)']
  OBVIOUS
<1>2. st[c] = Stage(c)
  OBVIOUS
<1> QED
  BY <1>1, <1>2 DEF Abstract!Next, Abstract!Issue, Abstract!Redeem, Abstract!Answer,
                    Abstract!Move

\* The authorization-code flow implements OneTimeCode: every interleaving of
\* concurrent exchanges, restarts and the clock is an interleaving of issuing,
\* redeeming, answering and expiring codes one at a time.
THEOREM FlowImplementsOneTimeCode == Spec => ImplementsOneTimeCode
<1> DEFINE st == [c \in Code |-> Stage(c)]
<1>1. Init => Abstract!Init
  BY DEF Init, Abstract!Init, Stage
<1>2. TypeOK /\ OwnerInv /\ [Next]_vars => [Abstract!Next]_st
  <2> SUFFICES ASSUME TypeOK, OwnerInv, [Next]_vars PROVE Abstract!Next \/ st' = st
    OBVIOUS
  <2>0. /\ now \in Int
        /\ \A c \in Code : /\ codes[c].state \in {"none", "unused", "used"}
                           /\ codes[c].expires_at \in Int
                           /\ answered[c] \in {0, 1}
                           /\ answered[c] = 1 => codes[c].state = "used"
    BY TimingAssumption DEF TypeOK, OwnerInv, CodeRow, Deadline, Time
  <2>1. ASSUME NEW c \in Code, NEW cl \in Client, NEW p \in Principal, NEW u \in URI,
               NEW sc \in SUBSET (Scope \cup OIDCScope), Authorize(c, cl, p, u, sc)
        PROVE  Abstract!Next
    <3>1. \A d \in Code : d # c => Stage(d)' = Stage(d)
      BY <2>1 DEF Authorize, Stage, TypeOK
    <3>2. Stage(c) = "absent" /\ Stage(c)' = "live"
      BY <2>0, <2>1, TimingAssumption DEF Authorize, Stage, TypeOK
    <3> QED
      BY <3>1, <3>2, OneMoves
  <2>2. ASSUME NEW r \in Request, Consume(r) PROVE Abstract!Next \/ st' = st
    <3>0. PICK c \in Code : c = req[r].code
      BY DEF TypeOK, Local
    <3>1. PICK row \in CodeRow, loc \in Local :
            /\ codes' = [codes EXCEPT ![c] = row]
            /\ req' = [req EXCEPT ![r] = loc]
            /\ ConsumeEffect(r, row, loc)
      BY <2>2, <3>0, ConsumeStep
    <3>2. UNCHANGED <<now, answered>> /\ codes \in [Code -> CodeRow]
      BY <2>2 DEF Consume, TypeOK
    <3>3. \A d \in Code : d # c => Stage(d)' = Stage(d)
      BY <3>1, <3>2 DEF Stage
    <3>4. CASE row = codes[c]
      BY <3>1, <3>2, <3>4, Invisible
    <3>5. CASE row # codes[c]
      <4>1. /\ codes[c].state = "unused" /\ now <= codes[c].expires_at
            /\ codes'[c].state = "used"
        BY <3>0, <3>1, <3>2, <3>5 DEF ConsumeEffect
      <4>2. Stage(c) = "live" /\ Stage(c)' = "spent"
        BY <2>0, <3>2, <4>1 DEF Stage
      <4> QED
        BY <3>2, <3>3, <4>2, OneMoves
    <3> QED
      BY <3>4, <3>5
  <2>3. ASSUME NEW r \in Request, Answer(r) PROVE Abstract!Next
    <3>0. PICK c \in Code : c = req[r].code
      BY DEF TypeOK, Local
    <3>1. Owns(r, c)
      BY <2>3, <3>0 DEF Answer, Owns
    <3>2. codes[c].state = "used" /\ answered[c] = 0
      BY <3>1 DEF OwnerInv
    <3>3. /\ UNCHANGED <<now, codes>>
          /\ answered' = [answered EXCEPT ![c] = answered[c] + 1]
      BY <2>3, <3>0 DEF Answer
    <3>4. \A d \in Code : d # c => Stage(d)' = Stage(d)
      BY <3>1, <3>3 DEF Stage, TypeOK
    <3>5. answered'[c] = 1
      BY <3>1, <3>2, <3>3 DEF TypeOK
    <3>6. Stage(c) = "spent" /\ Stage(c)' = "answered"
      BY <3>2, <3>3, <3>5 DEF Stage
    <3> QED
      BY <3>1, <3>4, <3>6, OneMoves
  <2>4. CASE Tick
    <3> DEFINE S == {c \in Code : Stage(c) = "live" /\ now + 1 > codes[c].expires_at}
    <3>1. now' = now + 1 /\ UNCHANGED <<codes, answered>>
      BY <2>4 DEF Tick
    <3>2. \A c \in S : st[c] = "live"
      OBVIOUS
    <3>3. ASSUME NEW c \in Code PROVE Stage(c)' = IF c \in S THEN "expired" ELSE Stage(c)
      <4>1. /\ codes[c].state \in {"none", "unused", "used"} /\ answered[c] \in {0, 1}
            /\ now \in Int /\ codes[c].expires_at \in Int
        BY <2>0
      <4>2. CASE codes[c].state = "unused"
        <5>1. CASE now + 1 <= codes[c].expires_at
          <6>1. Stage(c) = "live" /\ Stage(c)' = "live" /\ c \notin S
            BY <3>1, <4>1, <4>2, <5>1 DEF Stage
          <6> QED
            BY <6>1
        <5>2. CASE now <= codes[c].expires_at /\ now + 1 > codes[c].expires_at
          <6>1. Stage(c) = "live" /\ Stage(c)' = "expired"
            BY <3>1, <4>1, <4>2, <5>2 DEF Stage
          <6> QED
            BY <5>2, <6>1
        <5>3. CASE now > codes[c].expires_at
          <6>1. Stage(c) = "expired" /\ Stage(c)' = "expired"
            BY <3>1, <4>1, <4>2, <5>3 DEF Stage
          <6> QED
            BY <6>1
        <5> QED
          BY <4>1, <5>1, <5>2, <5>3
      <4>3. CASE codes[c].state # "unused"
        <5>1. Stage(c)' = Stage(c) /\ Stage(c) # "live"
          BY <3>1, <4>1, <4>3 DEF Stage
        <5> QED
          BY <5>1
      <4> QED
        BY <4>2, <4>3
    <3>4. st' = [c \in Code |-> IF c \in S THEN "expired" ELSE st[c]]
      BY <3>3
    <3> QED
      BY <3>2, <3>4 DEF Abstract!Next, Abstract!Expire
  <2>5. CASE UNCHANGED <<now, codes, answered>>
    BY <2>5, Invisible
  <2> QED
    BY <2>1, <2>2, <2>3, <2>4, <2>5
       DEF Next, Exchange, Validate, NarrowScopes, Login, ChangeGrant, Restart, vars
<1> QED
  BY <1>1, <1>2, TypeCorrect, OwnerCorrect, PTL
     DEF Spec, ImplementsOneTimeCode, Abstract!Spec
============================================================================
