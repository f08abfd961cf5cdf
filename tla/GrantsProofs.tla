---------------------------- MODULE GrantsProofs ----------------------------
(***************************************************************************)
(* Proofs about Grants, for every number of principals, scopes, grants,    *)
(* machine keys and concurrent requests, and every choice of the times.    *)
(***************************************************************************)
EXTENDS Grants, TLAPS

\* What rows and requests refer to, by their state.
ControlInv ==
    /\ \A g \in Grant : grants[g].state # "none" => grants[g].principal \in Principal
    /\ \A k \in Key : keys[k].state # "none" => keys[k].principal \in Agent
    /\ \A r \in Proc :
         /\ proc[r].pc # "idle" => proc[r].by \in Principal
         /\ proc[r].pc = "newKey" => proc[r].agent \in Agent
         /\ proc[r].pc = "revokingGrant" =>
              proc[r].grant \in Grant /\ grants[proc[r].grant].state # "none"
         /\ proc[r].pc = "revokingKey" => proc[r].key \in Key
         /\ proc[r].key # NoKey => keys[proc[r].key].state # "none"

\* Type correctness, with what it needs to be inductive.
IInv == TypeOK /\ ControlInv

\* Types: every row, token and request has its shape.
THEOREM TypeCorrect == Spec => []IInv
<1>1. Init => IInv
  BY TimingAssumption, NameAssumption
            DEF Init, IInv, TypeOK, ControlInv, Idle, Principal, Time, GrantRow, KeyRow, Local
<1>2. IInv /\ [Next]_vars => IInv'
  <2> SUFFICES ASSUME IInv, [Next]_vars PROVE IInv'
    OBVIOUS
  <2> USE TimingAssumption, NameAssumption DEF IInv, TypeOK, ControlInv, Idle, Principal,
         Time, GrantRow, KeyRow, Local
  <2>1. ASSUME NEW r \in Proc, NEW p \in Principal, Authorise(r, p) PROVE IInv'
    BY <2>1 DEF Authorise, Bears, Go
  <2>2. ASSUME NEW r \in Proc, NEW p \in Principal, NEW sc \in Scope,
              CreateGrant(r, p, sc)
       PROVE  IInv'
    BY <2>2 DEF CreateGrant, Inserted, Conflicts, Go
  <2>3. ASSUME NEW r \in Proc, AnswerOnly(r) PROVE IInv'
    BY <2>3 DEF AnswerOnly, Go
  <2>4. ASSUME NEW r \in Proc, NEW g \in Grant, RevokeGrantRead(r, g) PROVE IInv'
    BY <2>4 DEF RevokeGrantRead, Active, Go
  <2>5. ASSUME NEW r \in Proc, RevokeGrantWrite(r) PROVE IInv'
    <3> DEFINE g == proc[r].grant
    <3>1. g \in Grant /\ grants[g].principal \in Principal /\ grants[g].scope \in Scope
      BY <2>5 DEF RevokeGrantWrite
    <3>2. held' \in [Principal -> [Scope -> Time]]
      <4>1. CASE Active(g)
        BY <2>5, <3>1, <4>1 DEF RevokeGrantWrite
      <4>2. CASE ~Active(g)
        BY <2>5, <4>2 DEF RevokeGrantWrite
      <4> QED
        BY <4>1, <4>2
    <3> QED
      BY <2>5, <3>1, <3>2 DEF RevokeGrantWrite, Go
  <2>6. ASSUME NEW r \in Proc, NEW a \in Agent, FindAgent(r, a) PROVE IInv'
    BY <2>6 DEF FindAgent, Go
  <2>7. ASSUME NEW r \in Proc, CreateMachineKey(r) PROVE IInv'
    BY <2>7 DEF CreateMachineKey, Go
  <2>8. ASSUME NEW r \in Proc, NEW k \in Key, RevokeKeyRead(r, k) PROVE IInv'
    BY <2>8 DEF RevokeKeyRead, Go
  <2>9. ASSUME NEW r \in Proc, RevokeKeyWrite(r) PROVE IInv'
    BY <2>9 DEF RevokeKeyWrite, Go
  <2>10. ASSUME NEW r \in Proc, NEW p \in Human, HumanAuthenticated(r, p) PROVE IInv'
    BY <2>10 DEF HumanAuthenticated, Go
  <2>11. ASSUME NEW r \in Proc, NEW k \in Key, ClientAuthenticated(r, k) PROVE IInv'
    BY <2>11 DEF ClientAuthenticated, Accepts, Go
  <2>12. ASSUME NEW r \in Proc, NEW wanted \in SUBSET Scope, ReadScopes(r, wanted) PROVE IInv'
    BY <2>12 DEF ReadScopes, Go
  <2>13. ASSUME NEW r \in Proc, RefuseScopes(r) PROVE IInv'
    BY <2>13 DEF RefuseScopes, Go
  <2>14. ASSUME NEW r \in Proc, MintSession(r) PROVE IInv'
    BY <2>14 DEF MintSession, Expiry, Go
  <2>15. ASSUME NEW configured \in BOOLEAN, Restart(configured) PROVE IInv'
    <3>1. CASE Seeds(configured)
      <4>1. PICK g \in Grant : Inserted(g, BootAdmin, Admin, Bootstrap)
        BY <2>15, <3>1 DEF Restart
      <4>2. /\ proc' = [q \in Proc |-> Idle]
            /\ principals' \in SUBSET Principal
            /\ UNCHANGED <<now, enrolled, keys, tokens, held, lastMint>>
        BY <2>15 DEF Restart
      <4> QED
        BY <4>1, <4>2 DEF Inserted
    <3>2. CASE ~Seeds(configured)
      BY <2>15, <3>2 DEF Restart
    <3> QED
      BY <3>1, <3>2
  <2>16. ASSUME NEW p \in Human, Invite(p) PROVE IInv'
    BY <2>16 DEF Invite
  <2>17. ASSUME NEW p \in Human, Enrol(p) PROVE IInv'
    BY <2>17 DEF Enrol
  <2>18. CASE Tick
    BY <2>18 DEF Tick
  <2>19. CASE UNCHANGED vars
    BY <2>19 DEF vars
  <2> QED
    BY <2>1, <2>2, <2>3, <2>4, <2>5, <2>6, <2>7, <2>8, <2>9, <2>10, <2>11,
       <2>12, <2>13, <2>14, <2>15, <2>16, <2>17, <2>18,
       <2>19 DEF Next, Handler
<1> QED
  BY <1>1, <1>2, PTL DEF Spec

\* No request runs longer than MaxRequest, and scopes were lost in the past.
TimeInv ==
    /\ \A r \in Proc :
         proc[r].pc # "idle" => proc[r].since <= now /\ now <= proc[r].since + MaxRequest
    /\ \A p \in Principal, sc \in Scope : held[p][sc] <= now

\* The times of requests and of losses.
LEMMA TimesInOrder == Spec => []TimeInv
<1>1. Init => TimeInv
  BY TimingAssumption, NameAssumption DEF Init, TimeInv, Idle, Principal, Time, GrantRow,
     KeyRow, Local
<1>2. IInv /\ TimeInv /\ [Next]_vars => TimeInv'
  <2> SUFFICES ASSUME IInv, TimeInv, [Next]_vars PROVE TimeInv'
    OBVIOUS
  <2> USE TimingAssumption, NameAssumption DEF IInv, TypeOK, ControlInv, TimeInv, Idle,
         Principal, Time, GrantRow, KeyRow, Local
  <2>1. ASSUME NEW r \in Proc, NEW p \in Principal, Authorise(r, p) PROVE TimeInv'
    BY <2>1 DEF Authorise, Bears, Go
  <2>2. ASSUME NEW r \in Proc, NEW p \in Principal, NEW sc \in Scope,
              CreateGrant(r, p, sc)
       PROVE  TimeInv'
    BY <2>2 DEF CreateGrant, Inserted, Conflicts, Go
  <2>3. ASSUME NEW r \in Proc, AnswerOnly(r) PROVE TimeInv'
    BY <2>3 DEF AnswerOnly, Go
  <2>4. ASSUME NEW r \in Proc, NEW g \in Grant, RevokeGrantRead(r, g) PROVE TimeInv'
    BY <2>4 DEF RevokeGrantRead, Active, Go
  <2>5. ASSUME NEW r \in Proc, RevokeGrantWrite(r) PROVE TimeInv'
    <3> DEFINE g == proc[r].grant
    <3>1. g \in Grant /\ grants[g].principal \in Principal /\ grants[g].scope \in Scope
      BY <2>5 DEF RevokeGrantWrite
    <3>2. \A p \in Principal, sc \in Scope : held'[p][sc] <= now
      <4>1. CASE Active(g)
        BY <2>5, <3>1, <4>1 DEF RevokeGrantWrite
      <4>2. CASE ~Active(g)
        BY <2>5, <4>2 DEF RevokeGrantWrite
      <4> QED
        BY <4>1, <4>2
    <3> QED
      BY <2>5, <3>2 DEF RevokeGrantWrite, Go
  <2>6. ASSUME NEW r \in Proc, NEW a \in Agent, FindAgent(r, a) PROVE TimeInv'
    BY <2>6 DEF FindAgent, Go
  <2>7. ASSUME NEW r \in Proc, CreateMachineKey(r) PROVE TimeInv'
    BY <2>7 DEF CreateMachineKey, Go
  <2>8. ASSUME NEW r \in Proc, NEW k \in Key, RevokeKeyRead(r, k) PROVE TimeInv'
    BY <2>8 DEF RevokeKeyRead, Go
  <2>9. ASSUME NEW r \in Proc, RevokeKeyWrite(r) PROVE TimeInv'
    BY <2>9 DEF RevokeKeyWrite, Go
  <2>10. ASSUME NEW r \in Proc, NEW p \in Human, HumanAuthenticated(r, p) PROVE TimeInv'
    BY <2>10 DEF HumanAuthenticated, Go
  <2>11. ASSUME NEW r \in Proc, NEW k \in Key, ClientAuthenticated(r, k) PROVE TimeInv'
    BY <2>11 DEF ClientAuthenticated, Accepts, Go
  <2>12. ASSUME NEW r \in Proc, NEW wanted \in SUBSET Scope, ReadScopes(r, wanted) PROVE TimeInv'
    BY <2>12 DEF ReadScopes, Go
  <2>13. ASSUME NEW r \in Proc, RefuseScopes(r) PROVE TimeInv'
    BY <2>13 DEF RefuseScopes, Go
  <2>14. ASSUME NEW r \in Proc, MintSession(r) PROVE TimeInv'
    BY <2>14 DEF MintSession, Expiry, Go
  <2>15. ASSUME NEW configured \in BOOLEAN, Restart(configured) PROVE TimeInv'
    BY <2>15 DEF Restart, Seeds, Inserted, Conflicts
  <2>16. ASSUME NEW p \in Human, Invite(p) PROVE TimeInv'
    BY <2>16 DEF Invite
  <2>17. ASSUME NEW p \in Human, Enrol(p) PROVE TimeInv'
    BY <2>17 DEF Enrol
  <2>18. CASE Tick
    BY <2>18 DEF Tick
  <2>19. CASE UNCHANGED vars
    BY <2>19 DEF vars
  <2> QED
    BY <2>1, <2>2, <2>3, <2>4, <2>5, <2>6, <2>7, <2>8, <2>9, <2>10, <2>11,
       <2>12, <2>13, <2>14, <2>15, <2>16, <2>17, <2>18,
       <2>19 DEF Next, Handler
<1> QED
  BY <1>1, <1>2, TypeCorrect, PTL DEF Spec

\* At most one active grant of a scope to a principal, whatever the handlers and
\* the bootstrap do in between: INSERT checks the unique index itself.
THEOREM OneGrantAlways == Spec => []OneActiveGrant
<1>1. Init => OneActiveGrant
  BY DEF Init, OneActiveGrant, Active
<1>2. IInv /\ OneActiveGrant /\ [Next]_vars => OneActiveGrant'
  <2> SUFFICES ASSUME IInv, OneActiveGrant, [Next]_vars PROVE OneActiveGrant'
    OBVIOUS
  <2> USE DEF IInv, TypeOK, ControlInv, OneActiveGrant, Active, GrantRow
  <2>1. ASSUME NEW r \in Proc, NEW p \in Principal, Authorise(r, p) PROVE OneActiveGrant'
    BY <2>1 DEF Authorise, Bears, Go
  <2>2. ASSUME NEW r \in Proc, NEW p \in Principal, NEW sc \in Scope,
              CreateGrant(r, p, sc)
       PROVE  OneActiveGrant'
    <3>1. PICK g \in Grant : Inserted(g, p, sc, proc[r].by)
      BY <2>2 DEF CreateGrant
    <3>2. ~\E h \in Grant : Active(h) /\ grants[h].principal = p /\ grants[h].scope = sc
      BY <2>2 DEF CreateGrant, Conflicts, Holds
    <3>3. \A h \in Grant : IF h = g
                            THEN grants'[h].principal = p /\ grants'[h].scope = sc
                            ELSE grants'[h] = grants[h]
      BY <3>1 DEF Inserted
    <3> QED
      BY <3>2, <3>3
  <2>3. ASSUME NEW r \in Proc, AnswerOnly(r) PROVE OneActiveGrant'
    BY <2>3 DEF AnswerOnly, Go
  <2>4. ASSUME NEW r \in Proc, NEW g \in Grant, RevokeGrantRead(r, g) PROVE OneActiveGrant'
    BY <2>4 DEF RevokeGrantRead, Active, Go
  <2>5. ASSUME NEW r \in Proc, RevokeGrantWrite(r) PROVE OneActiveGrant'
    BY <2>5 DEF RevokeGrantWrite, Active, Go
  <2>6. ASSUME NEW r \in Proc, NEW a \in Agent, FindAgent(r, a) PROVE OneActiveGrant'
    BY <2>6 DEF FindAgent, Go
  <2>7. ASSUME NEW r \in Proc, CreateMachineKey(r) PROVE OneActiveGrant'
    BY <2>7 DEF CreateMachineKey, Go
  <2>8. ASSUME NEW r \in Proc, NEW k \in Key, RevokeKeyRead(r, k) PROVE OneActiveGrant'
    BY <2>8 DEF RevokeKeyRead, Go
  <2>9. ASSUME NEW r \in Proc, RevokeKeyWrite(r) PROVE OneActiveGrant'
    BY <2>9 DEF RevokeKeyWrite, Go
  <2>10. ASSUME NEW r \in Proc, NEW p \in Human, HumanAuthenticated(r, p) PROVE OneActiveGrant'
    BY <2>10 DEF HumanAuthenticated, Go
  <2>11. ASSUME NEW r \in Proc, NEW k \in Key, ClientAuthenticated(r, k) PROVE OneActiveGrant'
    BY <2>11 DEF ClientAuthenticated, Accepts, Go
  <2>12. ASSUME NEW r \in Proc, NEW wanted \in SUBSET Scope, ReadScopes(r, wanted)
         PROVE  OneActiveGrant'
    BY <2>12 DEF ReadScopes, Go
  <2>13. ASSUME NEW r \in Proc, RefuseScopes(r) PROVE OneActiveGrant'
    BY <2>13 DEF RefuseScopes, Go
  <2>14. ASSUME NEW r \in Proc, MintSession(r) PROVE OneActiveGrant'
    BY <2>14 DEF MintSession, Expiry, Go
  <2>15. ASSUME NEW configured \in BOOLEAN, Restart(configured) PROVE OneActiveGrant'
    <3>1. CASE Seeds(configured)
      <4>1. PICK g \in Grant : Inserted(g, BootAdmin, Admin, Bootstrap)
        BY <2>15, <3>1 DEF Restart
      <4>2. ~\E h \in Grant : /\ Active(h) /\ grants[h].principal = BootAdmin
                              /\ grants[h].scope = Admin
        BY <3>1 DEF Seeds, Conflicts, Holds
      <4>3. \A h \in Grant : IF h = g
                              THEN grants'[h].principal = BootAdmin /\ grants'[h].scope = Admin
                              ELSE grants'[h] = grants[h]
        BY <4>1 DEF Inserted
      <4> QED
        BY <4>2, <4>3
    <3>2. CASE ~Seeds(configured)
      BY <2>15, <3>2 DEF Restart
    <3> QED
      BY <3>1, <3>2
  <2>16. ASSUME NEW p \in Human, Invite(p) PROVE OneActiveGrant'
    BY <2>16 DEF Invite
  <2>17. ASSUME NEW p \in Human, Enrol(p) PROVE OneActiveGrant'
    BY <2>17 DEF Enrol
  <2>18. CASE Tick
    BY <2>18 DEF Tick
  <2>19. CASE UNCHANGED vars
    BY <2>19 DEF vars
  <2> QED
    BY <2>1, <2>2, <2>3, <2>4, <2>5, <2>6, <2>7, <2>8, <2>9, <2>10, <2>11,
       <2>12, <2>13, <2>14, <2>15, <2>16, <2>17, <2>18,
       <2>19 DEF Next, Handler
<1> QED
  BY <1>1, <1>2, TypeCorrect, PTL DEF Spec

\* The steps by how they touch the grants: not at all, one more row, or a
\* revocation.
LEMMA GrantSteps ==
    ASSUME IInv, [Next]_vars
    PROVE  \/ UNCHANGED <<grants, held>> /\ now <= now'
           \/ \E r \in Proc, p \in Principal, sc \in Scope : CreateGrant(r, p, sc)
           \/ \E configured \in BOOLEAN : Seeds(configured) /\ Restart(configured)
           \/ \E r \in Proc : RevokeGrantWrite(r)
<1> DEFINE Quiet == UNCHANGED <<grants, held>> /\ now <= now'
<1> DEFINE Adds ==
             \/ \E r \in Proc, p \in Principal, sc \in Scope : CreateGrant(r, p, sc)
             \/ \E configured \in BOOLEAN : Seeds(configured) /\ Restart(configured)
<1> DEFINE Effect == Quiet \/ Adds \/ \E r \in Proc : RevokeGrantWrite(r)
<1>0. now \in Int /\ now <= now /\ now <= now + 1
  BY DEF IInv, TypeOK, Time
<1>1. ASSUME NEW r \in Proc, Handler(r) PROVE Effect
  <2>1. ASSUME NEW p \in Principal, NEW sc \in Scope, CreateGrant(r, p, sc) PROVE Adds
    BY <2>1
  <2>2. CASE RevokeGrantWrite(r)
    BY <2>2
  <2>3. ASSUME NEW p \in Principal, Authorise(r, p) PROVE Quiet
    BY <1>0, <2>3 DEF Authorise
  <2>4. ASSUME AnswerOnly(r) PROVE Quiet
    BY <1>0, <2>4 DEF AnswerOnly
  <2>5. ASSUME NEW g \in Grant, RevokeGrantRead(r, g) PROVE Quiet
    BY <1>0, <2>5 DEF RevokeGrantRead
  <2>6. ASSUME NEW a \in Agent, FindAgent(r, a) PROVE Quiet
    BY <1>0, <2>6 DEF FindAgent
  <2>7. ASSUME CreateMachineKey(r) PROVE Quiet
    BY <1>0, <2>7 DEF CreateMachineKey
  <2>8. ASSUME NEW k \in Key, RevokeKeyRead(r, k) PROVE Quiet
    BY <1>0, <2>8 DEF RevokeKeyRead
  <2>9. ASSUME NEW k \in Key, ClientAuthenticated(r, k) PROVE Quiet
    BY <1>0, <2>9 DEF ClientAuthenticated
  <2>10. ASSUME RevokeKeyWrite(r) PROVE Quiet
    BY <1>0, <2>10 DEF RevokeKeyWrite
  <2>11. ASSUME NEW p \in Human, HumanAuthenticated(r, p) PROVE Quiet
    BY <1>0, <2>11 DEF HumanAuthenticated
  <2>12. ASSUME NEW wanted \in SUBSET Scope, ReadScopes(r, wanted) PROVE Quiet
    BY <1>0, <2>12 DEF ReadScopes
  <2>13. ASSUME RefuseScopes(r) PROVE Quiet
    BY <1>0, <2>13 DEF RefuseScopes
  <2>14. ASSUME MintSession(r) PROVE Quiet
    BY <1>0, <2>14 DEF MintSession
  <2> HIDE DEF Quiet, Adds
  <2> QED
    BY <1>1, <2>1, <2>2, <2>3, <2>4, <2>5, <2>6, <2>7, <2>8, <2>9, <2>10,
       <2>11, <2>12, <2>13, <2>14, Zenon DEF Handler
<1>2. ASSUME NEW configured \in BOOLEAN, Restart(configured) PROVE Effect
  <2>1. CASE Seeds(configured)
    BY <1>2, <2>1
  <2>2. CASE ~Seeds(configured)
    BY <1>0, <1>2, <2>2 DEF Restart
  <2> QED
    BY <2>1, <2>2
<1>3. ASSUME (\E p \in Human : Invite(p) \/ Enrol(p)) \/ Tick \/ UNCHANGED vars
      PROVE  Effect
  BY <1>0, <1>3 DEF Invite, Enrol, Tick, vars
<1> HIDE DEF Effect
<1>4. ASSUME Next PROVE Effect
  BY <1>1, <1>2, <1>3, <1>4, Zenon DEF Next
<1>5. Effect
  BY <1>3, <1>4
<1> QED
  BY <1>5, Zenon DEF Effect

\* No step takes back the time up to which a principal has held a scope.
LEMMA HeldGrows ==
    ASSUME IInv, IInv', TimeInv, [Next]_vars, NEW p \in Principal, NEW sc \in Scope
    PROVE  /\ HeldUntil(p, sc) \in Int /\ HeldUntil(p, sc) <= now
           /\ HeldUntil(p, sc)' \in Int
           /\ HeldUntil(p, sc) <= HeldUntil(p, sc)'
<1>0. /\ now \in Int /\ now' \in Int /\ held[p][sc] \in Int /\ held'[p][sc] \in Int
      /\ held[p][sc] <= now /\ now <= now
  BY DEF IInv, TypeOK, Time, TimeInv
<1>1. CASE UNCHANGED <<grants, held>> /\ now <= now'
  BY <1>0, <1>1 DEF HeldUntil, Holds, Active
<1>2. CASE \/ \E r \in Proc, q \in Principal, s \in Scope : CreateGrant(r, q, s)
           \/ \E configured \in BOOLEAN : Seeds(configured) /\ Restart(configured)
  <2>0. /\ UNCHANGED <<held, now>>
        /\ \A g \in Grant : grants[g].state # "none" => grants'[g] = grants[g]
    <3>1. \E g \in Grant, q \in Principal, s \in Scope,
             by \in Principal \cup {NoPrincipal, Bootstrap} :
             Inserted(g, q, s, by)
      BY <1>2, NameAssumption
         DEF CreateGrant, Restart, Principal, IInv, TypeOK, Local
    <3>2. UNCHANGED <<held, now>>
      BY <1>2 DEF CreateGrant, Restart
    <3> QED
      BY <3>1, <3>2 DEF Inserted, IInv, TypeOK
  <2>1. Holds(p, sc) => Holds(p, sc)'
    BY <2>0 DEF Holds, Active
  <2> QED
    BY <1>0, <2>0, <2>1 DEF HeldUntil
<1>3. ASSUME NEW r \in Proc, RevokeGrantWrite(r)
      PROVE  HeldUntil(p, sc) \in Int /\ HeldUntil(p, sc)' \in Int
             /\ HeldUntil(p, sc) <= now /\ HeldUntil(p, sc) <= HeldUntil(p, sc)'
  <2> DEFINE g == proc[r].grant
  <2>1. /\ now' = now /\ g \in Grant
        /\ \A h \in Grant : h # g => grants'[h] = grants[h]
        /\ grants[g].principal \in Principal /\ grants[g].scope \in Scope
        /\ grants'[g].principal = grants[g].principal /\ grants'[g].scope = grants[g].scope
        /\ grants'[g].state = "revoked"
    BY <1>3 DEF RevokeGrantWrite, IInv, TypeOK, ControlInv, GrantRow
  <2>2. CASE Active(g) /\ grants[g].principal = p /\ grants[g].scope = sc
    <3>1. held'[p][sc] = now
      BY <1>3, <2>1, <2>2 DEF RevokeGrantWrite, IInv, TypeOK
    <3> QED
      BY <1>0, <2>1, <3>1 DEF HeldUntil
  <2>3. CASE ~(Active(g) /\ grants[g].principal = p /\ grants[g].scope = sc)
    <3>1. held'[p][sc] = held[p][sc]
      <4>1. CASE Active(g)
        BY <1>3, <2>1, <2>3, <4>1 DEF RevokeGrantWrite, IInv, TypeOK
      <4>2. CASE ~Active(g)
        BY <1>3, <4>2 DEF RevokeGrantWrite
      <4> QED
        BY <4>1, <4>2
    <3>2. Holds(p, sc) => Holds(p, sc)'
      BY <2>1, <2>3 DEF Holds, Active
    <3> QED
      BY <1>0, <2>1, <3>1, <3>2 DEF HeldUntil
  <2> QED
    BY <2>2, <2>3
<1> QED
  BY <1>1, <1>2, <1>3, GrantSteps

\* What a request may still do rests on scopes held recently: a mint on those
\* held since it began, an administration on a token.  H[p][sc] is the time up
\* to which p has held sc.
Power(H) ==
    /\ \A r \in Proc :
         /\ proc[r].pc = "scoped" =>
              \A sc \in proc[r].scopes : proc[r].since <= H[proc[r].by][sc]
         /\ proc[r].pc \in {"admin", "newKey", "revokingGrant", "revokingKey"} =>
              proc[r].since <= H[proc[r].by][Admin] + MaxRequest + SessionTTL
    /\ \A p \in Principal, sc \in Scope : tokens[p][sc] <= H[p][sc] + MaxRequest + SessionTTL

HeldTable == [p \in Principal |-> [sc \in Scope |-> HeldUntil(p, sc)]]
PowerInv == Power(HeldTable)

\* A step keeps Power when the times up to which scopes were held only grow.
LEMMA PowerSteps ==
    ASSUME IInv, TimeInv, [Next]_vars,
           NEW H \in [Principal -> [Scope -> Int]], NEW J \in [Principal -> [Scope -> Int]],
           \A p \in Principal, sc \in Scope :
              /\ H[p][sc] <= J[p][sc]
              /\ Holds(p, sc) => H[p][sc] = now,
           Power(H)
    PROVE  Power(J)'
<1> USE TimingAssumption, NameAssumption DEF IInv, TypeOK, ControlInv, TimeInv, Power, Idle,
       Principal, Time, GrantRow, KeyRow, Local
<1>1. ASSUME NEW r \in Proc, NEW p \in Principal, Authorise(r, p) PROVE Power(J)'
  BY <1>1 DEF Authorise, Bears, Go
<1>2. ASSUME NEW r \in Proc, NEW p \in Principal, NEW sc \in Scope,
            CreateGrant(r, p, sc)
     PROVE  Power(J)'
  BY <1>2 DEF CreateGrant, Go
<1>3. ASSUME NEW r \in Proc, AnswerOnly(r) PROVE Power(J)'
  BY <1>3 DEF AnswerOnly, Go
<1>4. ASSUME NEW r \in Proc, NEW g \in Grant, RevokeGrantRead(r, g) PROVE Power(J)'
  BY <1>4 DEF RevokeGrantRead, Active, Go
<1>5. ASSUME NEW r \in Proc, RevokeGrantWrite(r) PROVE Power(J)'
  BY <1>5 DEF RevokeGrantWrite, Go
<1>6. ASSUME NEW r \in Proc, NEW a \in Agent, FindAgent(r, a) PROVE Power(J)'
  BY <1>6 DEF FindAgent, Go
<1>7. ASSUME NEW r \in Proc, CreateMachineKey(r) PROVE Power(J)'
  BY <1>7 DEF CreateMachineKey, Go
<1>8. ASSUME NEW r \in Proc, NEW k \in Key, RevokeKeyRead(r, k) PROVE Power(J)'
  BY <1>8 DEF RevokeKeyRead, Go
<1>9. ASSUME NEW r \in Proc, RevokeKeyWrite(r) PROVE Power(J)'
  BY <1>9 DEF RevokeKeyWrite, Go
<1>10. ASSUME NEW r \in Proc, NEW p \in Human, HumanAuthenticated(r, p) PROVE Power(J)'
  BY <1>10 DEF HumanAuthenticated, Go
<1>11. ASSUME NEW r \in Proc, NEW k \in Key, ClientAuthenticated(r, k) PROVE Power(J)'
  BY <1>11 DEF ClientAuthenticated, Accepts, Go
<1>12. ASSUME NEW r \in Proc, NEW wanted \in SUBSET Scope, ReadScopes(r, wanted) PROVE Power(J)'
  BY <1>12 DEF ReadScopes, Go, GetActiveScopes
<1>13. ASSUME NEW r \in Proc, RefuseScopes(r) PROVE Power(J)'
  BY <1>13 DEF RefuseScopes, Go
<1>14. ASSUME NEW r \in Proc, MintSession(r) PROVE Power(J)'
  <2> DEFINE l == proc[r]
  <2>1. l.since <= now /\ now <= l.since + MaxRequest /\ l.by \in Principal
    BY <1>14 DEF MintSession
  <2>2. \A p \in Principal, sc \in Scope :
           tokens'[p][sc] = IF p = l.by /\ sc \in l.scopes THEN now + SessionTTL
                                                         ELSE tokens[p][sc]
    BY <1>14, <2>1 DEF MintSession, Expiry
  <2>3. \A sc \in l.scopes : l.since <= H[l.by][sc]
    BY <1>14 DEF MintSession
  <2>4. \A p \in Principal, sc \in Scope :
           tokens'[p][sc] <= J[p][sc] + MaxRequest + SessionTTL
    BY <2>1, <2>2, <2>3
  <2>5. proc' = [proc EXCEPT ![r] = Idle]
    BY <1>14 DEF MintSession, Go
  <2> QED
    BY <2>4, <2>5
<1>15. ASSUME NEW configured \in BOOLEAN, Restart(configured) PROVE Power(J)'
  BY <1>15 DEF Restart
<1>16. ASSUME NEW p \in Human, Invite(p) PROVE Power(J)'
  BY <1>16 DEF Invite
<1>17. ASSUME NEW p \in Human, Enrol(p) PROVE Power(J)'
  BY <1>17 DEF Enrol
<1>18. CASE Tick
  BY <1>18 DEF Tick
<1>19. CASE UNCHANGED vars
  BY <1>19 DEF vars
<1> QED
  BY <1>1, <1>2, <1>3, <1>4, <1>5, <1>6, <1>7, <1>8, <1>9, <1>10, <1>11,
     <1>12, <1>13, <1>14, <1>15, <1>16, <1>17, <1>18,
     <1>19 DEF Next, Handler

\* Power holds at the times the grants give.
LEMMA PowerBounded == Spec => []PowerInv
<1>1. Init => PowerInv
  BY NameAssumption, TimingAssumption
     DEF Init, PowerInv, HeldTable, Power, HeldUntil, Holds, Active, Idle, Principal
<1>2. IInv /\ IInv' /\ TimeInv /\ PowerInv /\ [Next]_vars => PowerInv'
  <2> SUFFICES ASSUME IInv, IInv', TimeInv, PowerInv, [Next]_vars PROVE PowerInv'
    OBVIOUS
  <2>1. PICK H \in [Principal -> [Scope -> Int]] : H = HeldTable
    BY HeldGrows DEF HeldTable
  <2>2. PICK J \in [Principal -> [Scope -> Int]] : J = HeldTable'
    BY HeldGrows DEF HeldTable, HeldUntil, Holds, Active
  <2>3. \A p \in Principal, sc \in Scope : H[p][sc] <= J[p][sc]
    BY <2>1, <2>2, HeldGrows DEF HeldTable, HeldUntil, Holds, Active
  <2>4. \A p \in Principal, sc \in Scope : Holds(p, sc) => H[p][sc] = now
    BY <2>1 DEF HeldTable, HeldUntil
  <2>5. Power(H)
    BY <2>1 DEF PowerInv
  <2>6. Power(J)'
    BY <2>3, <2>4, <2>5, PowerSteps
  <2> QED
    BY <2>2, <2>6 DEF PowerInv, Power
<1> QED
  BY <1>1, <1>2, TypeCorrect, TimesInOrder, PTL DEF Spec

\* Revocation is eventually effective: no token carries a scope beyond a token
\* lifetime, and the request that minted it, after the scope was lost.
THEOREM TokensExpire == Spec => []TokensOutliveGrantsByTTL
<1>1. PowerInv => TokensOutliveGrantsByTTL
  BY DEF PowerInv, Power, HeldTable, TokensOutliveGrantsByTTL
<1> QED
  BY <1>1, PowerBounded, PTL

\* A request that administers belongs to a recent administrator.
LEMMA RecentAdmins ==
    ASSUME IInv, TimeInv, PowerInv, NEW r \in Proc,
           proc[r].pc \in {"admin", "newKey", "revokingGrant", "revokingKey"}
    PROVE  proc[r].by \in Principal /\ RecentAdmin(proc[r].by)
<1>1. proc[r].by \in Principal
  BY DEF IInv, ControlInv
<1>2. proc[r].since <= HeldUntil(proc[r].by, Admin) + MaxRequest + SessionTTL
  BY <1>1, NameAssumption DEF PowerInv, Power, HeldTable
<1>3. now <= proc[r].since + MaxRequest
  BY DEF TimeInv
<1>4. /\ now \in Int /\ proc[r].since \in Int /\ SessionTTL \in Int /\ MaxRequest \in Int
      /\ HeldUntil(proc[r].by, Admin) \in Int
  BY <1>1, TimingAssumption, NameAssumption DEF IInv, TypeOK, Time, Local, HeldUntil
<1> QED
  BY <1>1, <1>2, <1>3, <1>4 DEF RecentAdmin

\* Grants are made and revoked by recent administrators, or made by the
\* bootstrap of one who has no passkey.
THEOREM AdminPower == Spec => AdminPowerExpires
<1> DEFINE Allowed(g) ==
      /\ grants[g].state = "none" /\ grants'[g].state = "active" =>
           \/ grants'[g].granted_by = Bootstrap /\ BootAdmin \notin enrolled
           \/ grants'[g].granted_by \in Principal /\ RecentAdmin(grants'[g].granted_by)
      /\ Active(g) /\ grants'[g].state = "revoked" =>
           RecentAdmin(grants'[g].revoked_by)
<1>1. IInv /\ TimeInv /\ PowerInv /\ [Next]_vars => [\A g \in Grant : Allowed(g)]_vars
  <2> SUFFICES ASSUME IInv, TimeInv, PowerInv, [Next]_vars, NEW g \in Grant
               PROVE  Allowed(g)
    OBVIOUS
  <2>0. grants \in [Grant -> GrantRow]
    BY DEF IInv, TypeOK
  <2>1. CASE UNCHANGED <<grants, held>>
    BY <2>1 DEF Active
  <2>2. ASSUME NEW r \in Proc, NEW p \in Principal, NEW sc \in Scope, CreateGrant(r, p, sc)
        PROVE  Allowed(g)
    <3>1. PICK h \in Grant : Inserted(h, p, sc, proc[r].by)
      BY <2>2 DEF CreateGrant
    <3>2. proc[r].by \in Principal /\ RecentAdmin(proc[r].by)
      BY <2>2, RecentAdmins DEF CreateGrant
    <3>3. CASE g = h
      BY <2>0, <3>1, <3>2, <3>3 DEF Inserted, Active
    <3>4. CASE g # h
      BY <2>0, <3>1, <3>4 DEF Inserted, Active
    <3> QED
      BY <3>3, <3>4
  <2>3. ASSUME NEW configured \in BOOLEAN, Seeds(configured), Restart(configured)
        PROVE  Allowed(g)
    <3>1. PICK h \in Grant : Inserted(h, BootAdmin, Admin, Bootstrap)
      BY <2>3 DEF Restart
    <3>2. BootAdmin \notin enrolled
      BY <2>3 DEF Seeds
    <3>3. CASE g = h
      BY <2>0, <3>1, <3>2, <3>3 DEF Inserted, Active
    <3>4. CASE g # h
      BY <2>0, <3>1, <3>4 DEF Inserted, Active
    <3> QED
      BY <3>3, <3>4
  <2>4. ASSUME NEW r \in Proc, RevokeGrantWrite(r) PROVE Allowed(g)
    <3>1. RecentAdmin(proc[r].by)
      BY <2>4, RecentAdmins DEF RevokeGrantWrite
    <3>2. CASE g = proc[r].grant
      BY <2>0, <2>4, <3>1, <3>2 DEF RevokeGrantWrite, Active
    <3>3. CASE g # proc[r].grant
      BY <2>0, <2>4, <3>3 DEF RevokeGrantWrite, Active
    <3> QED
      BY <3>2, <3>3
  <2> HIDE DEF Allowed
  <2> QED
    BY <2>1, <2>2, <2>3, <2>4, GrantSteps
<1>2. Spec => [](IInv /\ TimeInv /\ PowerInv)
  BY TypeCorrect, TimesInOrder, PowerBounded, PTL
<1> QED
  BY <1>1, <1>2, PTL DEF Spec, AdminPowerExpires

\* A request that a key authenticated began before the key was revoked.
KeyInv ==
    /\ \A r \in Proc :
         /\ proc[r].pc \in {"authenticated", "scoped"} /\ proc[r].key # NoKey
         /\ keys[proc[r].key].state = "revoked"
         => proc[r].since <= keys[proc[r].key].revoked_at
    /\ \A k \in Key : lastMint[k] <= now
    /\ RevokedKeyStopsTokens

\* The requests in flight and the mints agree with the revocations of keys.
LEMMA KeysStop == Spec => []KeyInv
<1>1. Init => KeyInv
  BY TimingAssumption, NameAssumption
     DEF Init, KeyInv, RevokedKeyStopsTokens, Idle, Principal, Time, GrantRow, KeyRow, Local
<1>2. IInv /\ TimeInv /\ KeyInv /\ [Next]_vars => KeyInv'
  <2> SUFFICES ASSUME IInv, TimeInv, KeyInv, [Next]_vars PROVE KeyInv'
    OBVIOUS
  <2> USE TimingAssumption, NameAssumption DEF IInv, TypeOK, ControlInv, TimeInv, KeyInv,
         RevokedKeyStopsTokens, Idle, Principal, Time, GrantRow, KeyRow, Local
  <2>1. ASSUME NEW r \in Proc, NEW p \in Principal, Authorise(r, p) PROVE KeyInv'
    BY <2>1 DEF Authorise, Bears, Go
  <2>2. ASSUME NEW r \in Proc, NEW p \in Principal, NEW sc \in Scope,
              CreateGrant(r, p, sc)
       PROVE  KeyInv'
    BY <2>2 DEF CreateGrant, Go
  <2>3. ASSUME NEW r \in Proc, AnswerOnly(r) PROVE KeyInv'
    BY <2>3 DEF AnswerOnly, Go
  <2>4. ASSUME NEW r \in Proc, NEW g \in Grant, RevokeGrantRead(r, g) PROVE KeyInv'
    BY <2>4 DEF RevokeGrantRead, Active, Go
  <2>5. ASSUME NEW r \in Proc, RevokeGrantWrite(r) PROVE KeyInv'
    BY <2>5 DEF RevokeGrantWrite, Active, Go
  <2>6. ASSUME NEW r \in Proc, NEW a \in Agent, FindAgent(r, a) PROVE KeyInv'
    BY <2>6 DEF FindAgent, Go
  <2>7. ASSUME NEW r \in Proc, CreateMachineKey(r) PROVE KeyInv'
    BY <2>7 DEF CreateMachineKey, Go
  <2>8. ASSUME NEW r \in Proc, NEW k \in Key, RevokeKeyRead(r, k) PROVE KeyInv'
    BY <2>8 DEF RevokeKeyRead, Go
  <2>9. ASSUME NEW r \in Proc, RevokeKeyWrite(r) PROVE KeyInv'
    BY <2>9 DEF RevokeKeyWrite, Go
  <2>10. ASSUME NEW r \in Proc, NEW p \in Human, HumanAuthenticated(r, p) PROVE KeyInv'
    BY <2>10 DEF HumanAuthenticated, Go
  <2>11. ASSUME NEW r \in Proc, NEW k \in Key, ClientAuthenticated(r, k) PROVE KeyInv'
    BY <2>11 DEF ClientAuthenticated, Accepts, Go
  <2>12. ASSUME NEW r \in Proc, NEW wanted \in SUBSET Scope, ReadScopes(r, wanted) PROVE KeyInv'
    BY <2>12 DEF ReadScopes, Go
  <2>13. ASSUME NEW r \in Proc, RefuseScopes(r) PROVE KeyInv'
    BY <2>13 DEF RefuseScopes, Go
  <2>14. ASSUME NEW r \in Proc, MintSession(r) PROVE KeyInv'
    BY <2>14 DEF MintSession, Expiry, Go
  <2>15. ASSUME NEW configured \in BOOLEAN, Restart(configured) PROVE KeyInv'
    BY <2>15 DEF Restart
  <2>16. ASSUME NEW p \in Human, Invite(p) PROVE KeyInv'
    BY <2>16 DEF Invite
  <2>17. ASSUME NEW p \in Human, Enrol(p) PROVE KeyInv'
    BY <2>17 DEF Enrol
  <2>18. CASE Tick
    BY <2>18 DEF Tick
  <2>19. CASE UNCHANGED vars
    BY <2>19 DEF vars
  <2> QED
    BY <2>1, <2>2, <2>3, <2>4, <2>5, <2>6, <2>7, <2>8, <2>9, <2>10, <2>11,
       <2>12, <2>13, <2>14, <2>15, <2>16, <2>17, <2>18,
       <2>19 DEF Next, Handler
<1> QED
  BY <1>1, <1>2, TypeCorrect, TimesInOrder, PTL DEF Spec

\* Revoking a machine key stops its tokens, but for a request in flight.
THEOREM RevokedKeys == Spec => []RevokedKeyStopsTokens
<1>1. KeyInv => RevokedKeyStopsTokens
  BY DEF KeyInv
<1> QED
  BY <1>1, KeysStop, PTL

============================================================================
