-------------------------- MODULE EnrolmentProofs --------------------------
(***************************************************************************)
(* Proofs about Enrolment, for every number of contacts, invites and       *)
(* concurrent requests, and every choice of the lifetimes.                 *)
(***************************************************************************)
EXTENDS Enrolment, TLAPS

\* What a request carries, by its control point.
ControlInv ==
    \A p \in Proc :
        /\ proc[p].pc \in {"begun", "taken", "revoking"} => proc[p].inv \in Invite
        /\ proc[p].pc \in {"newPrincipal", "newInvite", "begun", "taken"} =>
             proc[p].contact \in Contact

\* Type correctness, with what it needs to be inductive.
IInv == TypeOK /\ ControlInv

\* An invite that is not spent has neither enrolled a passkey nor been revoked.
TallyInv ==
    \A i \in Invite :
        /\ invites[i].state # "used" => uses[i] = 0 /\ i \notin revoked
        /\ uses[i] \in {0, 1}
        /\ uses[i] = 1 => i \notin revoked

\* An invite that begins or completes an enrolment is the contact's own, and
\* the contact has a principal from the moment its invite is about to be made.
OwnInv ==
    /\ \A i \in Invite :
         ceremony[i].contact # NoContact =>
            invites[i].state # "none" /\ invites[i].contact = ceremony[i].contact
    /\ \A p \in Proc :
         /\ proc[p].pc \in {"begun", "taken"} =>
              /\ invites[proc[p].inv].state # "none"
              /\ invites[proc[p].inv].contact = proc[p].contact
         /\ proc[p].pc = "revoking" => invites[proc[p].inv].state # "none"
         /\ proc[p].pc = "newInvite" => proc[p].contact \in principals
    /\ InviteHasPrincipal

\* What RecoveryHolds needs to be inductive: passkeys come from invites that are
\* used up, made out to the contact, and nothing was used in the future.
HeldInv ==
    /\ \A i \in Invite : invites[i].used_at <= now
    /\ \A c \in Contact : \A j \in creds[c] : uses[j] = 1
    /\ RecoveryHolds

\* How long after the invite's expiry each stage of an enrolment may be.
LateInv ==
    /\ \A p \in Proc :
         /\ proc[p].pc # "idle" => now <= proc[p].since + MaxDelay
         /\ proc[p].pc = "begun" => proc[p].since <= invites[proc[p].inv].expires_at
         /\ proc[p].pc = "taken" =>
              proc[p].since <= invites[proc[p].inv].expires_at + MaxDelay + ChallengeTTL
    /\ \A i \in Invite :
         ceremony[i].contact # NoContact =>
            ceremony[i].expires_at <= invites[i].expires_at + MaxDelay + ChallengeTTL
    /\ UsedSoonAfterExpiry

----------------------------------------------------------------------------

\* What using up an invite leaves as it was, and that its request ends: for
\* the revocation of an invite and for the enrolment transaction.
LEMMA SpendKeeps ==
    ASSUME IInv, NEW p \in Proc, RevokeWrite(p) \/ FinishReplace(p)
    PROVE  /\ \A i \in Invite : /\ invites'[i].contact = invites[i].contact
                                /\ invites'[i].expires_at = invites[i].expires_at
                                /\ invites'[i].state = "none" <=> invites[i].state = "none"
           /\ proc' = [proc EXCEPT ![p] = Idle]
           /\ UNCHANGED <<now, principals, ceremony>>
<1>1. /\ proc[p].inv \in Invite
      /\ invites' \in {invites, [invites EXCEPT ![proc[p].inv] = Spent(proc[p].inv)]}
      /\ proc' = [proc EXCEPT ![p] = Idle]
      /\ UNCHANGED <<now, principals, ceremony>>
  BY Zenon DEF IInv, ControlInv, RevokeWrite, FinishReplace, Go
<1>2. invites[proc[p].inv].state = "open" \/ invites' = invites
  BY DEF RevokeWrite, FinishReplace, UpdatesUnused
<1> QED
  BY <1>1, <1>2 DEF IInv, TypeOK, InviteRow, Spent

\* Types: every request, row and pending ceremony has its shape.
THEOREM TypeCorrect == Spec => []IInv
<1>1. Init => IInv
  BY TimingAssumption, NameAssumption

            DEF Init, IInv, TypeOK, ControlInv, Idle, NoCeremony, Time,
                InviteRow, Ceremony, Local
<1>2. IInv /\ [Next]_vars => IInv'
  <2> SUFFICES ASSUME IInv, [Next]_vars PROVE IInv'
    OBVIOUS
  <2> USE TimingAssumption, NameAssumption
         DEF IInv, TypeOK, ControlInv, Time, InviteRow, Ceremony, Local, Idle,
             NoCeremony
  <2>1. ASSUME NEW p \in Proc, NEW c \in Contact, AdminInvite(p, c) PROVE IInv'
    BY <2>1 DEF AdminInvite, AfterLookup, Go, At
  <2>2. ASSUME NEW p \in Proc, CreatePrincipal(p) PROVE IInv'
    <3>1. proc[p].contact \in Contact
      BY <2>2 DEF CreatePrincipal
    <3>2. /\ principals' \in {principals, principals \cup {proc[p].contact}}
          /\ proc' \in {[proc EXCEPT ![p] = Idle],
                       [proc EXCEPT ![p] = At("newInvite", NoInvite, proc[p].contact)]}
          /\ UNCHANGED <<now, invites, creds, ceremony, uses, revoked>>
      BY <2>2, Zenon DEF CreatePrincipal, Go
    <3>3. At("newInvite", NoInvite, proc[p].contact) \in Local /\ Idle \in Local
      BY <3>1 DEF At
    <3>4. principals' \in SUBSET Contact /\ proc' \in [Proc -> Local]
      <4> HIDE DEF Local, Idle
      <4> QED
        BY <3>1, <3>2, <3>3
    <3>5. /\ \A q \in Proc : q # p => proc'[q] = proc[q]
          /\ proc'[p].pc \in {"idle", "newInvite"}
          /\ proc'[p].pc = "newInvite" => proc'[p].contact = proc[p].contact
      BY <3>2 DEF At
    <3> QED
      BY <3>1, <3>2, <3>4, <3>5
  <2>3. ASSUME NEW p \in Proc, CreateInvite(p) PROVE IInv'
    BY <2>3 DEF CreateInvite, InviteExpiry, Go
  <2>4. ASSUME NEW p \in Proc, NEW i \in Invite, RevokeRead(p, i) PROVE IInv'
    BY <2>4 DEF RevokeRead, Go, At
  <2>5. ASSUME NEW p \in Proc, RevokeWrite(p) PROVE IInv'
    BY <2>5 DEF RevokeWrite, UpdatesUnused, Spent, Go
  <2>6. ASSUME NEW p \in Proc, NEW i \in Invite, BeginCheck(p, i) PROVE IInv'
    BY <2>6 DEF BeginCheck, Go, At
  <2>7. ASSUME NEW p \in Proc, BeginPut(p) PROVE IInv'
    BY <2>7 DEF BeginPut, Go, Expired
  <2>8. ASSUME NEW p \in Proc, NEW i \in Invite, NEW verified \in BOOLEAN,
              FinishTake(p, i, verified)
       PROVE  IInv'
    <3>1. CASE Usable(i) /\ verified /\ ceremony[i].contact \in principals
      <4>1. ceremony[i].contact \in Contact /\ At("taken", i, ceremony[i].contact) \in Local
        BY <3>1 DEF At
      <4>2. /\ proc' = [proc EXCEPT ![p] = At("taken", i, ceremony[i].contact)]
            /\ ceremony' = [ceremony EXCEPT ![i] = NoCeremony]
            /\ UNCHANGED <<now, principals, invites, creds, uses, revoked>>
        BY <2>8, <3>1, Zenon DEF FinishTake, Go
      <4>3. TypeOK'
        BY <4>1, <4>2
      <4>4. ControlInv'
        BY <4>1, <4>2 DEF At
      <4> QED
        BY <4>3, <4>4
    <3>2. CASE ~(Usable(i) /\ verified /\ ceremony[i].contact \in principals)
      BY <2>8, <3>2 DEF FinishTake, Usable, Expired, Go, At
    <3> QED
      BY <3>1, <3>2
  <2>9. ASSUME NEW p \in Proc, FinishReplace(p) PROVE IInv'
    <3>1. /\ proc[p].inv \in Invite /\ Spent(proc[p].inv) \in InviteRow
          /\ uses[proc[p].inv] + 1 \in Nat
      BY <2>9 DEF FinishReplace, Spent
    <3>2. /\ invites' \in {invites, [invites EXCEPT ![proc[p].inv] = Spent(proc[p].inv)]}
          /\ uses' \in {uses, [uses EXCEPT ![proc[p].inv] = @ + 1]}
      BY <2>9, Zenon DEF FinishReplace
    <3>3. invites' \in [Invite -> InviteRow] /\ uses' \in [Invite -> Nat]
      BY <3>1, <3>2
    <3>4. creds' \in [Contact -> SUBSET Invite]
      BY <2>9, <3>1 DEF FinishReplace, StoredBy, LeftAfterFailure
    <3>5. proc' = [proc EXCEPT ![p] = Idle] /\ UNCHANGED <<now, principals, ceremony, revoked>>
      BY <2>9 DEF FinishReplace, Go
    <3> QED
      BY <3>3, <3>4, <3>5
  <2>10. CASE SweepExpired
    BY <2>10 DEF SweepExpired, Expired
  <2>11. CASE Restart
    BY <2>11 DEF Restart
  <2>12. CASE Tick
    BY <2>12 DEF Tick
  <2>13. CASE UNCHANGED vars
    BY <2>13 DEF vars
  <2> QED
    BY <2>1, <2>2, <2>3, <2>4, <2>5, <2>6, <2>7, <2>8, <2>9, <2>10, <2>11,
       <2>12, <2>13 DEF Next, Handler
<1> QED
  BY <1>1, <1>2, PTL DEF Spec

\* The invite's two fates exclude each other; what the UPDATEs with
\* "used_at IS NULL" in the revocation and in the enrolment rest on.
THEOREM TallyCorrect == Spec => []TallyInv
<1>1. Init => TallyInv
  BY DEF Init, TallyInv
<1>2. IInv /\ TallyInv /\ [Next]_vars => TallyInv'
  <2> SUFFICES ASSUME IInv, TallyInv, [Next]_vars PROVE TallyInv'
    OBVIOUS
  <2> USE TimingAssumption, NameAssumption
         DEF IInv, TypeOK, ControlInv, InviteRow, TallyInv
  <2>1. ASSUME NEW p \in Proc, NEW c \in Contact, AdminInvite(p, c) PROVE TallyInv'
    BY <2>1 DEF AdminInvite, AfterLookup, Go, At
  <2>2. ASSUME NEW p \in Proc, CreatePrincipal(p) PROVE TallyInv'
    BY <2>2 DEF CreatePrincipal, Go, At
  <2>3. ASSUME NEW p \in Proc, CreateInvite(p) PROVE TallyInv'
    BY <2>3 DEF CreateInvite, InviteExpiry, Go
  <2>4. ASSUME NEW p \in Proc, NEW i \in Invite, RevokeRead(p, i) PROVE TallyInv'
    BY <2>4 DEF RevokeRead, Go, At
  <2>5. ASSUME NEW p \in Proc, RevokeWrite(p) PROVE TallyInv'
    BY <2>5 DEF RevokeWrite, UpdatesUnused, Spent, Go
  <2>6. ASSUME NEW p \in Proc, NEW i \in Invite, BeginCheck(p, i) PROVE TallyInv'
    BY <2>6 DEF BeginCheck, Go, At
  <2>7. ASSUME NEW p \in Proc, BeginPut(p) PROVE TallyInv'
    BY <2>7 DEF BeginPut, Go, Expired
  <2>8. ASSUME NEW p \in Proc, NEW i \in Invite, NEW verified \in BOOLEAN,
              FinishTake(p, i, verified)
       PROVE  TallyInv'
    BY <2>8 DEF FinishTake, Usable, Expired, Go, At
  <2>9. ASSUME NEW p \in Proc, FinishReplace(p) PROVE TallyInv'
    BY <2>9 DEF FinishReplace, UpdatesUnused, StoredBy, LeftAfterFailure, Spent, Go
  <2>10. CASE SweepExpired
    BY <2>10 DEF SweepExpired, Expired
  <2>11. CASE Restart
    BY <2>11 DEF Restart
  <2>12. CASE Tick
    BY <2>12 DEF Tick
  <2>13. CASE UNCHANGED vars
    BY <2>13 DEF vars
  <2> QED
    BY <2>1, <2>2, <2>3, <2>4, <2>5, <2>6, <2>7, <2>8, <2>9, <2>10, <2>11,
       <2>12, <2>13 DEF Next, Handler
<1> QED
  BY <1>1, <1>2, TypeCorrect, PTL DEF Spec

\* An invite is spent once: it enrols one passkey or is revoked, not both
\* (ReplaceWebAuthnCredentialAndConsumeInvite, RevokeInviteByHash).
THEOREM InvitesAreSpentOnce == Spec => []SpentOnce
<1>1. TallyInv => SpentOnce
  BY DEF TallyInv, SpentOnce
<1> QED
  BY <1>1, TallyCorrect, PTL

\* Ceremonies and requests name the contact of their invite.
THEOREM OwnCorrect == Spec => []OwnInv
<1>1. Init => OwnInv
  BY DEF Init, OwnInv, InviteHasPrincipal, Idle, NoCeremony
<1>2. IInv /\ OwnInv /\ [Next]_vars => OwnInv'
  <2> SUFFICES ASSUME IInv, OwnInv, [Next]_vars PROVE OwnInv'
    OBVIOUS
  <2> USE NameAssumption
         DEF IInv, TypeOK, ControlInv, InviteRow, Ceremony, Local, OwnInv,
             InviteHasPrincipal, Idle, NoCeremony
  <2>1. ASSUME NEW p \in Proc, NEW c \in Contact, AdminInvite(p, c) PROVE OwnInv'
    BY <2>1 DEF AdminInvite, AfterLookup, Go, At
  <2>2. ASSUME NEW p \in Proc, CreatePrincipal(p) PROVE OwnInv'
    <3>1. principals \subseteq principals' /\ UNCHANGED <<invites, ceremony>>
      BY <2>2 DEF CreatePrincipal
    <3>2. /\ \A q \in Proc : q # p => proc'[q] = proc[q]
          /\ proc'[p].pc \in {"idle", "newInvite"}
          /\ proc'[p].pc = "newInvite" => proc'[p].contact \in principals'
      <4>1. CASE proc[p].contact \in principals
        BY <2>2, <4>1 DEF CreatePrincipal, Go
      <4>2. CASE proc[p].contact \notin principals
        BY <2>2, <4>2 DEF CreatePrincipal, Go, At
      <4> QED
        BY <4>1, <4>2
    <3> QED
      BY <3>1, <3>2
  <2>3. ASSUME NEW p \in Proc, CreateInvite(p) PROVE OwnInv'
    BY <2>3 DEF CreateInvite, InviteExpiry, Go
  <2>4. ASSUME NEW p \in Proc, NEW i \in Invite, RevokeRead(p, i) PROVE OwnInv'
    BY <2>4 DEF RevokeRead, Go, At
  <2>5. ASSUME NEW p \in Proc, RevokeWrite(p) PROVE OwnInv'
    BY <2>5, SpendKeeps
  <2>6. ASSUME NEW p \in Proc, NEW i \in Invite, BeginCheck(p, i) PROVE OwnInv'
    BY <2>6 DEF BeginCheck, Go, At
  <2>7. ASSUME NEW p \in Proc, BeginPut(p) PROVE OwnInv'
    BY <2>7 DEF BeginPut, Go, Expired
  <2>8. ASSUME NEW p \in Proc, NEW i \in Invite, NEW verified \in BOOLEAN,
              FinishTake(p, i, verified)
       PROVE  OwnInv'
    <3>1. CASE Usable(i) /\ verified /\ ceremony[i].contact \in principals
      BY <2>8, <3>1 DEF FinishTake, Usable, Expired, Go, At
    <3>2. CASE ~(Usable(i) /\ verified /\ ceremony[i].contact \in principals)
      BY <2>8, <3>2 DEF FinishTake, Usable, Expired, Go, At
    <3> QED
      BY <3>1, <3>2
  <2>9. ASSUME NEW p \in Proc, FinishReplace(p) PROVE OwnInv'
    BY <2>9, SpendKeeps
  <2>10. CASE SweepExpired
    BY <2>10 DEF SweepExpired, Expired
  <2>11. CASE Restart
    BY <2>11 DEF Restart
  <2>12. CASE Tick
    BY <2>12 DEF Tick
  <2>13. CASE UNCHANGED vars
    BY <2>13 DEF vars
  <2> QED
    BY <2>1, <2>2, <2>3, <2>4, <2>5, <2>6, <2>7, <2>8, <2>9, <2>10, <2>11,
       <2>12, <2>13 DEF Next, Handler
<1> QED
  BY <1>1, <1>2, TypeCorrect, PTL DEF Spec

\* Every invite's contact has a principal, so that begin and finish find it.
THEOREM InvitesHavePrincipals == Spec => []InviteHasPrincipal
<1>1. OwnInv => InviteHasPrincipal
  BY DEF OwnInv
<1> QED
  BY <1>1, OwnCorrect, PTL

\* A completed recovery is not undone: the contact has a passkey, and none older
\* (ReplaceWebAuthnCredentialAndConsumeInvite).
THEOREM RecoveriesHold == Spec => []RecoveryHolds
<1>1. Init => HeldInv
  BY DEF Init, HeldInv, RecoveryHolds
<1>2. IInv /\ TallyInv /\ OwnInv /\ HeldInv /\ [Next]_vars => HeldInv'
  <2> SUFFICES ASSUME IInv, TallyInv, OwnInv, HeldInv, [Next]_vars PROVE HeldInv'
    OBVIOUS
  <2>0. /\ now \in Nat /\ creds \in [Contact -> SUBSET Invite] /\ uses \in [Invite -> Nat]
        /\ invites \in [Invite -> InviteRow]
        /\ \A i \in Invite : /\ invites[i].used_at \in Nat /\ invites[i].used_at <= now
                             /\ uses[i] > 0 => /\ invites[i].contact \in Contact
                                               /\ invites[i].state = "used" /\ uses[i] = 1
    BY TimingAssumption
       DEF IInv, TypeOK, Time, InviteRow, TallyInv, OwnInv, InviteHasPrincipal, HeldInv
  \* Every step but the enrolment leaves used invites and passkeys alone.
  <2>1. ASSUME UNCHANGED <<creds, uses>>, now' >= now, now' \in Nat,
               \A i \in Invite : /\ invites'[i].used_at \in Nat /\ invites'[i].used_at <= now'
                                 /\ uses[i] = 1 => invites'[i] = invites[i]
        PROVE  HeldInv'
    <3>1. \A i \in Invite : uses[i] > 0 => invites'[i] = invites[i]
      BY <2>0, <2>1
    <3>2. \A c \in Contact : \A j \in creds[c] : j \in Invite /\ uses[j] = 1
      BY <2>0 DEF HeldInv
    <3>3. RecoveryHolds'
      BY <2>0, <2>1, <3>1, <3>2 DEF HeldInv, RecoveryHolds
    <3> QED
      BY <2>1, <3>2, <3>3 DEF HeldInv
  <2>2. ASSUME NEW p \in Proc, FinishReplace(p) PROVE HeldInv'
    <3>0. PICK i \in Invite, c \in Contact : i = proc[p].inv /\ c = proc[p].contact
      BY <2>2 DEF FinishReplace, IInv, ControlInv
    <3>1. proc[p].pc = "taken" /\ invites[i].contact = c /\ now' = now
      BY <2>2, <3>0 DEF FinishReplace, OwnInv
    <3>2. CASE UpdatesUnused(i)
      <4>1. /\ creds' = [creds EXCEPT ![c] = {i}]
            /\ invites' = [invites EXCEPT ![i] = Spent(i)]
            /\ uses' = [uses EXCEPT ![i] = uses[i] + 1]
        BY <2>2, <3>0, <3>2 DEF FinishReplace, StoredBy
      <4>2. uses[i] = 0
        BY <3>2 DEF UpdatesUnused, TallyInv
      <4>3. /\ invites'[i].used_at = now /\ invites'[i].contact = c /\ uses'[i] = 1
            /\ \A j \in Invite : j # i => invites'[j] = invites[j] /\ uses'[j] = uses[j]
            /\ creds'[c] = {i}
            /\ \A d \in Contact : d # c => creds'[d] = creds[d]
        BY <2>0, <3>1, <4>1, <4>2 DEF Spent
      <4>4. \A j \in Invite : invites'[j].used_at <= now /\ invites'[j].contact = invites[j].contact
        BY <2>0, <3>1, <4>3
      <4>5. \A d \in Contact : \A j \in creds[d] : j \in Invite /\ uses[j] = 1 /\ j # i
        BY <2>0, <4>2 DEF HeldInv
      <4>6. ASSUME NEW j \in Invite, uses'[j] > 0
            PROVE  /\ creds'[invites'[j].contact] # {}
                   /\ \A k \in creds'[invites'[j].contact] : invites'[k].used_at >= invites'[j].used_at
        <5>1. CASE invites[j].contact = c
          BY <2>0, <4>3, <4>4, <5>1
        <5>2. CASE invites[j].contact # c
          <6>1. j # i /\ invites[j].contact \in Contact /\ uses[j] > 0
            BY <2>0, <3>1, <4>3, <4>6, <5>2
          <6>2. creds'[invites[j].contact] = creds[invites[j].contact]
            BY <4>3, <5>2, <6>1
          <6>3. /\ creds[invites[j].contact] # {}
                /\ \A k \in creds[invites[j].contact] : invites[k].used_at >= invites[j].used_at
            BY <6>1 DEF HeldInv, RecoveryHolds
          <6> QED
            BY <4>3, <4>5, <6>1, <6>2, <6>3
        <5> QED
          BY <5>1, <5>2
      <4>7. \A d \in Contact : \A j \in creds'[d] : uses'[j] = 1
        BY <4>3, <4>5
      <4> QED
        BY <3>1, <4>4, <4>6, <4>7 DEF HeldInv, RecoveryHolds
    <3>3. CASE ~UpdatesUnused(i)
      <4>1. UNCHANGED <<invites, uses>> /\ creds' = [creds EXCEPT ![c] = creds[c]]
        BY <2>2, <3>0, <3>3 DEF FinishReplace, LeftAfterFailure
      <4>2. UNCHANGED creds
        BY <2>0, <4>1
      <4> QED
        BY <2>0, <2>1, <3>1, <4>1, <4>2
    <3> QED
      BY <3>2, <3>3
  <2>3. ASSUME NEW p \in Proc, RevokeWrite(p) PROVE HeldInv'
    <3>0. PICK i \in Invite : i = proc[p].inv
      BY <2>3 DEF RevokeWrite, IInv, ControlInv
    <3>1. CASE UpdatesUnused(i)
      <4>1. invites' = [invites EXCEPT ![i] = Spent(i)] /\ UNCHANGED <<now, creds, uses>>
        BY <2>3, <3>0, <3>1 DEF RevokeWrite
      <4>2. uses[i] = 0
        BY <3>1 DEF UpdatesUnused, TallyInv
      <4>3. Spent(i).used_at = now
        BY DEF Spent
      <4> QED
        BY <2>0, <2>1, <4>1, <4>2, <4>3
    <3>2. CASE ~UpdatesUnused(i)
      <4>1. UNCHANGED <<now, invites, creds, uses>>
        BY <2>3, <3>0, <3>2 DEF RevokeWrite
      <4> QED
        BY <2>0, <2>1, <4>1
    <3> QED
      BY <3>1, <3>2
  <2>4. ASSUME NEW p \in Proc, CreateInvite(p) PROVE HeldInv'
    <3>1. PICK i \in Invite :
             /\ invites[i].state = "none"
             /\ invites' = [invites EXCEPT ![i] =
                             [state |-> "open", contact |-> proc[p].contact,
                              expires_at |-> InviteExpiry, used_at |-> 0]]
      BY <2>4 DEF CreateInvite
    <3>2. uses[i] = 0 /\ UNCHANGED <<now, creds, uses>>
      BY <2>4, <3>1 DEF CreateInvite, TallyInv
    <3> QED
      BY <2>0, <2>1, <3>1, <3>2
  <2>5. CASE Tick
    BY <2>0, <2>1, <2>5 DEF Tick
  <2>6. CASE UNCHANGED <<now, invites, creds, uses>>
    BY <2>0, <2>1, <2>6
  <2> QED
    BY <2>2, <2>3, <2>4, <2>5, <2>6
       DEF Next, Handler, AdminInvite, CreatePrincipal, RevokeRead, BeginCheck, BeginPut,
           FinishTake, SweepExpired, Restart, vars
<1>3. HeldInv => RecoveryHolds
  BY DEF HeldInv
<1> QED
  BY <1>1, <1>2, <1>3, TypeCorrect, TallyCorrect, OwnCorrect, PTL DEF Spec

\* The stages of an enrolment stay within their deadlines.
THEOREM LateCorrect == Spec => []LateInv
<1>1. Init => LateInv
  BY TimingAssumption DEF Init, LateInv, UsedSoonAfterExpiry, Idle, NoCeremony
<1>2. IInv /\ OwnInv /\ LateInv /\ [Next]_vars => LateInv'
  <2> SUFFICES ASSUME IInv, OwnInv, LateInv, [Next]_vars PROVE LateInv'
    OBVIOUS
  <2> USE TimingAssumption, NameAssumption
         DEF IInv, TypeOK, ControlInv, Time, InviteRow, Ceremony, Local, OwnInv,
             LateInv, UsedSoonAfterExpiry, Idle, NoCeremony
  <2>1. ASSUME NEW p \in Proc, NEW c \in Contact, AdminInvite(p, c) PROVE LateInv'
    BY <2>1 DEF AdminInvite, AfterLookup, Go, At
  <2>2. ASSUME NEW p \in Proc, CreatePrincipal(p) PROVE LateInv'
    <3>1. \A q \in Proc : q # p => proc'[q] = proc[q]
      BY <2>2 DEF CreatePrincipal, Go
    <3>2. /\ proc'[p].pc \in {"idle", "newInvite"}
          /\ proc'[p].pc = "newInvite" => proc'[p].since = now
      BY <2>2 DEF CreatePrincipal, Go, At
    <3>3. UNCHANGED <<now, invites, ceremony, revoked>>
      BY <2>2 DEF CreatePrincipal
    <3> QED
      BY <3>1, <3>2, <3>3
  <2>3. ASSUME NEW p \in Proc, CreateInvite(p) PROVE LateInv'
    BY <2>3 DEF CreateInvite, InviteExpiry, Go
  <2>4. ASSUME NEW p \in Proc, NEW i \in Invite, RevokeRead(p, i) PROVE LateInv'
    BY <2>4 DEF RevokeRead, Go, At
  <2>5. ASSUME NEW p \in Proc, RevokeWrite(p) PROVE LateInv'
    <3>1. \A q \in Proc : q # p => proc'[q] = proc[q]
      BY <2>5, SpendKeeps
    <3>2. \A i \in Invite :
             invites'[i].state = "used" /\ i \notin revoked' =>
                invites'[i].used_at <= invites'[i].expires_at + ChallengeTTL + 2 * MaxDelay
      <4>1. \A i \in Invite : i \notin revoked' => i \notin revoked /\ invites'[i] = invites[i]
        BY <2>5 DEF RevokeWrite
      <4> HIDE DEF TypeOK, OwnInv
      <4> QED
        BY <4>1
    <3>3. /\ \A i \in Invite : invites'[i].expires_at = invites[i].expires_at
          /\ proc'[p].pc = "idle"
          /\ UNCHANGED <<now, ceremony>>
      BY <2>5, SpendKeeps
    <3> HIDE DEF TypeOK, InviteRow, Ceremony, Local, OwnInv
    <3> QED
      BY <3>1, <3>2, <3>3
  <2>6. ASSUME NEW p \in Proc, NEW i \in Invite, BeginCheck(p, i) PROVE LateInv'
    BY <2>6 DEF BeginCheck, Go, At
  <2>7. ASSUME NEW p \in Proc, BeginPut(p) PROVE LateInv'
    BY <2>7 DEF BeginPut, Go, Expired
  <2>8. ASSUME NEW p \in Proc, NEW i \in Invite, NEW verified \in BOOLEAN,
              FinishTake(p, i, verified)
       PROVE  LateInv'
    <3>1. CASE Usable(i) /\ verified /\ ceremony[i].contact \in principals
      <4>1. /\ proc' = [proc EXCEPT ![p] = At("taken", i, ceremony[i].contact)]
            /\ ceremony' = [ceremony EXCEPT ![i] = NoCeremony]
            /\ UNCHANGED <<now, invites, revoked>>
        BY <2>8, <3>1, Zenon DEF FinishTake, Go
      <4>2. now <= invites[i].expires_at + MaxDelay + ChallengeTTL
        BY <3>1 DEF Usable, Expired
      <4> QED
        BY <4>1, <4>2 DEF At
    <3>2. CASE ~(Usable(i) /\ verified /\ ceremony[i].contact \in principals)
      BY <2>8, <3>2 DEF FinishTake, Usable, Expired, Go, At
    <3> QED
      BY <3>1, <3>2
  <2>9. ASSUME NEW p \in Proc, FinishReplace(p) PROVE LateInv'
    <3>1. \A q \in Proc : q # p => proc'[q] = proc[q]
      BY <2>9, SpendKeeps
    <3>2. \A i \in Invite :
             invites'[i].state = "used" /\ i \notin revoked' =>
                invites'[i].used_at <= invites'[i].expires_at + ChallengeTTL + 2 * MaxDelay
      <4> DEFINE j == proc[p].inv
      <4>1. /\ j \in Invite /\ revoked' = revoked
            /\ invites' \in {invites, [invites EXCEPT ![j] = Spent(j)]}
        BY <2>9, Zenon DEF FinishReplace
      <4>2. now <= invites[j].expires_at + ChallengeTTL + 2 * MaxDelay
        BY <2>9, <4>1 DEF FinishReplace
      <4>3. /\ \A i \in Invite : i # j => invites'[i] = invites[i]
            /\ invites'[j] \in {invites[j], Spent(j)}
        BY <4>1
      <4> HIDE DEF TypeOK, OwnInv, j
      <4> QED
        BY <4>1, <4>2, <4>3 DEF Spent
    <3>3. /\ \A i \in Invite : invites'[i].expires_at = invites[i].expires_at
          /\ proc'[p].pc = "idle"
          /\ UNCHANGED <<now, ceremony>>
      BY <2>9, SpendKeeps
    <3> HIDE DEF TypeOK, InviteRow, Ceremony, Local, OwnInv
    <3> QED
      BY <3>1, <3>2, <3>3
  <2>10. CASE SweepExpired
    BY <2>10 DEF SweepExpired, Expired
  <2>11. CASE Restart
    BY <2>11 DEF Restart
  <2>12. CASE Tick
    BY <2>12 DEF Tick
  <2>13. CASE UNCHANGED vars
    BY <2>13 DEF vars
  <2> QED
    BY <2>1, <2>2, <2>3, <2>4, <2>5, <2>6, <2>7, <2>8, <2>9, <2>10, <2>11,
       <2>12, <2>13 DEF Next, Handler
<1> QED
  BY <1>1, <1>2, TypeCorrect, OwnCorrect, PTL DEF Spec

\* An invite is not used later than a pending ceremony and the two handlers
\* allow, although the consuming transaction does not look at its expiry.
THEOREM InvitesExpire == Spec => []UsedSoonAfterExpiry
<1>1. LateInv => UsedSoonAfterExpiry
  BY DEF LateInv
<1> QED
  BY <1>1, LateCorrect, PTL

\* Passkeys change only in the transaction that consumes the contact's own
\* open invite.
THEOREM OnlyInvitesChangePasskeys == Spec => PasskeysChangeWithInvite
<1> DEFINE Change == \A c \in Contact :
              creds'[c] # creds[c] =>
                 \E i \in Invite : /\ creds'[c] = {i}
                                   /\ invites[i].state = "open" /\ invites[i].contact = c
                                   /\ invites'[i].state = "used"
<1>1. IInv /\ OwnInv /\ [Next]_vars => [Change]_vars
  <2> SUFFICES ASSUME IInv, OwnInv, Next PROVE Change
    BY DEF vars
  <2>1. CASE \E p \in Proc : FinishReplace(p)
    <3>1. PICK p \in Proc : FinishReplace(p)
      BY <2>1
    <3> QED
      BY <3>1 DEF FinishReplace, UpdatesUnused, StoredBy, LeftAfterFailure, Spent,
                  IInv, TypeOK, ControlInv, OwnInv
  <2>2. CASE ~ \E p \in Proc : FinishReplace(p)
    <3>1. UNCHANGED creds
      BY <2>2 DEF Next, Handler, AdminInvite, CreatePrincipal, CreateInvite, RevokeRead,
                  RevokeWrite, BeginCheck, BeginPut, FinishTake, SweepExpired, Restart, Tick
    <3> QED
      BY <3>1
  <2> QED
    BY <2>1, <2>2
<1> QED
  BY <1>1, TypeCorrect, OwnCorrect, PTL DEF Spec, PasskeysChangeWithInvite

============================================================================
