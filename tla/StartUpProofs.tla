---------------------------- MODULE StartUpProofs ----------------------------
(***************************************************************************)
(* The start of the server, for every number of processes, every manifest  *)
(* and every CLIENT_KEYS.                                                  *)
(*                                                                         *)
(* Of store.Open: a process that has got to a statement has the objects of *)
(* the statements before it.  Of reconcileOIDCClients: the invariant of    *)
(* its loop.  After the first n entries of the manifest a client whose     *)
(* last upsert did not fail has the row of the last of those n entries     *)
(* that decides about it, or the row it had when the start began.  That    *)
(* the loop passes over exactly the entries that do not decide is a lemma  *)
(* about the operators: the property states the decision apart from them.  *)
(***************************************************************************)
EXTENDS ClientReconcile, WellFoundedInduction, TLAPS

----------------------------------------------------------------------------
(* The largest of a set of positions: Max of the community modules.        *)

\* A set of natural numbers that is not empty has a least element.
LEMMA SmallestOf ==
  ASSUME NEW T \in SUBSET Nat, T # {}
  PROVE  \E m \in T : \A k \in T : m <= k
<1> DEFINE R == OpToRel(<, Nat)
<1>1. IsWellFoundedOn(R, Nat)
  BY NatLessThanWellFounded
<1>2. \A x, y \in Nat : x < y => <<x, y>> \in R
  BY DEF OpToRel
<1> HIDE DEF R
<1>3. PICK x \in T : \A y \in T : ~(<<y, x>> \in R)
  BY <1>1, WFMin
<1>4. ASSUME NEW y \in T PROVE x <= y
  <2>1. x \in Nat /\ y \in Nat /\ ~(y < x)
    BY <1>2, <1>3
  <2> QED
    BY <2>1
<1> QED
  BY <1>4

\* Max is what it says, for the positions of a sequence.
LEMMA MaxOf ==
  ASSUME NEW n \in Nat, NEW S \in SUBSET (1 .. n), S # {}
  PROVE  Max(S) \in S /\ \A x \in S : x <= Max(S)
<1> DEFINE T == {n - x : x \in S}
<1>1. \A y \in S : y \in Nat /\ y <= n
  OBVIOUS
<1>2. \A y \in S : n - y \in T
  OBVIOUS
<1>3. T \in SUBSET Nat /\ T # {}
  <2>1. \A y \in S : n - y \in Nat
    BY <1>1
  <2>2. \A t \in T : \E y \in S : t = n - y
    OBVIOUS
  <2> QED
    BY <1>2, <2>1, <2>2
<1>4. PICK m \in T : \A k \in T : m <= k
  <2> HIDE DEF T
  <2> QED
    BY <1>3, SmallestOf
<1>5. PICK x \in S : m = n - x
  BY <1>4
<1>6. ASSUME NEW y \in S PROVE x >= y
  <2>1. n - x <= n - y
    BY <1>2, <1>4, <1>5
  <2> QED
    BY <1>1, <2>1
<1> QED
  BY <1>1, <1>6 DEF Max

----------------------------------------------------------------------------
(* store.Open                                                              *)

\* The twelve statements and what they leave in the file.
LEMMA Statements ==
    /\ Len(stmts) = 10 /\ Len(migrate) = 12 /\ Open = 13
    /\ \A i \in 1 .. 10 : stmts[i] = migrate[i]
    /\ {migrate[i].object : i \in 1 .. 12} =
         {"principals", "credentials", "signing_keys", "grants", "idx_grants_active",
                  "enrolment_invites", "oidc_clients", "oidc_auth_codes", "idp_sessions",
                  "idx_idp_sessions_principal", "revoked_by", "revoked_at"}
<1>1. Len(stmts) = 10
  BY DEF stmts
<1>2. Len(migrate) = 12
  BY DEF migrate, stmts
<1>3. \A i \in 1 .. 10 : stmts[i] = migrate[i]
  BY DEF migrate, stmts
<1>4. {migrate[i].object : i \in 1 .. 12} =
         {"principals", "credentials", "signing_keys", "grants", "idx_grants_active",
                  "enrolment_invites", "oidc_clients", "oidc_auth_codes", "idp_sessions",
                  "idx_idp_sessions_principal", "revoked_by", "revoked_at"}
  BY DEF migrate, stmts, Create, Index, AddColumn
<1> QED
  BY <1>1, <1>2, <1>3, <1>4 DEF Open

Object(i) == migrate[i].object

\* A process that has got to statement n has the objects of the ones before.
MigrationInv ==
    /\ pc \in [Proc -> 0 .. Open]
    /\ schema \subseteq {Object(i) : i \in 1 .. 12}
    /\ \A p \in Proc : \A i \in 1 .. 12 : i < pc[p] => Object(i) \in schema

\* No step of a process, and no crash, takes an object from the file.
LEMMA MigrationStep ==
  ASSUME MigrationInv, Next
  PROVE  MigrationInv'
<1> USE Statements DEF MigrationInv
<1>1. ASSUME NEW p \in Proc, Start(p) PROVE MigrationInv'
  BY <1>1 DEF Start
<1>2. ASSUME NEW p \in Proc, Exec(p) PROVE MigrationInv'
  <2> DEFINE n == pc[p]
             err == SQLError(migrate[n])
  <2>1. n \in 1 .. 12
    BY <1>2 DEF Exec
  <2>2. CASE err = "none"
    <3>1. schema' = schema \cup {Object(n)} /\ pc' = [pc EXCEPT ![p] = n + 1]
      BY <1>2, <2>2 DEF Exec, Object, After, Fails
    <3> QED
      BY <2>1, <3>1
  <2>3. CASE err = "duplicate column name"
    <3>1. schema' = schema /\ pc' = [pc EXCEPT ![p] = n + 1]
      BY <1>2, <2>3 DEF Exec, Object, After, Fails
    <3>2. Object(n) \in schema
      BY <2>3 DEF SQLError, Object
    <3> QED
      BY <2>1, <3>1, <3>2
  <2>4. CASE err = "no such table"
    <3>1. schema' = schema /\ pc' = [pc EXCEPT ![p] = 0]
      BY <1>2, <2>4 DEF Exec, Object, After, Fails
    <3> QED
      BY <2>1, <3>1
  <2> QED
    BY <2>2, <2>3, <2>4 DEF SQLError
<1>3. ASSUME NEW p \in Proc, Fault(p) PROVE MigrationInv'
  BY <1>3 DEF Fault
<1> QED
  BY <1>1, <1>2, <1>3 DEF Next

\* The invariant holds of the whole system: deploys stop the server, and the
\* registry is another matter.
THEOREM OpeningCorrect == StartUpSpec => []MigrationInv
<1>1. StartUpInit => MigrationInv
  <2> SUFFICES ASSUME StartUpInit PROVE MigrationInv
    OBVIOUS
  <2>1. schema \subseteq {Object(i) : i \in 1 .. 12}
    BY Statements DEF StartUpInit, Init, Object
  <2>2. pc \in [Proc -> 0 .. Open] /\ \A p \in Proc : \A i \in 1 .. 12 : ~(i < pc[p])
    <3>1. pc = [p \in Proc |-> 0] /\ Open = 13
      BY Statements DEF StartUpInit, Init
    <3> QED
      BY <3>1
  <2> QED
    BY <2>1, <2>2 DEF MigrationInv
<1>2. MigrationInv /\ [StartUpNext]_<<vars, clientVars>> => MigrationInv'
  <2> SUFFICES ASSUME MigrationInv, [StartUpNext]_<<vars, clientVars>> PROVE MigrationInv'
    OBVIOUS
  <2>1. CASE Next
    BY <2>1, MigrationStep
  <2>2. CASE schema' = schema /\ pc' = [pc EXCEPT ![Server] = 0]
    BY <2>2, Statements, ConfigAssumption DEF MigrationInv
  <2>3. CASE UNCHANGED vars
    BY <2>3 DEF vars, MigrationInv
  <2> QED
    BY <2>1, <2>2, <2>3 DEF StartUpNext, Opening, Crash, Next, Reconciling, InitKeys,
                           KeysUnreadable, Exit, Reconcile, Skip, Upsert, UpsertFails, Serve,
                           CannotServe, Deploy
<1> QED
  BY <1>1, <1>2, PTL DEF StartUpSpec

\* When Open has returned, in the server or in a command, the schema is
\* complete: whatever file it found and whoever ran the same statements.
THEOREM OpenCompletes == StartUpSpec => []OpenMeansComplete
<1>1. MigrationInv => OpenMeansComplete
  <2> SUFFICES ASSUME MigrationInv, NEW p \in Proc, pc[p] = Open
               PROVE  schema = {Object(i) : i \in 1 .. 12}
    BY Statements DEF OpenMeansComplete, Object
  <2> QED
    BY Statements DEF MigrationInv
<1> QED
  BY <1>1, OpeningCorrect, PTL

\* The table that an index or a column is for is made by an earlier statement.
LEMMA TablesFirst ==
  ASSUME NEW n \in 1 .. 12, migrate[n].kind # "create"
  PROVE  \E i \in 1 .. 12 : i < n /\ Object(i) = migrate[n].on
<1>1. \/ n = 5 /\ migrate[n].on = Object(4)
      \/ n = 10 /\ migrate[n].on = Object(9)
      \/ n \in {11, 12} /\ migrate[n].on = Object(2)
  BY DEF migrate, stmts, Create, Index, AddColumn, Object
<1> QED
  BY <1>1

\* No statement of Open is refused: on every file that an earlier version or a
\* start cut short has left, and with other processes executing the same
\* statements, Open goes on to the next one.  Only a crash or a lock stops it,
\* which is what EventuallyServes rests on.
THEOREM OpenNeverRefused ==
    StartUpSpec => [][\A p \in Proc : Exec(p) => pc'[p] = pc[p] + 1]_<<vars, clientVars>>
<1>1. MigrationInv => \A p \in Proc : Exec(p) => pc'[p] = pc[p] + 1
  <2> SUFFICES ASSUME MigrationInv, NEW p \in Proc, Exec(p) PROVE pc'[p] = pc[p] + 1
    OBVIOUS
  <2> DEFINE n == pc[p]
             err == SQLError(migrate[n])
  <2>1. n \in 1 .. 12
    BY Statements DEF Exec
  <2>2. migrate[n].kind # "create" => migrate[n].on \in schema
    BY <2>1, TablesFirst DEF MigrationInv
  <2>3. ~Fails(err)
    BY <2>2 DEF Fails, SQLError
  <2>4. pc' = [pc EXCEPT ![p] = After(n, err)]
    BY DEF Exec
  <2> QED
    BY <2>3, <2>4 DEF After, MigrationInv
<1> QED
  BY <1>1, OpeningCorrect, PTL

----------------------------------------------------------------------------
(* reconcileOIDCClients: the invariant of the loop                         *)

\* How many entries of the manifest the loop has passed.
Done == Len(Entries) - Len(todo)

\* The entries among the first n that decide about c.
DecidingUpTo(c, n) == {i \in Deciding(c) : i <= n}

\* The row that the entries D call for.
AsDeclared(c, D) ==
    IF D = {} THEN table[c] = before[c]
    ELSE table[c] = [secret |-> SecretOf(c), uris |-> Filtered(Entries[Max(D)].uris)]

\* Whatever is deployed is a configuration, and the registry holds rows.
ConfigOK ==
    /\ environment \in {"development", "production"}
    /\ manifest \in Manifest /\ clientKeys \in ClientKeys
    /\ kek \in KEK /\ missing \in Missing /\ sealed \in KEK \cup {NoKEK}
    /\ table \in [Client -> Row \cup {NoRow}]
    /\ before \in [Client -> Row \cup {NoRow}]
    /\ failed \in SUBSET Client
    /\ phase \in {"down", "keyed", "reconciling", "serving"}

\* What the loop has passed is as declared, what is left is left in order.
LoopInv ==
    phase \in {"reconciling", "serving"} =>
       /\ todo \in Seq(ManifestEntry) /\ Len(todo) <= Len(Entries)
       /\ phase = "serving" => todo = <<>>
       /\ \A j \in 1 .. Len(todo) : todo[j] = Entries[Done + j]
       /\ \A c \in Client \ failed : AsDeclared(c, DecidingUpTo(c, Done))

\* The manifest and CLIENT_KEYS as sequences.
LEMMA ConfigTypes ==
  ASSUME ConfigOK
  PROVE  /\ Entries \in Seq(ManifestEntry)
         /\ clientKeys \in Seq(KeyEntry \cup {Malformed})
  BY ConfigAssumption DEF ConfigOK, Entries

\* A client has a secret exactly when some well-formed entry of CLIENT_KEYS
\* names it.
LEMMA SecretKnown ==
  ASSUME ConfigOK, NEW c \in Client
  PROVE  /\ SecretOf(c) \in Secret \cup {NoSecret}
         /\ SecretOf(c) # NoSecret <=>
              \E j \in DOMAIN clientKeys : clientKeys[j] # Malformed /\ clientKeys[j].system = c
<1> DEFINE mine == {i \in DOMAIN clientKeys : clientKeys[i] # Malformed /\ clientKeys[i].system = c}
<1>1. clientKeys \in Seq(KeyEntry \cup {Malformed}) /\ Len(clientKeys) \in Nat
  BY ConfigTypes
<1>2. mine \in SUBSET (1 .. Len(clientKeys))
  BY <1>1
<1>3. CASE mine = {}
  BY <1>3 DEF SecretOf
<1>4. CASE mine # {}
  <2>1. Max(mine) \in mine
    <3> HIDE DEF mine
    <3> QED
      BY <1>1, <1>2, <1>4, MaxOf
  <2>2. clientKeys[Max(mine)] \in KeyEntry
    BY <1>1, <2>1
  <2>3. SecretOf(c) = clientKeys[Max(mine)].secret
    BY <1>4 DEF SecretOf
  <2> QED
    BY <2>1, <2>2, <2>3, ConfigAssumption DEF KeyEntry
<1> QED
  BY <1>3, <1>4

\* The loop passes over an entry (its two conditions in reconcileOIDCClients)
\* exactly when the entry does not decide about its client.
LEMMA SkippedIsUndecided ==
  ASSUME ConfigOK, NEW i \in DOMAIN Entries
  PROVE  /\ Entries[i].client \in Client
         /\ i \in Deciding(Entries[i].client) <=> ~Skipped(Entries[i])
<1>1. Entries[i] \in ManifestEntry
  BY ConfigTypes
<1>2. Entries[i].client \in Client
  BY <1>1 DEF ManifestEntry
<1>3. (Entries[i].uris # {} /\ Filtered(Entries[i].uris) = {}) <=>
        ~(\/ environment = "development"
          \/ Entries[i].uris = {}
          \/ \E u \in Entries[i].uris : u \notin Loopback)
  BY DEF Filtered
<1> QED
  BY <1>2, <1>3, SecretKnown DEF Deciding, Skipped
\* The loop takes an entry from the list: what it has done, and what is left.
LEMMA Popped ==
  ASSUME ConfigOK, LoopInv, phase = "reconciling", todo # <<>>,
         todo' = Tail(todo), UNCHANGED config
  PROVE  /\ Done \in Nat /\ Done + 1 \in DOMAIN Entries
         /\ Head(todo) = Entries[Done + 1]
         /\ Done' = Done + 1
         /\ todo' \in Seq(ManifestEntry) /\ Len(todo') <= Len(Entries)
         /\ \A j \in 1 .. Len(todo') : todo'[j] = Entries[Done + 1 + j]
<1>1. /\ todo \in Seq(ManifestEntry) /\ Len(todo) <= Len(Entries) /\ Len(todo) \in Nat
      /\ \A j \in 1 .. Len(todo) : todo[j] = Entries[Done + j]
  BY DEF LoopInv
<1>2. Entries \in Seq(ManifestEntry) /\ Len(Entries) \in Nat
  BY ConfigTypes
<1>3. Len(todo) > 0 /\ Head(todo) = todo[1]
  BY <1>1
<1>4. /\ todo' \in Seq(ManifestEntry) /\ Len(todo') = Len(todo) - 1
      /\ \A j \in 1 .. Len(todo') : todo'[j] = todo[j + 1]
  BY <1>1, <1>3
<1>5. Entries' = Entries
  BY DEF Entries, config
<1>6. Done \in Nat /\ Done + 1 \in 1 .. Len(Entries) /\ Done' = Done + 1
  BY <1>1, <1>2, <1>3, <1>4, <1>5 DEF Done
<1>7. ASSUME NEW j \in 1 .. Len(todo') PROVE todo'[j] = Entries[Done + 1 + j]
  <2>1. todo'[j] = todo[j + 1] /\ j + 1 \in 1 .. Len(todo)
    BY <1>1, <1>4
  <2>2. todo[j + 1] = Entries[Done + (j + 1)]
    BY <1>1, <2>1
  <2>3. Done + (j + 1) = Done + 1 + j
    BY <1>6
  <2> QED
    BY <2>1, <2>2, <2>3
<1> QED
  BY <1>1, <1>2, <1>3, <1>4, <1>6, <1>7

\* What the loop invariant becomes when nothing of the configuration changes.
LEMMA SameConfig ==
  ASSUME UNCHANGED config
  PROVE  /\ Entries' = Entries
         /\ \A c \in Client : Deciding(c)' = Deciding(c) /\ SecretOf(c)' = SecretOf(c)
         /\ \A uris \in SUBSET URI : Filtered(uris)' = Filtered(uris)
<1>1. environment' = environment /\ manifest' = manifest /\ clientKeys' = clientKeys
  BY DEF config
<1> QED
  BY <1>1 DEF Entries, Deciding, SecretOf, Filtered

\* An entry that is passed over, or that is another client's, adds nothing.
LEMMA OthersKeep ==
  ASSUME ConfigOK, NEW c \in Client, NEW n \in Nat, n + 1 \notin Deciding(c)
  PROVE  DecidingUpTo(c, n + 1) = DecidingUpTo(c, n)
<1>1. \A i \in Deciding(c) : i \in Nat /\ i # n + 1
  BY ConfigTypes DEF Deciding
<1> QED
  BY <1>1 DEF DecidingUpTo

\* An entry that is not passed over decides, up to where it stands.
LEMMA LastDecides ==
  ASSUME ConfigOK, NEW c \in Client, NEW n \in Nat, n \in Deciding(c)
  PROVE  DecidingUpTo(c, n) # {} /\ Max(DecidingUpTo(c, n)) = n
<1> DEFINE D == DecidingUpTo(c, n)
<1>1. D \in SUBSET (1 .. n) /\ n \in D
  BY ConfigTypes DEF Deciding, DecidingUpTo
<1>2. Max(D) \in D /\ \A x \in D : x <= Max(D)
  <2> HIDE DEF D
  <2> QED
    BY <1>1, MaxOf
<1>3. Max(D) \in 1 .. n /\ n <= Max(D)
  BY <1>1, <1>2
<1> QED
  BY <1>1, <1>3

\* What an upsert writes is a row.
LEMMA UpsertedRow ==
  ASSUME ConfigOK, NEW i \in DOMAIN Entries, ~Skipped(Entries[i])
  PROVE  LET e == Entries[i] IN
         /\ Upserted(e) \in [Client -> Row \cup {NoRow}]
         /\ Upserted(e)[e.client] =
              [secret |-> SecretOf(e.client), uris |-> Filtered(e.uris)]
         /\ Upserted(e)[e.client] \in Row
         /\ \A c \in Client : c # e.client => Upserted(e)[c] = table[c]
         /\ Filtered(e.uris) = {} => e.uris = {}
<1> DEFINE e == Entries[i]
<1>1. e \in ManifestEntry
  BY ConfigTypes
<1>2. e.client \in Client /\ e.uris \in SUBSET URI
  BY <1>1 DEF ManifestEntry
<1>3. Filtered(e.uris) \in SUBSET URI
  BY <1>2 DEF Filtered
<1>4. SecretOf(e.client) \in Secret
  BY <1>2, SecretKnown DEF Skipped
<1>5. [secret |-> SecretOf(e.client), uris |-> Filtered(e.uris)] \in Row
  BY <1>3, <1>4 DEF Row
<1>6. table \in [Client -> Row \cup {NoRow}]
  BY DEF ConfigOK
<1>7. Filtered(e.uris) = {} => e.uris = {}
  BY DEF Skipped
<1> QED
  BY <1>2, <1>5, <1>6, <1>7 DEF Upserted

\* The inductive invariant.
ReconcileInv == ConfigOK /\ LoopInv

\* The loop begins: nothing is passed, every row is the row it was.
LEMMA ReconcileStep ==
  ASSUME ReconcileInv, Reconcile
  PROVE  ReconcileInv'
<1>1. ConfigOK'
  BY DEF ReconcileInv, Reconcile, ConfigOK, config
<1>2. Entries' = Entries /\ \A c \in Client : Deciding(c)' = Deciding(c)
  BY SameConfig DEF Reconcile
<1>3. Entries \in Seq(ManifestEntry) /\ Len(Entries) \in Nat
  BY ConfigTypes DEF ReconcileInv
<1>4. todo' = Entries /\ Done' = 0
  BY <1>2, <1>3 DEF Reconcile, Done
<1>5. \A j \in 1 .. Len(todo') : todo'[j] = Entries'[Done' + j]
  BY <1>2, <1>3, <1>4
<1>6. ASSUME NEW c \in Client PROVE AsDeclared(c, DecidingUpTo(c, Done))'
  <2>1. DecidingUpTo(c, Done)' = {i \in Deciding(c)' : i <= 0}
    BY <1>4 DEF DecidingUpTo
  <2>2. \A i \in Deciding(c)' : i \in Nat \ {0}
    BY <1>2, <1>3 DEF Deciding
  <2>3. DecidingUpTo(c, Done)' = {}
    BY <2>1, <2>2
  <2>4. table'[c] = before'[c]
    BY DEF Reconcile
  <2> QED
    BY <2>3, <2>4 DEF AsDeclared
<1>7. phase' = "reconciling"
  BY DEF Reconcile
<1> QED
  BY <1>1, <1>2, <1>3, <1>4, <1>5, <1>6, <1>7 DEF ReconcileInv, LoopInv


\* A step of the loop that leaves the row of c as it is, for an entry that does
\* not decide about c, leaves it as declared.
LEMMA RowKept ==
  ASSUME ConfigOK, UNCHANGED <<config, before>>, NEW c \in Client, NEW n \in Nat,
         n + 1 \notin Deciding(c), table'[c] = table[c], Done' = n + 1,
         AsDeclared(c, DecidingUpTo(c, n))
  PROVE  AsDeclared(c, DecidingUpTo(c, Done))'
<1>0. PICK D : D = DecidingUpTo(c, n)
  OBVIOUS
<1>1. DecidingUpTo(c, Done)' = D
  <2>1. DecidingUpTo(c, Done)' = {i \in Deciding(c)' : i <= n + 1}
    BY DEF DecidingUpTo
  <2>2. DecidingUpTo(c, Done)' = DecidingUpTo(c, n + 1)
    BY <2>1, SameConfig DEF DecidingUpTo
  <2> QED
    BY <1>0, <2>2, OthersKeep
<1>2. CASE D = {}
  BY <1>0, <1>1, <1>2 DEF AsDeclared
<1>3. CASE D # {}
  <2>1. PICK m : m = Max(D)
    OBVIOUS
  <2>2. m \in DOMAIN Entries
    <3>1. Len(Entries) \in Nat /\ DOMAIN Entries = 1 .. Len(Entries)
      BY ConfigTypes
    <3>2. D \in SUBSET (1 .. Len(Entries))
      BY <1>0, <3>1 DEF Deciding, DecidingUpTo
    <3>3. Max(D) \in D
      BY <1>3, <3>1, <3>2, MaxOf
    <3> QED
      BY <2>1, <3>1, <3>2, <3>3
  <2>3. Entries[m].uris \in SUBSET URI
    <3>1. Entries[m] \in ManifestEntry
      BY <2>2, ConfigTypes
    <3> QED
      BY <3>1 DEF ManifestEntry
  <2>4. table[c] = [secret |-> SecretOf(c), uris |-> Filtered(Entries[m].uris)]
    BY <1>0, <1>3, <2>1 DEF AsDeclared
  <2>5. SecretOf(c)' = SecretOf(c) /\ Entries' = Entries
    BY SameConfig
  <2>6. Filtered(Entries[m].uris)' = Filtered(Entries[m].uris)
    BY <2>5 DEF Filtered, config
  <2>7. table'[c] = [secret |-> SecretOf(c)', uris |-> Filtered(Entries[m].uris)']
    BY <2>4, <2>5, <2>6
  <2>8. AsDeclared(c, D)'
    BY <1>3, <2>1, <2>7 DEF AsDeclared
  <2> QED
    BY <1>1, <2>8 DEF AsDeclared
<1> QED
  BY <1>2, <1>3

\* An entry is passed over: no row changes, no client is decided anew.
LEMMA SkipStep ==
  ASSUME ReconcileInv, Skip
  PROVE  ReconcileInv'
<1> USE DEF ReconcileInv
<1>1. ConfigOK'
  BY DEF Skip, ConfigOK, config
<1>2. PICK n : n = Done
  OBVIOUS
<1>3. /\ n \in Nat /\ n + 1 \in DOMAIN Entries
      /\ Head(todo) = Entries[n + 1]
      /\ Done' = n + 1
      /\ todo' \in Seq(ManifestEntry) /\ Len(todo') <= Len(Entries)
      /\ \A j \in 1 .. Len(todo') : todo'[j] = Entries[n + 1 + j]
  BY <1>2, Popped DEF Skip
<1>4. Entries' = Entries
  BY SameConfig DEF Skip
<1>5. ASSUME NEW c \in Client \ failed' PROVE AsDeclared(c, DecidingUpTo(c, Done))'
  <2>1. AsDeclared(c, DecidingUpTo(c, n))
    BY <1>2 DEF LoopInv, Skip
  <2>2. n + 1 \notin Deciding(c)
    <3>1. n + 1 \notin Deciding(Entries[n + 1].client)
      BY <1>3, SkippedIsUndecided DEF Skip
    <3> QED
      BY <3>1 DEF Deciding
  <2> QED
    BY <1>3, <2>1, <2>2, RowKept DEF Skip
<1>6. phase' = "reconciling"
  BY DEF Skip
<1> QED
  BY <1>1, <1>3, <1>4, <1>5, <1>6 DEF LoopInv

\* An upsert, executed or not, for the client of the entry at hand.
LEMMA UpsertStep ==
  ASSUME ReconcileInv, Upsert \/ UpsertFails
  PROVE  /\ ReconcileInv'
         /\ \E i \in DOMAIN Entries :
               ~Skipped(Entries[i]) /\ table' \in {table, Upserted(Entries[i])}
<1> USE DEF ReconcileInv
<1>2. PICK n : n = Done
  OBVIOUS
<1>3. /\ n \in Nat /\ n + 1 \in DOMAIN Entries
      /\ Head(todo) = Entries[n + 1]
      /\ Done' = n + 1
      /\ todo' \in Seq(ManifestEntry) /\ Len(todo') <= Len(Entries)
      /\ \A j \in 1 .. Len(todo') : todo'[j] = Entries[n + 1 + j]
  BY <1>2, Popped DEF Upsert, UpsertFails
<1>4. Entries' = Entries
  BY SameConfig DEF Upsert, UpsertFails
<1>5. PICK e : e = Entries[n + 1]
  OBVIOUS
<1>6. /\ phase' = "reconciling" /\ UNCHANGED <<config, before>> /\ ~Skipped(e)
      /\ sealed' = sealed
      /\ \/ table' = Upserted(e) /\ failed' = failed \ {e.client}
         \/ table' \in {table, Upserted(e)} /\ failed' = failed \cup {e.client}
  BY <1>3, <1>5 DEF Upsert, UpsertFails, AfterFailure
<1>7. /\ e.client \in Client /\ n + 1 \in Deciding(e.client)
      /\ \A c \in Client : c # e.client => n + 1 \notin Deciding(c)
  BY <1>3, <1>5, <1>6, SkippedIsUndecided DEF Deciding
<1>8. /\ Upserted(e) \in [Client -> Row \cup {NoRow}]
      /\ Upserted(e)[e.client] =
           [secret |-> SecretOf(e.client), uris |-> Filtered(e.uris)]
      /\ \A c \in Client : c # e.client => Upserted(e)[c] = table[c]
  BY <1>3, <1>5, <1>6, UpsertedRow
<1>9. ConfigOK'
  BY <1>6, <1>7, <1>8 DEF ConfigOK, config
<1>10. ASSUME NEW c \in Client \ failed', c # e.client
       PROVE  AsDeclared(c, DecidingUpTo(c, Done))'
  <2>1. c \notin failed /\ table'[c] = table[c]
    BY <1>6, <1>8, <1>10
  <2>2. AsDeclared(c, DecidingUpTo(c, n))
    BY <1>2, <2>1 DEF LoopInv, Upsert, UpsertFails
  <2> QED
    BY <1>3, <1>6, <1>7, <1>10, <2>1, <2>2, RowKept
<1>11. ASSUME e.client \notin failed'
       PROVE  AsDeclared(e.client, DecidingUpTo(e.client, Done))'
  <2>1. table'[e.client] = [secret |-> SecretOf(e.client), uris |-> Filtered(e.uris)]
    BY <1>6, <1>8, <1>11
  <2>2. PICK D : D = DecidingUpTo(e.client, n + 1)
    OBVIOUS
  <2>3. D # {} /\ Max(D) = n + 1
    BY <1>3, <1>7, <2>2, LastDecides
  <2>4. DecidingUpTo(e.client, Done)' = D
    <3>1. Deciding(e.client)' = Deciding(e.client)
      BY <1>6, <1>7, SameConfig
    <3> QED
      BY <1>3, <2>2, <3>1 DEF DecidingUpTo
  <2>5. SecretOf(e.client)' = SecretOf(e.client) /\ Filtered(e.uris)' = Filtered(e.uris)
    BY <1>6, <1>7, SameConfig DEF Filtered, config
  <2>6. AsDeclared(e.client, D)'
    BY <1>4, <1>5, <2>1, <2>3, <2>5 DEF AsDeclared
  <2> QED
    BY <2>4, <2>6 DEF AsDeclared
<1>12. LoopInv'
  BY <1>3, <1>4, <1>6, <1>10, <1>11 DEF LoopInv
<1> QED
  BY <1>3, <1>5, <1>6, <1>9, <1>12
\* A step that leaves the configuration, the table and the loop alone.
LEMMA LoopAlone ==
  ASSUME ReconcileInv, UNCHANGED <<config, sealed, table, todo, before, failed>>,
         \/ phase' = phase
         \/ phase = "reconciling" /\ phase' = "serving" /\ todo = <<>>
  PROVE  ReconcileInv'
<1>1. ConfigOK'
  BY DEF ReconcileInv, ConfigOK, config
<1>2. environment' = environment /\ manifest' = manifest /\ clientKeys' = clientKeys
  BY DEF config
<1>3. Entries' = Entries /\ Done' = Done
  BY <1>2 DEF Entries, Done
<1>4. ASSUME NEW c \in Client
      PROVE  AsDeclared(c, DecidingUpTo(c, Done))' <=> AsDeclared(c, DecidingUpTo(c, Done))
  BY <1>2, <1>3 DEF AsDeclared, DecidingUpTo, Deciding, SecretOf, Filtered
<1> QED
  BY <1>1, <1>3, <1>4 DEF ReconcileInv, LoopInv

\* The invariant holds throughout.
LEMMA ReconcileNext ==
  ASSUME ReconcileInv, [StartUpNext]_<<vars, clientVars>>
  PROVE  ReconcileInv'
<1>1. ASSUME NEW p \in Proc, Opening(p) PROVE ReconcileInv'
  BY <1>1, LoopAlone DEF Opening, clientVars
<1>2. ASSUME NEW p \in Proc, Crash(p) PROVE ReconcileInv'
  <2>1. CASE p = Server
    BY <1>2, <2>1 DEF Crash, ReconcileInv, ConfigOK, LoopInv, config
  <2>2. CASE p # Server
    BY <1>2, <2>2, LoopAlone DEF Crash
  <2> QED
    BY <2>1, <2>2
<1>3. CASE Serve
  BY <1>3, LoopAlone DEF Serve
<1>4. ASSUME NEW m \in Manifest, NEW k \in ClientKeys, NEW s \in KEK, NEW x \in Missing,
             Deploy(m, k, s, x)
      PROVE  ReconcileInv'
  BY <1>4 DEF Deploy, ReconcileInv, ConfigOK, LoopInv
<1>5. CASE UNCHANGED <<vars, clientVars>>
  BY <1>5, LoopAlone DEF clientVars
<1>6. CASE InitKeys
  BY <1>6 DEF InitKeys, ReconcileInv, ConfigOK, LoopInv, config
<1>7. CASE KeysUnreadable \/ CannotServe
  BY <1>7 DEF KeysUnreadable, CannotServe, Exit, ReconcileInv, ConfigOK, LoopInv, config
<1> QED
  BY <1>1, <1>2, <1>3, <1>4, <1>5, <1>6, <1>7, ReconcileStep, SkipStep, UpsertStep
  DEF StartUpNext, Reconciling

\* The invariant of the loop, through crashes, redeploys and failing upserts.
THEOREM ReconcileCorrect == StartUpSpec => []ReconcileInv
<1>1. StartUpInit => ReconcileInv
  BY DEF StartUpInit, ReconcileInv, ConfigOK, LoopInv
<1> QED
  BY <1>1, ReconcileNext, PTL DEF StartUpSpec

\* While the service serves, every client whose upsert did not fail has the
\* row of the last entry deciding about it, or the row it had before.
THEOREM Registered == StartUpSpec => []ServedAsDeclared
<1>1. ReconcileInv => ServedAsDeclared
  <2> SUFFICES ASSUME ReconcileInv, phase = "serving", NEW c \in Client \ failed
               PROVE  IF Deciding(c) = {} THEN table[c] = before[c]
                      ELSE LET e == Entries[Max(Deciding(c))] IN
                           /\ table[c] # NoRow
                           /\ table[c].uris =
                                {u \in e.uris : environment = "development" \/ u \notin Loopback}
                           /\ table[c].secret = SecretOf(c)
    BY DEF ServedAsDeclared
  <2>1. Entries \in Seq(ManifestEntry) /\ Len(Entries) \in Nat /\ DOMAIN Entries = 1 .. Len(Entries)
    BY ConfigTypes DEF ReconcileInv
  <2>2. Done = Len(Entries) /\ AsDeclared(c, DecidingUpTo(c, Done))
    BY <2>1 DEF ReconcileInv, LoopInv, Done
  <2>3. DecidingUpTo(c, Done) = Deciding(c)
    BY <2>1, <2>2 DEF DecidingUpTo, Deciding
  <2>4. CASE Deciding(c) = {}
    BY <2>2, <2>3, <2>4 DEF AsDeclared
  <2>5. CASE Deciding(c) # {}
    <3> DEFINE m == Max(Deciding(c))
    <3>1. m \in Deciding(c)
      <4>1. Deciding(c) \in SUBSET (1 .. Len(Entries))
        BY <2>1 DEF Deciding
      <4> QED
        BY <2>1, <2>5, <4>1, MaxOf
    <3>2. m \in DOMAIN Entries /\ Entries[m].client = c /\ ~Skipped(Entries[m])
      <4> HIDE DEF m
      <4>1. m \in DOMAIN Entries /\ Entries[m].client = c
        BY <3>1 DEF Deciding
      <4> QED
        BY <3>1, <4>1, SkippedIsUndecided DEF ReconcileInv
    <3>3. table[c] = [secret |-> SecretOf(c), uris |-> Filtered(Entries[m].uris)]
      BY <2>2, <2>3, <2>5 DEF AsDeclared
    <3> HIDE DEF m
    <3>4. table[c] \in Row
      <4>1. Upserted(Entries[m])[Entries[m].client] = table[c]
            /\ Upserted(Entries[m])[Entries[m].client] \in Row
        BY <3>2, <3>3, UpsertedRow DEF ReconcileInv
      <4> QED
        BY <4>1
    <3>5. table[c] # NoRow
      BY <3>4, ConfigAssumption DEF Row
    <3>6. Filtered(Entries[m].uris) =
            {u \in Entries[m].uris : environment = "development" \/ u \notin Loopback}
      BY DEF Filtered
    <3> QED
      BY <2>5, <3>3, <3>5, <3>6 DEF m
  <2> QED
    BY <2>4, <2>5
<1> QED
  BY <1>1, ReconcileCorrect, PTL

\* No step removes a client, or takes the last redirect URI from one that the
\* manifest does not declare without any.
THEOREM NeverWiped == StartUpSpec => UsableStaysUsable
<1> DEFINE Keeps == \A c \in Client :
             table[c] # NoRow =>
               /\ table'[c] # NoRow
               /\ table[c].uris # {} /\ table'[c].uris = {} =>
                    \E i \in DOMAIN Entries : Entries[i] = [client |-> c, uris |-> {}]
<1>1. ReconcileInv /\ [StartUpNext]_<<vars, clientVars>> => [Keeps]_<<vars, clientVars>>
  <2> SUFFICES ASSUME ReconcileInv, StartUpNext PROVE Keeps
    OBVIOUS
  <2>1. CASE table' = table
    BY <2>1
  <2>2. CASE Upsert \/ UpsertFails
    <3>1. PICK i \in DOMAIN Entries :
             ~Skipped(Entries[i]) /\ table' \in {table, Upserted(Entries[i])}
      BY <2>2, UpsertStep
    <3>2. CASE table' = Upserted(Entries[i])
      <4>1. ASSUME NEW c \in Client, c # Entries[i].client PROVE table'[c] = table[c]
        BY <3>1, <3>2, <4>1, UpsertedRow DEF ReconcileInv
      <4> DEFINE d == Entries[i].client
      <4>2. /\ table'[d] = [secret |-> SecretOf(d), uris |-> Filtered(Entries[i].uris)]
            /\ table'[d] \in Row
            /\ Filtered(Entries[i].uris) = {} => Entries[i].uris = {}
        BY <3>1, <3>2, UpsertedRow DEF ReconcileInv
      <4>3. table'[d] # NoRow
        BY <4>2, ConfigAssumption DEF Row
      <4>4. table'[d].uris = {} => Entries[i] = [client |-> d, uris |-> {}]
        <5>1. Entries[i] \in ManifestEntry
          BY ConfigTypes DEF ReconcileInv
        <5> QED
          BY <4>2, <5>1 DEF ManifestEntry
      <4> QED
        BY <4>1, <4>3, <4>4
    <3> QED
      BY <2>1, <3>1, <3>2
  <2> QED
    BY <2>1, <2>2 DEF StartUpNext, Reconciling, Opening, Crash, clientVars, InitKeys,
                     KeysUnreadable, Exit, Reconcile, Skip, Serve, CannotServe, Deploy
<1> QED
  BY <1>1, ReconcileCorrect, PTL DEF StartUpSpec, UsableStaysUsable

----------------------------------------------------------------------------

\* The whole state stays well typed: the two invariants say most of it.
THEOREM StartUpTypes == StartUpSpec => []TypeOK
<1> DEFINE Rest == /\ todo \in Seq(ManifestEntry)
                   /\ deploys \in 0 .. MaxDeploys /\ faults \in 0 .. MaxFaults
<1>1. StartUpInit => Rest
  BY ConfigAssumption, FaultAssumption DEF StartUpInit, Init
<1>2. ConfigOK /\ Rest /\ [StartUpNext]_<<vars, clientVars>> => Rest'
  <2> SUFFICES ASSUME ConfigOK, Rest, [StartUpNext]_<<vars, clientVars>> PROVE Rest'
    OBVIOUS
  <2>1. CASE Reconcile
    BY <2>1, ConfigTypes DEF Reconcile, vars
  <2>2. CASE Skip \/ Upsert \/ UpsertFails
    <3>1. todo' = Tail(todo) /\ todo # <<>> /\ UNCHANGED <<deploys, faults>>
      BY <2>2 DEF Skip, Upsert, UpsertFails, vars
    <3> QED
      BY <3>1
  <2>3. CASE Serve \/ InitKeys
    BY <2>3 DEF Serve, InitKeys, vars
  <2>4. ASSUME NEW p \in Proc, Opening(p) PROVE Rest'
    BY <2>4 DEF Opening, Start, Exec, clientVars
  <2>5. ASSUME NEW p \in Proc, Crash(p) PROVE Rest'
    <3>1. faults' \in 0 .. MaxFaults
      BY <2>5, FaultAssumption DEF Crash, Fault
    <3>2. todo' \in Seq(ManifestEntry)
      <4>1. todo' = <<>> \/ todo' = todo
        BY <2>5 DEF Crash
      <4>2. <<>> \in Seq(ManifestEntry) /\ todo \in Seq(ManifestEntry)
        OBVIOUS
      <4> QED
        BY <4>1, <4>2, Zenon
    <3> QED
      BY <2>5, <3>1, <3>2 DEF Crash
  <2>6. ASSUME NEW m \in Manifest, NEW k \in ClientKeys, NEW s \in KEK, NEW x \in Missing,
               Deploy(m, k, s, x)
        PROVE  Rest'
    <3>1. deploys' \in 0 .. MaxDeploys
      BY <2>6, ConfigAssumption DEF Deploy
    <3> QED
      BY <2>6, <3>1 DEF Deploy
  <2>7. CASE UNCHANGED <<vars, clientVars>>
    BY <2>7 DEF vars, clientVars
  <2>8. CASE KeysUnreadable \/ CannotServe
    <3>1. todo' = <<>> /\ UNCHANGED <<deploys, faults>>
      BY <2>8 DEF KeysUnreadable, CannotServe, Exit
    <3>2. <<>> \in Seq(ManifestEntry)
      OBVIOUS
    <3>3. todo' \in Seq(ManifestEntry)
      BY <3>1, <3>2, Zenon
    <3> QED
      BY <3>1, <3>3
  <2> QED
    BY <2>1, <2>2, <2>3, <2>4, <2>5, <2>6, <2>7, <2>8 DEF StartUpNext, Reconciling
<1>3. ReconcileInv => ConfigOK
  BY DEF ReconcileInv
<1>4. MigrationInv /\ ConfigOK /\ Rest => TypeOK
  <2>1. DOMAIN migrate = 1 .. 12
    BY DEF migrate, stmts
  <2> QED
    BY <2>1 DEF MigrationInv, ConfigOK, TypeOK, Object
<1> HIDE DEF Rest
<1> QED
  BY <1>1, <1>2, <1>3, <1>4, OpeningCorrect, ReconcileCorrect, PTL DEF StartUpSpec
=============================================================================
