-------------------------- MODULE ClientReconcile --------------------------
(***************************************************************************)
(* main, up to ListenAndServe: the required variables, store.Open (module  *)
(* Migration), the signing keys, the registry of OIDC clients and the      *)
(* variables required after it.  Whatever is wrong with them is fatal, and *)
(* the container starts the process again.  Rows of the registry are       *)
(* written only here, by reconcileOIDCClients: it walks the committed      *)
(* manifest, matches every entry with a secret of CLIENT_KEYS and upserts  *)
(* it, one statement after the other and outside any transaction.          *)
(*                                                                         *)
(* A deploy replaces the binary (with its manifest) and the environment;   *)
(* a crash restarts what is deployed.  Redirect URIs are a set, since they *)
(* are only ever looked up; names and timestamps are left out, and of the  *)
(* signing keys only which KEK opens them is kept (see SigningKeys).       *)
(***************************************************************************)
EXTENDS Migration, FiniteSets, SequencesExt

CONSTANTS
    Server,         \* the process that serves, one of Proc
    Client,         \* client ids, which are also the systems of CLIENT_KEYS
    Secret, NoSecret,
    URI,
    Loopback,       \* the URIs whose host is localhost or a loopback address
    Manifest,       \* the manifests that may be committed
    ClientKeys,     \* the values that CLIENT_KEYS may have
    KEK, NoKEK,     \* values of SIGNING_KEK
    NoRow,
    Unparseable,    \* a manifest that is not the JSON expected
    Malformed,      \* an entry of CLIENT_KEYS that lacks one of its parts
    MaxDeploys      \* bound on the deploys

ManifestEntry == [client : Client, uris : SUBSET URI]
KeyEntry == [system : Client, secret : Secret]

ASSUME ConfigAssumption ==
    /\ Server \in Proc /\ Loopback \subseteq URI
    /\ \A m \in Manifest : m = Unparseable \/ m \in Seq(ManifestEntry)
    /\ \A k \in ClientKeys : k \in Seq(KeyEntry \cup {Malformed})
    /\ NoSecret \notin Secret /\ NoRow \notin [secret : Secret, uris : SUBSET URI]
    /\ NoKEK \notin KEK
    /\ MaxDeploys \in Nat

VARIABLES
    environment,    \* ENVIRONMENT: a property of the host, it never changes
    manifest,       \* oidcClientsJSON of the deployed binary
    clientKeys,     \* CLIENT_KEYS of the deployment
    kek,            \* SIGNING_KEK of the deployment
    missing,        \* what the deployment lacks: see Missing
    sealed,         \* the KEK of the rows of signing_keys, NoKEK without any
    table,          \* oidc_clients
    phase,          \* main after store.Open: down stands for before it, too
    todo,           \* the entries that the loop has not reached
    before,         \* history: the table when this start began
    failed,         \* history: the clients whose upsert failed in this start
    deploys

config == <<environment, manifest, clientKeys, kek, missing>>
clientVars == <<config, sealed, table, phase, todo, before, failed, deploys>>

Row == [secret : Secret, uris : SUBSET URI]

\* A variable that main requires before it opens the store (PORT, SYSTEM,
\* APP_ORIGIN, SIGNING_KEK); one of those it requires after the reconciliation
\* (LUCOS_CONTACTS_ORIGIN, KEY_LUCOS_CONTACTS), or an APP_ORIGIN of which
\* webauthn.New makes nothing; or nothing.
Missing == {"early", "late", "nothing"}

TypeOK ==
    /\ environment \in {"development", "production"}
    /\ manifest \in Manifest
    /\ clientKeys \in ClientKeys
    /\ kek \in KEK /\ missing \in Missing /\ sealed \in KEK \cup {NoKEK}
    /\ table \in [Client -> Row \cup {NoRow}]
    /\ phase \in {"down", "keyed", "reconciling", "serving"}
    /\ todo \in Seq(ManifestEntry)
    /\ before \in [Client -> Row \cup {NoRow}]
    /\ failed \subseteq Client
    /\ deploys \in 0 .. MaxDeploys
    /\ schema \subseteq {migrate[i].object : i \in DOMAIN migrate}
    /\ pc \in [Proc -> 0 .. Open] /\ faults \in 0 .. MaxFaults

----------------------------------------------------------------------------
(* What is read from the configuration                                     *)

\* parseOIDCClientManifest; one that cannot be parsed counts as empty.
Entries == IF manifest = Unparseable THEN <<>> ELSE manifest

\* parseClientKeysBySystem: malformed entries are skipped, of several entries
\* for a system the last one counts.
SecretOf(c) ==
    LET mine == {i \in DOMAIN clientKeys :
                   clientKeys[i] # Malformed /\ clientKeys[i].system = c}
    IN  IF mine = {} THEN NoSecret ELSE clientKeys[Max(mine)].secret

\* filterRedirectURIsForEnvironment
Filtered(uris) ==
    IF environment = "development" THEN uris ELSE uris \ Loopback

\* Bug: the second check is missing.
SkippedWithoutSecret(e) == SecretOf(e.client) = NoSecret

\* The two reasons for which the loop passes over an entry.
Skipped(e) ==
    \/ SecretOf(e.client) = NoSecret
    \/ e.uris # {} /\ Filtered(e.uris) = {}

----------------------------------------------------------------------------
(* main before reconcileOIDCClients                                        *)

\* log.Fatalf; "restart: always" starts the process again.
Exit ==
    /\ pc' = [pc EXCEPT ![Server] = 0]
    /\ phase' = "down"
    /\ todo' = <<>>
    /\ UNCHANGED <<schema, faults, config, sealed, table, before, failed, deploys>>

\* MigrateSigningKeyEncryption, GetOrCreateActiveSigningKey and
\* RotateSigningKeyIfOlderThan work: there is no sealed row yet, or SIGNING_KEK
\* opens the rows.
Readable == sealed \in {NoKEK, kek}

\* The three calls; afterwards there is an active key, sealed with the KEK.
InitKeys ==
    /\ phase = "down" /\ pc[Server] = Open
    /\ Readable
    /\ sealed' = kek
    /\ phase' = "keyed"
    /\ UNCHANGED <<vars, config, table, todo, before, failed, deploys>>

\* One of them fails.
KeysUnreadable ==
    /\ phase = "down" /\ pc[Server] = Open
    /\ ~Readable
    /\ Exit

----------------------------------------------------------------------------
(* reconcileOIDCClients                                                    *)

Reconcile ==
    /\ phase = "keyed"
    /\ phase' = "reconciling"
    /\ todo' = Entries
    /\ before' = table
    /\ failed' = {}
    /\ UNCHANGED <<vars, config, sealed, table, deploys>>

\* Bug: an existing row is left as it is.
UpsertedOnce(e) ==
    IF table[e.client] = NoRow
      THEN [table EXCEPT ![e.client] = [secret |-> SecretOf(e.client), uris |-> Filtered(e.uris)]]
      ELSE table

\* UpsertOIDCClient: INSERT ... ON CONFLICT DO UPDATE.
Upserted(e) ==
    [table EXCEPT ![e.client] = [secret |-> SecretOf(e.client), uris |-> Filtered(e.uris)]]

Skip ==
    /\ phase = "reconciling" /\ todo # <<>>
    /\ Skipped(Head(todo))
    /\ todo' = Tail(todo)
    /\ UNCHANGED <<vars, config, sealed, table, phase, before, failed, deploys>>

Upsert ==
    /\ phase = "reconciling" /\ todo # <<>>
    /\ ~Skipped(Head(todo))
    /\ table' = Upserted(Head(todo))
    /\ failed' = failed \ {Head(todo).client}
    /\ todo' = Tail(todo)
    /\ UNCHANGED <<vars, config, sealed, phase, before, deploys>>

\* An error is logged and the loop goes on.
AfterFailure == "reconciling"

\* The statement may have been executed all the same: UpsertOIDCClient reads
\* the row back, and that may be what failed.
UpsertFails ==
    /\ phase = "reconciling" /\ todo # <<>>
    /\ ~Skipped(Head(todo))
    /\ table' \in {table, Upserted(Head(todo))}
    /\ failed' = failed \cup {Head(todo).client}
    /\ todo' = Tail(todo)
    /\ phase' = AfterFailure
    /\ UNCHANGED <<vars, config, sealed, before, deploys>>

\* The rest of main, to ListenAndServe.
Serve ==
    /\ phase = "reconciling" /\ todo = <<>>
    /\ missing # "late"
    /\ phase' = "serving"
    /\ UNCHANGED <<vars, config, sealed, table, todo, before, failed, deploys>>

\* The rest of main when getEnvRequired or webauthn.New fails: the registry has
\* been written all the same.
CannotServe ==
    /\ phase = "reconciling" /\ todo = <<>>
    /\ missing = "late"
    /\ Exit

----------------------------------------------------------------------------
(* The processes, and what becomes of them                                 *)

\* store.Open, in the server or in a maintenance command.  A server without
\* the variables required first exits before it.
Opening(p) ==
    /\ p = Server => missing # "early"
    /\ Start(p) \/ Exec(p)
    /\ UNCHANGED clientVars

\* Wherever the server was, a crash takes it back to its start.
Crash(p) ==
    /\ Fault(p)
    /\ IF p = Server THEN phase' = "down" /\ todo' = <<>> ELSE UNCHANGED <<phase, todo>>
    /\ UNCHANGED <<config, sealed, table, before, failed, deploys>>

\* Another binary, another environment or both; whatever ran is stopped.
Deploy(m, k, s, x) ==
    /\ deploys < MaxDeploys
    /\ manifest' = m /\ clientKeys' = k /\ kek' = s /\ missing' = x
    /\ pc' = [pc EXCEPT ![Server] = 0]
    /\ phase' = "down"
    /\ todo' = <<>>
    /\ deploys' = deploys + 1
    /\ UNCHANGED <<schema, faults, environment, sealed, table, before, failed>>

----------------------------------------------------------------------------

StartUpInit ==
    /\ Init
    /\ environment \in {"development", "production"}
    /\ manifest \in Manifest /\ clientKeys \in ClientKeys
    /\ kek \in KEK /\ missing \in Missing /\ sealed = NoKEK
    /\ table = [c \in Client |-> NoRow]
    /\ phase = "down" /\ todo = <<>>
    /\ before = table /\ failed = {}
    /\ deploys = 0

\* main, from the end of store.Open until it listens.
Reconciling ==
    \/ InitKeys \/ KeysUnreadable
    \/ Reconcile \/ Skip \/ Upsert \/ UpsertFails
    \/ Serve \/ CannotServe

StartUpNext ==
    \/ \E p \in Proc : Opening(p) \/ Crash(p)
    \/ Reconciling
    \/ \E m \in Manifest, k \in ClientKeys, s \in KEK, x \in Missing : Deploy(m, k, s, x)

\* The container runs with "restart: always", an operator repeats a command
\* that failed, and a process runs on.
StartUpFairness ==
    /\ \A p \in Proc : WF_<<vars, clientVars>>(Opening(p))
    /\ WF_<<vars, clientVars>>(Reconciling)

StartUpSpec == StartUpInit /\ [][StartUpNext]_<<vars, clientVars>> /\ StartUpFairness

----------------------------------------------------------------------------
(* Properties                                                              *)

\* The entry of the manifest that decides about client c: the last one that
\* has a secret and, outside development, a URI that is not loopback (or none
\* at all).  Stated apart from the loop.
Deciding(c) ==
    {i \in DOMAIN Entries :
        /\ Entries[i].client = c
        /\ \E j \in DOMAIN clientKeys :
              clientKeys[j] # Malformed /\ clientKeys[j].system = c
        /\ \/ environment = "development"
           \/ Entries[i].uris = {}
           \/ \E u \in Entries[i].uris : u \notin Loopback}

\* While the service serves, every client has the row that the last entry
\* deciding about it calls for, or, without one, the row it had: whatever
\* crashed before, whatever other upsert failed, and although entries of one
\* client overwrite each other.
ServedAsDeclared ==
    phase = "serving" =>
      \A c \in Client \ failed :
         IF Deciding(c) = {} THEN table[c] = before[c]
         ELSE LET e == Entries[Max(Deciding(c))] IN
              /\ table[c] # NoRow
              /\ table[c].uris = {u \in e.uris : environment = "development" \/ u \notin Loopback}
              /\ table[c].secret = SecretOf(c)

\* Skip, never wipe: no step removes a client, and a client that can complete
\* a flow (it has a redirect URI) goes on being able to, unless the manifest
\* itself declares it without one.
UsableStaysUsable ==
    [][\A c \in Client :
          table[c] # NoRow =>
            /\ table'[c] # NoRow
            /\ table[c].uris # {} /\ table'[c].uris = {} =>
                 \E i \in DOMAIN Entries : Entries[i] = [client |-> c, uris |-> {}]]_<<vars, clientVars>>

\* Whether the service comes up is decided by what main requires and by the KEK
\* alone: once deploys and crashes are over, it serves for good if nothing
\* required is missing and SIGNING_KEK opens the rows, and otherwise never.  No
\* manifest, no CLIENT_KEYS, no failing upsert and no file that a start cut short
\* or another process has left matters; and the command has its store.
EventuallyServes ==
    <>[](/\ phase = "serving" <=> missing = "nothing" /\ Readable
         /\ \A p \in Proc \ {Server} : pc[p] = Open)

=============================================================================
