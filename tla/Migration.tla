----------------------------- MODULE Migration -----------------------------
(***************************************************************************)
(* store.Open: the schema migration that the server and every maintenance  *)
(* command run before anything else.  The statements are executed one by   *)
(* one, outside a transaction, on a database that any earlier start may    *)
(* have left half done; two processes may be at it together.               *)
(***************************************************************************)
EXTENDS Integers, Sequences

CONSTANTS
    Proc,       \* processes that open the store: the server, a command
    MaxFaults   \* bound on crashes and on statements that fail

ASSUME FaultAssumption == MaxFaults \in Nat

VARIABLES
    schema,     \* the tables, indexes and added columns in the file
    pc,         \* by process: 0 is stopped, n executes statement n
    faults

vars == <<schema, pc, faults>>

----------------------------------------------------------------------------
(* The statements; the PRAGMA before them leaves nothing in the file.      *)

Create(o) == [kind |-> "create", object |-> o, on |-> o]
Index(o, t) == [kind |-> "index", object |-> o, on |-> t]
AddColumn(o) == [kind |-> "column", object |-> o, on |-> "credentials"]

stmts ==
    << Create("principals"), Create("credentials"), Create("signing_keys"),
       Create("grants"), Index("idx_grants_active", "grants"),
       Create("enrolment_invites"), Create("oidc_clients"), Create("oidc_auth_codes"),
       Create("idp_sessions"), Index("idx_idp_sessions_principal", "idp_sessions") >>

migrate == stmts \o << AddColumn("revoked_by"), AddColumn("revoked_at") >>

Open == Len(migrate) + 1

\* External: what SQLite answers.  CREATE ... IF NOT EXISTS of what exists is
\* no error, ADD COLUMN is; REFERENCES may name a table to come.
SQLError(stmt) ==
    CASE stmt.kind # "create" /\ stmt.on \notin schema -> "no such table"
      [] stmt.kind = "column" /\ stmt.object \in schema -> "duplicate column name"
      [] OTHER -> "none"

\* Bug: addColumnIfNotExists returns every error.
FailsOnAny(err) == err # "none"

\* addColumnIfNotExists ignores the error "duplicate column name".
Fails(err) == err \notin {"none", "duplicate column name"}

\* Bug: a column that is there is taken to mean that all the rest is.
AfterAllDone(n, err) ==
    IF Fails(err) THEN 0 ELSE IF err = "duplicate column name" THEN Open ELSE n + 1

\* Open goes on with the next statement and returns after the last one; if
\* one fails Open does, which is fatal in every caller.
After(n, err) == IF Fails(err) THEN 0 ELSE n + 1

----------------------------------------------------------------------------

Start(p) ==
    /\ pc[p] = 0
    /\ pc' = [pc EXCEPT ![p] = 1]
    /\ UNCHANGED <<schema, faults>>

\* One statement, executed outside a transaction.
Exec(p) ==
    /\ pc[p] \in 1 .. Len(migrate)
    /\ LET stmt == migrate[pc[p]]
           err == SQLError(stmt) IN
       /\ schema' = IF err = "none" THEN schema \cup {stmt.object} ELSE schema
       /\ pc' = [pc EXCEPT ![p] = After(@, err)]
    /\ UNCHANGED faults

\* A crash, or a statement that fails because the other process has the
\* database locked (fatal too).
Fault(p) ==
    /\ faults < MaxFaults
    /\ pc[p] # 0
    /\ pc' = [pc EXCEPT ![p] = 0]
    /\ faults' = faults + 1
    /\ UNCHANGED schema

\* The files an earlier version or start may have left: the list has only ever
\* grown at its end, and the columns came in some version that had credentials.
Init ==
    /\ \E n \in 0 .. Len(stmts), m \in 0 .. 2 :
          /\ m > 0 => n > 1
          /\ schema = {stmts[i].object : i \in 1 .. n}
                        \cup {migrate[Len(stmts) + i].object : i \in 1 .. m}
    /\ pc = [p \in Proc |-> 0]
    /\ faults = 0

Next == \E p \in Proc : Start(p) \/ Exec(p) \/ Fault(p)

Spec == Init /\ [][Next]_vars

----------------------------------------------------------------------------
(* Properties.                                                             *)

\* Once Open has returned every table, index and column that the queries use
\* is there, whatever file it found and whatever the other process did.
OpenMeansComplete ==
    \A p \in Proc : pc[p] = Open =>
        schema = {"principals", "credentials", "signing_keys", "grants", "idx_grants_active",
                  "enrolment_invites", "oidc_clients", "oidc_auth_codes", "idp_sessions",
                  "idx_idp_sessions_principal", "revoked_by", "revoked_at"}

============================================================================
