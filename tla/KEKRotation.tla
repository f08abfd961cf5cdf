---------------------------- MODULE KEKRotation ----------------------------
(***************************************************************************)
(* Changing SIGNING_KEK: an operator stops the service, runs --rekey or    *)
(* --migrate-kek, stores the new value in lucos_creds if the command exits *)
(* 0, and redeploys.  Values may be copied with the quotes of the .env     *)
(* file, the wrong one of the two commands may be run, and a command may   *)
(* be killed at any point.                                                 *)
(*                                                                         *)
(* Module SigningKeys shows that all rows are sealed under one KEK, so the *)
(* table is one KEK here; what that module calls a KEK is here derived     *)
(* from a value, by SHA-256 or by the legacy scheme (the raw bytes).       *)
(***************************************************************************)
EXTENDS Integers

CONSTANTS
    Value,      \* the random strings used as SIGNING_KEK
    NoValue,
    MaxKills    \* bound on commands killed before they exit

ASSUME ValueAssumption == NoValue \notin Value /\ MaxKills \in Nat

VARIABLES
    sealed,     \* the KEK that opens the rows of signing_keys
    creds,      \* SIGNING_KEK in lucos_creds
    container,
    command,    \* the maintenance command and how far it is
    new,        \* the value the operator has generated
    kills

rotationVars == <<sealed, creds, container, command, new, kills>>

Text == [value : Value, quoted : BOOLEAN]
KEK == [scheme : {"raw", "sha256"}, text : Text]
NoKEK == [scheme |-> "none", text |-> [value |-> NoValue, quoted |-> FALSE]]
NoCommand == [name |-> "none", pc |-> "none", old |-> NoKEK, new |-> NoKEK]

RotationTypeOK ==
    /\ sealed \in KEK
    /\ creds \in Value
    /\ container \in {"down", "serving", "failing"}
    /\ command \in [name : {"rekey", "migrate-kek", "none"},
                    pc : {"none", "rekeying", "committed", "exit 0", "exit 1"},
                    old : KEK \cup {NoKEK}, new : KEK \cup {NoKEK}]
    /\ new \in Value \cup {NoValue}
    /\ kills \in 0 .. MaxKills

----------------------------------------------------------------------------

Bare(v) == [value |-> v, quoted |-> FALSE]
Sum256(text) == [scheme |-> "sha256", text |-> text]
Raw(text) == [scheme |-> "raw", text |-> text]

Opens(kek) == sealed = kek

\* The container starts: main derives the KEK and opens every row, or ends with
\* log.Fatalf, again and again.
Boot(value) ==
    container' = IF Opens(Sum256(Bare(value))) THEN "serving" ELSE "failing"

\* Steps 1 to 3 of the runbook: generate a value, stop the service.  The
\* operator keeps a value until the service serves again.
StopService ==
    /\ container # "down"
    /\ new' \in IF container = "serving" \/ new = NoValue
                 THEN Value \ {creds, sealed.text.value} ELSE {new}
    /\ container' = "down"
    /\ command' = NoCommand
    /\ UNCHANGED <<sealed, creds, kills>>

\* Bug: the check for quotes is left out.
isQuoteWrappedNever(text) == FALSE

isQuoteWrapped(text) == text.quoted

\* The old KEK: --migrate-kek takes the first 32 bytes.  The new one: both
\* derive it as main does.
OldKEK(name, text) == IF name = "rekey" THEN Sum256(text) ELSE Raw(text)
NewKEK(name, text) == Sum256(text)

\* Step 4, runRekey and runMigrateKEK up to the call of RekeySigningKeys.  The
\* old value is the one in lucos_creds, and never the new one.
RunCommand(name, old, fresh) ==
    LET oldKEK == OldKEK(name, old)
        newKEK == NewKEK(name, fresh) IN
    /\ container = "down" /\ command.pc \in {"none", "exit 1"}
    /\ old.value = creds /\ fresh.value = new
    /\ command' = [name |-> name, old |-> oldKEK, new |-> newKEK,
                   pc |-> IF isQuoteWrapped(old) \/ isQuoteWrapped(fresh) THEN "exit 1"
                          ELSE "rekeying"]
    /\ UNCHANGED <<sealed, creds, container, new, kills>>

\* RekeySigningKeys: all rows open under the old KEK and are sealed under the
\* new one in one transaction, or nothing is written.
RekeySigningKeys ==
    /\ command.pc = "rekeying"
    /\ IF Opens(command.old)
         THEN /\ sealed' = command.new
              /\ command' = [command EXCEPT !.pc = "committed"]
         ELSE command' = [command EXCEPT !.pc = "exit 1"] /\ UNCHANGED sealed
    /\ UNCHANGED <<creds, container, new, kills>>

Exit ==
    /\ command.pc = "committed"
    /\ command' = [command EXCEPT !.pc = "exit 0"]
    /\ UNCHANGED <<sealed, creds, container, new, kills>>

\* The command is killed; docker run reports an exit code that is not 0.
Kill ==
    /\ kills < MaxKills
    /\ command.pc \in {"rekeying", "committed"}
    /\ command' = [command EXCEPT !.pc = "exit 1"]
    /\ kills' = kills + 1
    /\ UNCHANGED <<sealed, creds, container, new>>

\* Steps 5 and 6: the new value goes to lucos_creds, then the redeployment.
UpdateAndRedeploy ==
    /\ container = "down" /\ command.pc = "exit 0"
    /\ creds' = new
    /\ Boot(new)
    /\ UNCHANGED <<sealed, command, new, kills>>

\* The operator gives up after a command that failed.  (docker start is the
\* same here: the container's own environment still has the old value.)
RedeployUnchanged ==
    /\ container = "down" /\ command.pc \in {"none", "exit 1"}
    /\ Boot(creds)
    /\ UNCHANGED <<sealed, creds, command, new, kills>>

\* An installation that seals with SHA-256, or one from before that scheme.
RotationInit ==
    /\ creds \in Value
    /\ \/ sealed = Sum256(Bare(creds)) /\ container = "serving"
       \/ sealed = Raw(Bare(creds)) /\ container = "failing"
    /\ command = NoCommand /\ new = NoValue
    /\ kills = 0

RotationNext ==
    \/ StopService
    \/ \E name \in {"rekey", "migrate-kek"}, old, fresh \in Text : RunCommand(name, old, fresh)
    \/ RekeySigningKeys \/ Exit \/ Kill
    \/ UpdateAndRedeploy \/ RedeployUnchanged

RotationSpec == RotationInit /\ [][RotationNext]_rotationVars

----------------------------------------------------------------------------
(* Properties.                                                             *)

\* Whatever value is copied with its quotes, whichever command is run and
\* however often the procedure fails, the rows open under a value that the
\* operator still has: the one in lucos_creds, read by either scheme, or the new
\* one, also when a command is killed after it has committed.  And "if it exits 0
\* ... the redeployed container will derive sha256($NEW_KEK) and decrypt
\* successfully", also when the right command was run at the second attempt.
KeysStayOpenable ==
    /\ sealed \in {Raw(Bare(creds)), Sum256(Bare(creds)), Sum256(Bare(new))}
    /\ command.pc = "exit 0" => Opens(Sum256(Bare(new))) /\ container # "failing"

============================================================================
