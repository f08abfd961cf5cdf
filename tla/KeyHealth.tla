----------------------------- MODULE KeyHealth -----------------------------
(***************************************************************************)
(* The signing-key checks of GET /_info, which monitoring polls, on top of *)
(* module SigningKeys.  Keys are rotated by age only when the process      *)
(* starts; the age check is the safety net for a process that runs on.     *)
(***************************************************************************)
EXTENDS SigningKeys

CONSTANT Grace      \* the margin in maxSigningKeyAge

ASSUME GraceAssumption == Grace \in Nat

VARIABLE servingSince   \* history: when the process began to serve

\* Bug: the margin is left out.
maxSigningKeyAgeBare == MaxAge

maxSigningKeyAge == MaxAge + Grace

\* time.Since(activeKey.CreatedAt)
Age(k) == now - created_at[k]

\* ListVerificationKeys gives no error: every row in it opens.
Listed == \A k \in ListVerificationKeys(now) : Decrypts(kek, k)

\* handleInfo: checks["signing_key"]["ok"].
SigningKeyOK == Listed /\ ListVerificationKeys(now) \cap Active # {}

\* handleInfo: checks["signing_key_age"], made only when the first passes.
SigningKeyAgeFails == SigningKeyOK /\ \E k \in Active : Age(k) > maxSigningKeyAge

HealthInit == Init /\ servingSince = 0

HealthNext ==
    /\ Next
    /\ servingSince' = IF ~Serving /\ Serving' THEN now ELSE servingSince

HealthSpec == HealthInit /\ [][HealthNext]_<<vars, servingSince>>

----------------------------------------------------------------------------
(* Properties.                                                             *)

\* "A key older than the rotation interval plus a grace margin means the
\* process has been running long enough without a deploy": the age check of a
\* serving process fails only after it has run for longer than the margin,
\* whatever crashes, restarts and rotations came before.
AlarmMeansNoDeploy ==
    Serving /\ SigningKeyAgeFails => now > servingSince + Grace

============================================================================
