------------------------- MODULE MCStartUp -------------------------
(* Migration and ClientReconcile on a small instance.                       *)
EXTENDS ClientReconcile

CONSTANTS c1, c2, s1, s2, site, local

Entry(c, uris) == [client |-> c, uris |-> uris]
Key(c, s) == [system |-> c, secret |-> s]

MCManifest ==
    { Unparseable,
      <<Entry(c2, {site, local}), Entry(c1, {})>>,
      <<Entry(c1, {site}), Entry(c1, {local})>> }

MCClientKeys ==
    { <<Key(c2, s2)>>, <<Key(c1, s1), Malformed, Key(c2, s1), Key(c1, s2)>> }

\* Which of the KEKs the service has first makes no difference.
MCInit == kek = (CHOOSE k \in KEK : TRUE) /\ StartUpInit

MCSpec == MCInit /\ [][StartUpNext]_<<vars, clientVars>> /\ StartUpFairness

=============================================================================
