---------------------------- MODULE MCNavigation ----------------------------
(* Navigation on a small instance.                                         *)
EXTENDS Navigation

CONSTANTS u1, u2

Page(scheme, host, port, path, query) ==
    [scheme |-> scheme, host |-> host, port |-> port, path |-> path, query |-> query]

MCGoal ==
    [e \in {"development", "production"} |->
       IF e = "development"
         THEN { Page("http", "localhost", TRUE, "/admin", 1),
                Page("http", "localhost", TRUE, "/oauth2/authorize", 2),
                Page("http", "localhost", TRUE, "/app", 1) }
         ELSE { Page("https", "aithne", FALSE, "/admin", 1),
                Page("https", "aithne", FALSE, "/admin", 2),
                Page("https", "aithne", FALSE, "/oauth2/authorize", 2),
                Page("https", "app", FALSE, "/app", 1),
                Page("https", "apex", FALSE, "/app", 1) }]

\* A link of every kind: hosts inside and outside the estate, other schemes,
\* every path without a host, and a scheme without a host.
MCLink ==
    { Page("http", "apex", FALSE, "/", 0), Page("other", "app", FALSE, "/", 0),
      Page("https", "lookalike", FALSE, "/", 0), Page("", "elsewhere", FALSE, "/", 0),
      Page("http", "localhost", FALSE, "/", 0) }
    \cup {Page("", "", FALSE, path, 0) : path \in {"", "/admin", "relative", "//", "\\", "/\\"}}
    \cup {Page(scheme, "", FALSE, "/", 0) : scheme \in {"http", "https", "other"}}

\* One of the two users is an administrator.
MCInit == admin = {u1} /\ Init

MCSpec == MCInit /\ [][Next]_vars /\ Fairness

=============================================================================
