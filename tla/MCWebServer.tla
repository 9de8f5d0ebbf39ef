---------------------------- MODULE MCWebServer ----------------------------
EXTENDS WebServer, TLC

CONSTANTS h1, p1, u1, u2, c1, c2

MCProcs == {h1, p1}
MCHandlers == {h1}
MCShells == {p1}
MCUrls == {u1, u2}
MCChains == {c1, c2}
MCServed == {c1}
MCReportedBy == u1 :> c1 @@ u2 :> c2
MCConfigured == c1 :> NoUrl @@ c2 :> u2
MCListed == c1 :> {u1} @@ c2 :> {u2}

\* Two endpoints of which one serves another chain, with and without a chain to
\* hold them to; the same unchecked; no endpoint at all.
MCInvocations ==
    {[urls |-> <<u1, u2>>, chain |-> c1, skip |-> FALSE],
     [urls |-> <<u2, u1>>, chain |-> NoChain, skip |-> FALSE],
     [urls |-> <<u1, u2>>, chain |-> c1, skip |-> TRUE],
     [urls |-> <<>>, chain |-> c1, skip |-> FALSE]}
=============================================================================
