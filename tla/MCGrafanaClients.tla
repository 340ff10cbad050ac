-------------------------- MODULE MCGrafanaClients --------------------------
(* Two threads, a token or none, one Grafana instance. *)
EXTENDS GrafanaClients

CONSTANTS t1, t2, u1, a1, o1, p1, p2

MCThreads == {t1, t2}
MCUrls == {u1}
MCApiKeys == {a1}
MCOrgs == {o1}
MCAppUrls == {p1, p2}
MCStamps == {p1, p2, Empty}

Req(a) == [url |-> u1, apiKey |-> a, login |-> None, orgID |-> o1]

\* One request with a token and one without: their lookups are two flights of
\* the cache and meet in one flight of fetchPublicURL.
MCRequests == {Req(a1), Req(None)}
=============================================================================
