------------------------- MODULE MCGrafanaRequests -------------------------
(* Two threads, three Grafanas that forward by different paths, every client. *)
EXTENDS GrafanaRequestsProps, TLC

CONSTANTS u, v

Basic(name, special) == [name |-> name, special |-> special, escaped |-> FALSE]
Source(url, token, oldKey, basic, org) ==
    [url |-> url, token |-> token, oldKey |-> oldKey, basic |-> basic, org |-> org]
Nothing == Source(Unset, Unset, Unset, Unset, NoOrg)

MCEnvironments == {Nothing, Source("aws", "t0", Unset, Basic("b0", FALSE), 1)}
MCTokens == {Unset, "obo"}
MCExtras == {None, "X-Extra" :> "e"}

Requests == {Nothing, Source("azure", Unset, "k1", Basic("b1", FALSE), 2),
             Source("azure", "t2", Unset, Unset, NoOrg), Source(Unset, Unset, Unset, Basic("b1", TRUE), -1)}

OwnUid(headers) == IF headers.url = Unset THEN "ds" ELSE "az"
CallsOfKind(kinds, headers) ==
    {[kind |-> k, headers |-> h, uid |-> OwnUid(h), getOnly |-> FALSE] : k \in kinds, h \in headers}
ToAzure == Source("azure", "t2", Unset, Unset, NoOrg)
Forwarded == CallsOfKind({"loki", "prometheus"}, {Nothing, ToAzure})
GetOnly(some) == {[c EXCEPT !.getOnly = TRUE] : c \in {d \in some : d.kind = "prometheus"}}

MCCallsOf == u :> (CallsOfKind(Kinds, Requests) \cup GetOnly(Forwarded)) @@ v :> Forwarded

MCServes == "aws" :> {"proxy"} @@ "azure" :> {"resources"} @@ DefaultUrl :> {"proxy", "resources"}
MCRefuses == "aws" :> {403} @@ "azure" :> {403, 500} @@ DefaultUrl :> {}
=============================================================================
