------------------------ MODULE GrafanaRequestsProps ------------------------
(* What the requests of the tools owe to callers and operators. *)
EXTENDS GrafanaRequests

\* Who a call acts as: a token, of the caller before the server's own, before any
\* basic authentication, of the caller before the server's own.
Identity(headers, env) ==
    First(First(headers.token, headers.oldKey),
      First(First(env.token, env.oldKey), First(headers.basic, env.basic)))

Organisation(headers, env) == IF headers.org # NoOrg THEN headers.org ELSE env.org

Header(request, name) == IF name \in DOMAIN request.headers THEN request.headers[name] ELSE Unset

\* Clients that send no extra headers, although GrafanaConfig (mcpgrafana.go:189)
\* says of them "to send with all Grafana API requests".
WithoutExtra == DsQueries \cup {"oncall", "proxied"}

\* A request of a call names the Grafana, identity, organisation and extra headers
\* that the caller and the server ask for.  Excepted: identities that extra headers
\* replace, the incident client without a token, the proxied client with a login
\* that has characters special in a URL, the organisation of the request for the
\* public URL, and the clients WithoutExtra.  Numbers below 1, which are no
\* organisation, are sent by the proxied client only.
Identified(request, kind, headers, srv) ==
    LET c == Config(headers, srv)
        who == Identity(headers, srv.env)
        org == Organisation(headers, srv.env)
    IN /\ request.url = First(headers.url, First(srv.env.url, DefaultUrl))
       /\ \/ {"Authorization", "X-Access-Token"} \cap DOMAIN srv.extra # {}
          \/ kind = "incident" /\ c.key = Unset
          \/ kind = "proxied" /\ c.key = Unset /\ c.basic # Unset /\ c.basic.special
          \/ srv.tokens # Unset /\ Header(request, "Authorization") = Unset
                /\ Header(request, "X-Access-Token") = srv.tokens
          \/ Header(request, "Authorization") = who
       /\ kind # "public_url" /\ "X-Grafana-Org-Id" \notin DOMAIN srv.extra =>
            Header(request, "X-Grafana-Org-Id") =
                IF org > 0 \/ (kind = "proxied" /\ org < 0) THEN org ELSE Unset
       /\ kind \notin WithoutExtra => DOMAIN srv.extra \subseteq DOMAIN request.headers

\* Seventeen clients are built in a dozen places: all of them speak for their caller.
CallerIdentified ==
    \A t \in Threads : \A i \in DOMAIN sent[t] :
        Identified(sent[t][i], call[t].kind, call[t].headers, server)

\* Each request of a call carries the whole query, in its URL or in a form that is
\* read only now, over both paths, both methods and all threads that share the
\* record: a body is buffered, sent, put back for the other path, or moved to a URL.
QueriesWhole ==
    \A t \in Threads : \A i \in DOMAIN sent[t] : sent[t][i].query = Whole

\* A call that ended with a failure has asked on a path by which its Grafana
\* forwards, if there is one and if the others are refused with 403 or 500: neither
\* the record of paths nor the choice of the second try hide a path that works.
AskedServedPath(t) ==
    LET url == cfg[t].url IN
    /\ answer[t] = "error" /\ HasFallback(call[t].kind)
    /\ Serves[url] \cap {"proxy", "resources"} # {}
    /\ \A status \in Refuses[url] : Refused(status)
    => \E i \in DOMAIN sent[t] : sent[t][i].path \in Serves[url]

\* No other Grafana has a datasource with the uid of the call of t.
UidOfOneGrafana(t) ==
    \A s \in Threads : \A c \in CallsOf[s] :
        HasFallback(c.kind) /\ c.uid = call[t].uid => Config(c.headers, server).url = cfg[t].url

\* The record is shared by all calls and never expires, but what one of them learnt
\* while its Grafana failed does not keep others from the path that works, as long
\* as uids are those of one Grafana.
TriedServedPath ==
    \A t \in Threads : pc[t] = "done" /\ UidOfOneGrafana(t) => AskedServedPath(t)

\* A call through a client with a time limit ends even if no server ever answers.
TimedCallEnds ==
    \A t \in Threads :
        (pc[t] # "idle" /\ call[t] # Unset /\ call[t].kind \in TimedKinds) ~> (pc[t] = "done")
=============================================================================
