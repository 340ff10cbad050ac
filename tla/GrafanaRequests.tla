--------------------------- MODULE GrafanaRequests ---------------------------
(***************************************************************************)
(* The HTTP requests that tool calls send to Grafana: whose they are, which *)
(* headers the several clients give them, and how a datasource is reached   *)
(* through one of the two paths by which Grafana forwards to it.  Calls run *)
(* in threads and share the record of the paths that need the other one.    *)
(***************************************************************************)
EXTENDS Integers, Sequences

CONSTANTS
    Threads,   \* goroutines that serve calls
    Environments, \* what the environment may hold: [url, token, oldKey, basic, org]
    Tokens,    \* tokens for acting on behalf of a user, or Unset, per server
    Extras,    \* extra headers a server may be configured with
    CallsOf,   \* calls each thread may get: [kind, headers, uid, getOnly]
    Serves,    \* Serves[url]: the paths by which that Grafana forwards
    Refuses,   \* Refuses[url]: how it answers on a path by which it does not
    MaxFaults, \* bound: failures of a path that works
    MaxCalls,  \* bound: calls of a thread
    Unset      \* what is not there

VARIABLES
    server,    \* the configuration: [env, tokens, extra]
    fallback,  \* fallbackEndpoints: first paths known to need the other
    call, cfg, \* per thread: the call, and the GrafanaConfig of its context
    pc,
    method,    \* per thread: the method of the request in hand
    body,      \* per thread: what can still be read of the form of a POST
    kept,      \* per thread: bodyBytes, what RoundTrip has buffered of it
    sent,      \* per thread: requests of the call, in order
    answer,    \* per thread: how the call ended
    calls, faults

vars == <<server, fallback, call, cfg, pc, method, body, kept, sent, answer, calls, faults>>

DefaultUrl == "localhost"
NoOrg == 0

-----------------------------------------------------------------------------
(* From the environment and the headers of a request to its configuration *)

First(a, b) == IF a # Unset THEN a ELSE b

\* The service account token, else the deprecated key, of either source.
ApiKey(source) == First(source.token, source.oldKey)

InfoFromEnv(env) ==
    [url |-> First(env.url, DefaultUrl), key |-> ApiKey(env), basic |-> env.basic,
     org |-> env.org]

\* Mutant of InfoFromReq: basic authentication is the environment's.
InfoFromReqEnvAuth(headers, env) ==
    LET e == InfoFromEnv(env) IN
    [url   |-> First(headers.url, e.url),
     key   |-> First(ApiKey(headers), e.key),
     basic |-> e.basic,
     org   |-> IF headers.org = NoOrg THEN e.org ELSE headers.org]

\* Each setting on its own: the header if it is there, else the environment.
InfoFromReq(headers, env) ==
    LET e == InfoFromEnv(env) IN
    [url   |-> First(headers.url, e.url),
     key   |-> First(ApiKey(headers), e.key),
     basic |-> First(headers.basic, e.basic),
     org   |-> IF headers.org = NoOrg THEN e.org ELSE headers.org]

Config(headers, srv) ==
    LET info == InfoFromReq(headers, srv.env) IN
    [url |-> info.url, key |-> info.key, basic |-> info.basic, org |-> info.org,
     tokens |-> srv.tokens, extra |-> srv.extra]

-----------------------------------------------------------------------------
(* The headers of a request, as each client builds them *)

None == [name \in {} |-> Unset]
SetHeader(h, name, value) ==
    [n \in {name} \cup DOMAIN h |-> IF n = name THEN value ELSE h[n]]

\* url.Userinfo.String() escapes what is special in a URL; SetBasicAuth does not.
Escaped(basic) ==
    [name |-> basic.name, special |-> basic.special, escaped |-> basic.special]

Bearer(h, c) ==
    CASE c.key # Unset   -> SetHeader(h, "Authorization", c.key)
      [] c.key = Unset /\ c.basic # Unset -> SetHeader(h, "Authorization", c.basic)
      [] OTHER           -> h

\* authRoundTripper, applyAuth and the alerting client: the user's tokens first.
Auth(h, c) == IF c.tokens # Unset THEN SetHeader(h, "X-Access-Token", c.tokens) ELSE Bearer(h, c)

Org(h, c) == IF c.org > 0 THEN SetHeader(h, "X-Grafana-Org-Id", c.org) ELSE h

ExtraHeaders(h, c) ==
    [n \in DOMAIN c.extra \cup DOMAIN h |-> IF n \in DOMAIN c.extra THEN c.extra[n] ELSE h[n]]

\* BuildTransport is innermost, so its extra headers have the last word.
DatasourceHeaders(c) == ExtraHeaders(Auth(Org(None, c), c), c)
DsQueryHeaders(c) == Auth(Org(None, c), c)
AlertingHeaders(c) == ExtraHeaders(Org(Auth(None, c), c), c)
KubernetesHeaders(c) == ExtraHeaders(Org(Auth(None, c), c), c)
RenderingHeaders(c) == ExtraHeaders(Org(Bearer(None, c), c), c)
OnCallSettingsHeaders(c) == Org(Bearer(None, c), c)
PublicUrlHeaders(c) == ExtraHeaders(Bearer(None, c), c)
IncidentHeaders(c) ==
    ExtraHeaders(Org(IF c.key # Unset THEN SetHeader(None, "Authorization", c.key) ELSE None, c), c)
ProxiedHeaders(c) ==
    LET h == IF c.key = Unset /\ c.basic # Unset THEN SetHeader(None, "Authorization", Escaped(c.basic))
             ELSE Bearer(None, c)
    IN IF c.org # NoOrg THEN SetHeader(h, "X-Grafana-Org-Id", c.org) ELSE h

\* Clients of datasources that share one way of building a transport.
Datasources == {"loki", "prometheus", "elasticsearch", "stackdriver", "pyroscope",
                "panel", "sift", "asserts"}
DsQueries == {"clickhouse", "cloudwatch"}
Kinds == Datasources \cup DsQueries \cup
         {"alerting", "kubernetes", "rendering", "oncall", "public_url", "incident", "proxied"}

HeadersOf(kind, c) ==
    CASE kind \in Datasources -> DatasourceHeaders(c)
      [] kind \in DsQueries -> DsQueryHeaders(c)
      [] kind = "alerting" -> AlertingHeaders(c)
      [] kind = "kubernetes" -> KubernetesHeaders(c)
      [] kind = "rendering" -> RenderingHeaders(c)
      [] kind = "oncall" -> OnCallSettingsHeaders(c)
      [] kind = "public_url" -> PublicUrlHeaders(c)
      [] kind = "incident" -> IncidentHeaders(c)
      [] kind = "proxied" -> ProxiedHeaders(c)

\* Settings from either source: a number, which ParseInt read, and a login as typed.
IsSource(source) ==
    /\ source.org \in Int
    /\ source.basic # Unset =>
         /\ source.basic.special \in BOOLEAN
         /\ source.basic = [name |-> source.basic.name, special |-> source.basic.special,
                            escaped |-> FALSE]

ASSUME RequestsAssumption ==
    /\ \A env \in Environments : IsSource(env)
    /\ \A t \in Threads : \A c \in CallsOf[t] : c.kind \in Kinds /\ IsSource(c.headers)

\* Clients with a time limit of their own.
TimedKinds == {"stackdriver", "pyroscope", "panel", "alerting", "kubernetes", "rendering",
               "public_url"}

-----------------------------------------------------------------------------
(* Sending *)

\* datasourceProxyPaths: the path tried first, and the other one.
Primary(kind) == IF kind = "loki" THEN "proxy" ELSE "resources"
Other(path) == IF path = "proxy" THEN "resources" ELSE "proxy"
HasFallback(kind) == kind \in {"loki", "prometheus"}
Endpoint(t) == <<Primary(call[t].kind), call[t].uid>>

\* A body can be read once.
Whole == "whole"
Lost == "lost"

\* The query of the request in hand is in its URL, or in the form of a POST as far
\* as that can still be read.
Query(t) == IF method[t] = "POST" THEN body[t] ELSE Whole

\* A request of thread t on a path.  postToGetRoundTripper reads the form of a POST
\* and moves its parameters to the URL of a GET.
Attempt(t, path) ==
    [path |-> path, query |-> Query(t), url |-> cfg[t].url,
     headers |-> HeadersOf(call[t].kind, cfg[t]),
     method |-> IF call[t].getOnly THEN "GET" ELSE method[t]]

Path(kind) == IF kind = "elasticsearch" THEN "proxy" ELSE "own"

Init ==
    /\ server \in [env : Environments, tokens : Tokens, extra : Extras]
    /\ fallback = {}
    /\ call = [t \in Threads |-> Unset]
    /\ cfg = [t \in Threads |-> Unset]
    /\ pc = [t \in Threads |-> "idle"]
    /\ method = [t \in Threads |-> "GET"]
    /\ body = [t \in Threads |-> Lost]
    /\ kept = [t \in Threads |-> Lost]
    /\ sent = [t \in Threads |-> <<>>]
    /\ answer = [t \in Threads |-> Unset]
    /\ calls = [t \in Threads |-> 0]
    /\ faults = 0

\* ExtractGrafanaInfoFromHeaders, then the handler of the tool.  The Prometheus
\* client sends its form by POST.  The POSTs of other clients are sent once only.
Arrive(t, new) ==
    /\ pc[t] \in {"idle", "done"}
    /\ calls[t] < MaxCalls
    /\ calls' = [calls EXCEPT ![t] = @ + 1]
    /\ call' = [call EXCEPT ![t] = new]
    /\ cfg' = [cfg EXCEPT ![t] = Config(new.headers, server)]
    /\ method' = [method EXCEPT ![t] = IF new.kind = "prometheus" THEN "POST" ELSE "GET"]
    /\ body' = [body EXCEPT ![t] = Whole]
    /\ kept' = [kept EXCEPT ![t] = Lost]
    /\ sent' = [sent EXCEPT ![t] = <<>>]
    /\ answer' = [answer EXCEPT ![t] = Unset]
    /\ pc' = [pc EXCEPT ![t] = "load"]
    /\ UNCHANGED <<server, fallback, faults>>

\* Clients that look the datasource up before they are built.
LookingUp == {"loki", "prometheus", "stackdriver", "elasticsearch", "pyroscope"} \cup DsQueries

\* There is no such datasource, or it has another type: nothing is sent.
NoClient(t) ==
    /\ pc[t] = "load"
    /\ call[t].kind \in LookingUp /\ sent[t] = <<>>
    /\ answer' = [answer EXCEPT ![t] = "no client"]
    /\ pc' = [pc EXCEPT ![t] = "done"]
    /\ UNCHANGED <<server, fallback, call, cfg, method, body, kept, sent, calls, faults>>

\* RoundTrip reads the record.  A path that needs the other is not tried and the
\* body not kept; else the body is read, kept, and put back.
Load(t) ==
    /\ pc[t] = "load"
    /\ \/ /\ HasFallback(call[t].kind) /\ Endpoint(t) \notin fallback
          /\ kept' = [kept EXCEPT ![t] = body[t]]
          /\ pc' = [pc EXCEPT ![t] = "try"]
       \/ /\ ~HasFallback(call[t].kind) \/ Endpoint(t) \in fallback
          /\ pc' = [pc EXCEPT ![t] = "only"]
          /\ UNCHANGED kept
    /\ UNCHANGED <<server, fallback, call, cfg, method, body, sent, answer, calls, faults>>

\* The path of the request in hand, and the answer that is waited for.
PathOf(t) ==
    CASE pc[t] = "try"   -> Primary(call[t].kind)
      [] pc[t] = "retry" -> Other(Primary(call[t].kind))
      [] pc[t] = "only"  -> IF HasFallback(call[t].kind) THEN Other(Primary(call[t].kind))
                            ELSE Path(call[t].kind)
Awaited(t) == CASE pc[t] = "try" -> "first" [] pc[t] = "retry" -> "second" [] pc[t] = "only" -> "last"

\* The request goes out, and its body is gone.
Send(t) ==
    /\ pc[t] \in {"try", "retry", "only"}
    /\ sent' = [sent EXCEPT ![t] = Append(@, Attempt(t, PathOf(t)))]
    /\ body' = [body EXCEPT ![t] = Lost]
    /\ pc' = [pc EXCEPT ![t] = Awaited(t)]
    /\ UNCHANGED <<server, fallback, call, cfg, method, kept, answer, calls, faults>>

\* What Grafana may answer.  A path that it serves may fail: 500 stands for what
\* sends a request to the other path, 404 for every other failure.  An old
\* Prometheus refuses POST.
Last(seq) == seq[Len(seq)]
Served(request) == request.path \in Serves[request.url] \cup {"own"}
Failures == {404, 500}
Status(t) ==
    LET request == Last(sent[t]) IN
    IF Served(request)
    THEN {200} \cup (IF request.method = "POST" THEN {405} ELSE {})
               \cup (IF faults < MaxFaults THEN Failures ELSE {})
    ELSE Refuses[request.url]
Refused(status) == status \in {403, 500}

Count(t, status) ==
    faults' = IF Served(Last(sent[t])) /\ status \in Failures THEN faults + 1 ELSE faults

\* The end of a round: DoGetFallback of the Prometheus client repeats as GET, with
\* the parameters in the URL, what was not allowed as POST.
Finish(t, status) ==
    IF status = 405 /\ method[t] = "POST"
    THEN /\ method' = [method EXCEPT ![t] = "GET"]
         /\ pc' = [pc EXCEPT ![t] = "load"]
         /\ UNCHANGED answer
    ELSE /\ answer' = [answer EXCEPT ![t] = IF status = 200 THEN "ok" ELSE "error"]
         /\ pc' = [pc EXCEPT ![t] = "done"]
         /\ UNCHANGED method

\* Mutant of AnswerFirst: the clone of the request keeps the body that was sent.
AnswerFirstBodyGone(t, status) ==
    /\ pc[t] = "first"
    /\ Count(t, status)
    /\ IF Refused(status)
       THEN pc' = [pc EXCEPT ![t] = "retry"] /\ UNCHANGED <<method, answer>>
       ELSE Finish(t, status)
    /\ UNCHANGED <<server, fallback, call, cfg, body, kept, sent, calls>>

\* The answer on the first path; if it is 403 or 500, the same request is made for
\* the other one, with the body that was kept.
AnswerFirst(t, status) ==
    /\ pc[t] = "first"
    /\ Count(t, status)
    /\ IF Refused(status)
       THEN /\ body' = [body EXCEPT ![t] = kept[t]]
            /\ pc' = [pc EXCEPT ![t] = "retry"]
            /\ UNCHANGED <<method, answer>>
       ELSE Finish(t, status) /\ UNCHANGED body
    /\ UNCHANGED <<server, fallback, call, cfg, kept, sent, calls>>

\* Mutant of AnswerSecond: the path is recorded whatever the answer.
AnswerSecondAny(t, status) ==
    /\ pc[t] = "second"
    /\ Count(t, status)
    /\ fallback' = fallback \cup {Endpoint(t)}
    /\ Finish(t, status)
    /\ UNCHANGED <<server, call, cfg, body, kept, sent, calls>>

\* The answer on the other path; one that is neither 403 nor 500 is remembered.
AnswerSecond(t, status) ==
    /\ pc[t] = "second"
    /\ Count(t, status)
    /\ fallback' = IF Refused(status) THEN fallback ELSE fallback \cup {Endpoint(t)}
    /\ Finish(t, status)
    /\ UNCHANGED <<server, call, cfg, body, kept, sent, calls>>

AnswerLast(t, status) ==
    /\ pc[t] = "last"
    /\ Count(t, status)
    /\ Finish(t, status)
    /\ UNCHANGED <<server, fallback, call, cfg, body, kept, sent, calls>>

\* No answer: the connection breaks, and the other path is not tried.
Breaks(t) ==
    /\ pc[t] \in {"first", "second", "last"}
    /\ answer' = [answer EXCEPT ![t] = "broken"]
    /\ pc' = [pc EXCEPT ![t] = "done"]
    /\ UNCHANGED <<server, fallback, call, cfg, method, body, kept, sent, calls, faults>>

\* Mutant of TimesOut: the limit covers the second of two requests only.
TimesOutOnRetry(t) ==
    /\ pc[t] = "second"
    /\ call[t].kind \in TimedKinds
    /\ answer' = [answer EXCEPT ![t] = "broken"]
    /\ pc' = [pc EXCEPT ![t] = "done"]
    /\ UNCHANGED <<server, fallback, call, cfg, method, body, kept, sent, calls, faults>>

\* The time limit of the client ends the wait for an answer.
TimesOut(t) ==
    /\ pc[t] \in {"first", "second", "last"}
    /\ call[t].kind \in TimedKinds
    /\ answer' = [answer EXCEPT ![t] = "broken"]
    /\ pc' = [pc EXCEPT ![t] = "done"]
    /\ UNCHANGED <<server, fallback, call, cfg, method, body, kept, sent, calls, faults>>

Answer(t) ==
    \E status \in IF pc[t] \in {"first", "second", "last"} THEN Status(t) ELSE {} :
        AnswerFirst(t, status) \/ AnswerSecond(t, status) \/ AnswerLast(t, status)

Next ==
    \E t \in Threads :
        \/ \E new \in CallsOf[t] : Arrive(t, new)
        \/ NoClient(t) \/ Load(t) \/ Send(t) \/ Answer(t) \/ Breaks(t) \/ TimesOut(t)

Spec == Init /\ [][Next]_vars

\* Go runs what can run and a client's time limit passes; a server need not answer.
Fairness == \A t \in Threads : WF_vars(Load(t)) /\ WF_vars(Send(t)) /\ WF_vars(TimesOut(t))
FairSpec == Spec /\ Fairness
=============================================================================
