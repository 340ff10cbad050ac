------------------------ MODULE GrafanaRequestsProofs ------------------------
(***************************************************************************)
(* Proofs about GrafanaRequests for any number of threads, environments,   *)
(* callers and Grafanas: every request speaks for its caller and carries   *)
(* the whole query, and a call that fails has tried a path that works.     *)
(***************************************************************************)
EXTENDS GrafanaRequestsProps, TLAPS

-----------------------------------------------------------------------------
(* Headers *)

Get(h, name) == IF name \in DOMAIN h THEN h[name] ELSE Unset

\* Before a client adds any, there is no header.
LEMMA GetNone == ASSUME NEW name PROVE Get(None, name) = Unset
BY DEF Get, None

\* Extra headers have the last word and lose no other header.
LEMMA GetExtra ==
    ASSUME NEW h, NEW c, NEW name
    PROVE  /\ Get(ExtraHeaders(h, c), name)
                = IF name \in DOMAIN c.extra THEN c.extra[name] ELSE Get(h, name)
           /\ DOMAIN c.extra \subseteq DOMAIN ExtraHeaders(h, c)
BY DEF Get, ExtraHeaders

\* Whom Bearer speaks for.
Login(c) == IF c.key # Unset THEN c.key ELSE c.basic

\* Bearer sets the one header if there is a token or a login.
LEMMA GetBearer ==
    ASSUME NEW h, NEW c, NEW name
    PROVE  Get(Bearer(h, c), name)
                = IF name = "Authorization" /\ Login(c) # Unset THEN Login(c) ELSE Get(h, name)
<1>1. CASE c.key # Unset
  BY <1>1 DEF Bearer, Login, Get, SetHeader
<1>2. CASE c.key = Unset /\ c.basic # Unset
  BY <1>2 DEF Bearer, Login, Get, SetHeader
<1>3. CASE c.key = Unset /\ c.basic = Unset
  BY <1>3 DEF Bearer, Login
<1> QED BY <1>1, <1>2, <1>3

\* The tokens of a user come before any other identity.
LEMMA GetAuth ==
    ASSUME NEW h, NEW c, NEW name
    PROVE  Get(Auth(h, c), name)
                = IF c.tokens # Unset
                  THEN IF name = "X-Access-Token" THEN c.tokens ELSE Get(h, name)
                  ELSE Get(Bearer(h, c), name)
BY DEF Auth, Get, SetHeader

\* Numbers below 1 are not sent.
LEMMA GetOrg ==
    ASSUME NEW h, NEW c, NEW name
    PROVE  Get(Org(h, c), name)
                = IF name = "X-Grafana-Org-Id" /\ c.org > 0 THEN c.org ELSE Get(h, name)
BY DEF Org, Get, SetHeader

\* A login is the same in both encodings unless it has special characters.
LEMMA EscapedPlain ==
    ASSUME NEW basic, basic.special = FALSE,
           basic = [name |-> basic.name, special |-> basic.special, escaped |-> FALSE]
    PROVE  Escaped(basic) = basic
BY DEF Escaped

-----------------------------------------------------------------------------
(* Every client speaks for its caller *)

Typed(basic) ==
    basic # Unset =>
        /\ basic.special \in BOOLEAN
        /\ basic = [name |-> basic.name, special |-> basic.special, escaped |-> FALSE]

\* A configuration holds the identity, the organisation and the Grafana that the
\* caller and the environment ask for.
LEMMA ConfigOf ==
    ASSUME NEW headers, NEW srv, IsSource(headers), IsSource(srv.env)
    PROVE  LET c == Config(headers, srv) IN
           /\ c.url = First(headers.url, First(srv.env.url, DefaultUrl))
           /\ Login(c) = Identity(headers, srv.env)
           /\ c.org = Organisation(headers, srv.env) /\ c.org \in Int
           /\ Typed(c.basic)
           /\ c.tokens = srv.tokens /\ c.extra = srv.extra
<1> DEFINE c == Config(headers, srv)
<1>1. c = [url |-> First(headers.url, First(srv.env.url, DefaultUrl)),
           key |-> First(ApiKey(headers), ApiKey(srv.env)),
           basic |-> First(headers.basic, srv.env.basic),
           org |-> IF headers.org = NoOrg THEN srv.env.org ELSE headers.org,
           tokens |-> srv.tokens, extra |-> srv.extra]
  BY DEF Config, InfoFromReq, InfoFromEnv
<1>2. Login(c) = Identity(headers, srv.env)
  BY <1>1 DEF Login, Identity, ApiKey, First
<1>3. c.org = Organisation(headers, srv.env) /\ c.org \in Int
  BY <1>1 DEF Organisation, IsSource, NoOrg
<1>4. Typed(c.basic)
  <2>1. Typed(headers.basic) /\ Typed(srv.env.basic)
    BY DEF Typed, IsSource
  <2>2. c.basic = headers.basic \/ c.basic = srv.env.basic
    BY <1>1 DEF First
  <2> QED BY <2>1, <2>2
<1> QED BY <1>1, <1>2, <1>3, <1>4

\* What Identified says of the headers alone, those that are extra among them.
Told(h, kind, c, extra) ==
    /\ \/ {"Authorization", "X-Access-Token"} \cap DOMAIN extra # {}
       \/ kind = "incident" /\ c.key = Unset
       \/ kind = "proxied" /\ c.key = Unset /\ c.basic # Unset /\ c.basic.special
       \/ c.tokens # Unset /\ Get(h, "Authorization") = Unset
             /\ Get(h, "X-Access-Token") = c.tokens
       \/ Get(h, "Authorization") = Login(c)
    /\ kind # "public_url" /\ "X-Grafana-Org-Id" \notin DOMAIN extra =>
         Get(h, "X-Grafana-Org-Id") =
             IF c.org > 0 \/ (kind = "proxied" /\ c.org < 0) THEN c.org ELSE Unset
    /\ kind \notin WithoutExtra => DOMAIN extra \subseteq DOMAIN h

\* Extra headers go around what a client sets for itself, which needs to be right
\* without them.
LEMMA ExtraTold ==
    ASSUME NEW h, NEW kind, NEW c, Told(h, kind, c, None)
    PROVE  Told(ExtraHeaders(h, c), kind, c, c.extra)
BY GetExtra DEF Told, None

\* Clients that set an identity and an organisation, in either order.
LEMMA AuthTold ==
    ASSUME NEW kind \in Kinds \ {"proxied"}, NEW c
    PROVE  /\ Told(Auth(Org(None, c), c), kind, c, None)
           /\ Told(Org(Auth(None, c), c), kind, c, None)
           /\ Told(Org(Bearer(None, c), c), kind, c, None)
<1>1. Get(None, "Authorization") = Unset /\ Get(None, "X-Access-Token") = Unset
      /\ Get(None, "X-Grafana-Org-Id") = Unset /\ DOMAIN None = {}
  BY DEF Get, None
<1>2. Told(Auth(Org(None, c), c), kind, c, None)
  BY <1>1, GetAuth, GetBearer, GetOrg DEF Told
<1>3. Told(Org(Auth(None, c), c), kind, c, None)
  BY <1>1, GetAuth, GetBearer, GetOrg DEF Told
<1>4. Told(Org(Bearer(None, c), c), kind, c, None)
  BY <1>1, GetBearer, GetOrg DEF Told
<1> QED BY <1>2, <1>3, <1>4

\* The clients that differ from the others.
LEMMA OddTold ==
    ASSUME NEW c, c.org \in Int, Typed(c.basic)
    PROVE  /\ Told(IncidentHeaders(c), "incident", c, c.extra)
           /\ Told(PublicUrlHeaders(c), "public_url", c, c.extra)
           /\ Told(ProxiedHeaders(c), "proxied", c, c.extra)
<1>1. Get(None, "Authorization") = Unset /\ Get(None, "X-Access-Token") = Unset
      /\ Get(None, "X-Grafana-Org-Id") = Unset /\ DOMAIN None = {}
  BY DEF Get, None
<1>2. Told(IncidentHeaders(c), "incident", c, c.extra)
  <2> DEFINE h == IF c.key # Unset THEN SetHeader(None, "Authorization", c.key) ELSE None
  <2>1. /\ c.key # Unset => Get(h, "Authorization") = c.key
        /\ Get(h, "X-Grafana-Org-Id") = Unset
    BY <1>1 DEF Get, SetHeader
  <2>2. Told(Org(h, c), "incident", c, None)
    <3> HIDE DEF h
    <3> QED BY <1>1, <2>1, GetOrg DEF Told, Login
  <2> QED BY <2>2, ExtraTold DEF IncidentHeaders
<1>3. Told(PublicUrlHeaders(c), "public_url", c, c.extra)
  <2>1. Told(Bearer(None, c), "public_url", c, None)
    BY <1>1, GetBearer DEF Told
  <2> QED BY <2>1, ExtraTold DEF PublicUrlHeaders
<1>4. Told(ProxiedHeaders(c), "proxied", c, c.extra)
  <2> DEFINE h == IF c.key = Unset /\ c.basic # Unset
                  THEN SetHeader(None, "Authorization", Escaped(c.basic))
                  ELSE Bearer(None, c)
             Quoted == c.key = Unset /\ c.basic # Unset /\ c.basic.special
  <2>1. /\ Quoted \/ Get(h, "Authorization") = Login(c)
        /\ Get(h, "X-Grafana-Org-Id") = Unset
    <3>1. CASE c.key = Unset /\ c.basic # Unset
      <4>1. ~Quoted => Escaped(c.basic) = c.basic
        BY <3>1, EscapedPlain DEF Typed
      <4> QED BY <1>1, <3>1, <4>1 DEF Get, SetHeader, Login
    <3>2. CASE ~(c.key = Unset /\ c.basic # Unset)
      BY <1>1, <3>2, GetBearer
    <3> QED BY <3>1, <3>2
  <2>2. /\ Quoted \/ Get(ProxiedHeaders(c), "Authorization") = Login(c)
        /\ Get(ProxiedHeaders(c), "X-Grafana-Org-Id") = IF c.org # 0 THEN c.org ELSE Unset
    <3>1. ProxiedHeaders(c) = IF c.org # 0 THEN SetHeader(h, "X-Grafana-Org-Id", c.org) ELSE h
      BY DEF ProxiedHeaders, NoOrg
    <3> HIDE DEF h
    <3> QED BY <2>1, <3>1 DEF Get, SetHeader
  <2> QED BY <2>2 DEF Told, WithoutExtra
<1> QED BY <1>2, <1>3, <1>4

\* Each of the seventeen clients tells Grafana whom it speaks for.
LEMMA AllTold ==
    ASSUME NEW kind \in Kinds, NEW c, c.org \in Int, Typed(c.basic)
    PROVE  Told(HeadersOf(kind, c), kind, c, c.extra)
<1>1. CASE kind \in Datasources
  <2>1. HeadersOf(kind, c) = ExtraHeaders(Auth(Org(None, c), c), c)
    BY <1>1 DEF HeadersOf, DatasourceHeaders, Datasources, DsQueries
  <2> QED BY <1>1, <2>1, AuthTold, ExtraTold DEF Datasources
<1>2. CASE kind \in DsQueries
  <2>1. HeadersOf(kind, c) = Auth(Org(None, c), c)
    BY <1>2 DEF HeadersOf, DsQueryHeaders, DsQueries, Datasources
  <2>2. Told(HeadersOf(kind, c), kind, c, None)
    BY <1>2, <2>1, AuthTold DEF DsQueries
  <2> QED BY <1>2, <2>2 DEF Told, None, WithoutExtra
<1>3. CASE kind \in {"alerting", "kubernetes"}
  <2>1. HeadersOf(kind, c) = ExtraHeaders(Org(Auth(None, c), c), c)
    BY <1>3 DEF HeadersOf, AlertingHeaders, KubernetesHeaders, Datasources, DsQueries
  <2> QED BY <1>3, <2>1, AuthTold, ExtraTold
<1>4. CASE kind = "rendering"
  <2>1. HeadersOf(kind, c) = ExtraHeaders(Org(Bearer(None, c), c), c)
    BY <1>4 DEF HeadersOf, RenderingHeaders, Datasources, DsQueries
  <2> QED BY <1>4, <2>1, AuthTold, ExtraTold
<1>5. CASE kind = "oncall"
  <2>1. HeadersOf(kind, c) = Org(Bearer(None, c), c)
    BY <1>5 DEF HeadersOf, OnCallSettingsHeaders, Datasources, DsQueries
  <2>2. Told(HeadersOf(kind, c), kind, c, None)
    BY <1>5, <2>1, AuthTold
  <2> QED BY <1>5, <2>2 DEF Told, None, WithoutExtra
<1>6. CASE kind \in {"public_url", "incident", "proxied"}
  <2>1. HeadersOf(kind, c) = CASE kind = "public_url" -> PublicUrlHeaders(c)
                               [] kind = "incident" -> IncidentHeaders(c)
                               [] kind = "proxied" -> ProxiedHeaders(c)
    BY <1>6 DEF HeadersOf, Datasources, DsQueries
  <2> QED BY <1>6, <2>1, OddTold
<1> QED BY <1>1, <1>2, <1>3, <1>4, <1>5, <1>6 DEF Kinds

\* Whatever the client, its request names the Grafana, the identity and the
\* organisation that the caller and the server ask for.
THEOREM RequestIdentified ==
    ASSUME NEW request, NEW kind \in Kinds, NEW headers, NEW srv,
           IsSource(headers), IsSource(srv.env),
           request.url = Config(headers, srv).url,
           request.headers = HeadersOf(kind, Config(headers, srv))
    PROVE  Identified(request, kind, headers, srv)
<1> DEFINE c == Config(headers, srv)
<1>1. /\ c.url = First(headers.url, First(srv.env.url, DefaultUrl))
      /\ Login(c) = Identity(headers, srv.env)
      /\ c.org = Organisation(headers, srv.env) /\ c.org \in Int
      /\ Typed(c.basic)
      /\ c.tokens = srv.tokens /\ c.extra = srv.extra
  BY ConfigOf
<1>2. Told(request.headers, kind, c, c.extra)
  <2> HIDE DEF c
  <2>1. Told(HeadersOf(kind, c), kind, c, c.extra)
    BY <1>1, AllTold
  <2> QED BY <2>1 DEF c
<1>3. \A name : Header(request, name) = Get(request.headers, name)
  BY DEF Header, Get
<1> HIDE DEF c
<1>4. request.url = c.url
  BY DEF c
<1> QED
  BY <1>1, <1>2, <1>3, <1>4 DEF Identified, Told, c

-----------------------------------------------------------------------------
(* What holds of the threads *)

RequestsOf(t) ==
    [path : {"proxy", "resources", "own"}, query : {Whole}, url : {cfg[t].url},
     headers : {HeadersOf(call[t].kind, cfg[t])}, method : {"GET", "POST"}]

\* A thread holds a call and the configuration of that call, and has sent requests
\* of that call only.
OwnRequests(t) ==
    /\ pc[t] = "idle" => sent[t] = <<>>
    /\ pc[t] # "idle" => /\ call[t] \in CallsOf[t]
                         /\ cfg[t] = Config(call[t].headers, server)
                         /\ sent[t] \in Seq(RequestsOf(t))

\* What is to be sent can be read, and what may be sent again is kept.
BodyThere(t) ==
    /\ pc[t] \in {"load", "try", "retry", "only"} => Query(t) = Whole
    /\ pc[t] \in {"try", "first"} /\ method[t] = "POST" => kept[t] = Whole

Asked(t, path) == \E i \in DOMAIN sent[t] : sent[t][i].path = path
AskedLast(t, path) == sent[t] # <<>> /\ Last(sent[t]).path = path

\* Which paths a thread has tried, and why it tries one only.
PathsTried(t) ==
    LET first == Primary(call[t].kind) IN
    /\ pc[t] \in {"try", "first", "retry", "second"} => HasFallback(call[t].kind)
    /\ pc[t] = "first" => AskedLast(t, first)
    /\ pc[t] \in {"retry", "second"} => Asked(t, first)
    /\ pc[t] = "second" => AskedLast(t, Other(first))
    /\ pc[t] \in {"only", "last"} /\ HasFallback(call[t].kind) => Endpoint(t) \in fallback
    /\ pc[t] = "last" /\ HasFallback(call[t].kind) => AskedLast(t, Other(first))
    /\ pc[t] = "done" => (UidOfOneGrafana(t) => AskedServedPath(t))

OfThread(t) == OwnRequests(t) /\ BodyThere(t) /\ PathsTried(t)

\* A path was recorded by a call whose Grafana serves the other one, unless that
\* Grafana refuses paths in other ways than with 403 and 500.
RecordOf(end, c) ==
    LET url == Config(c.headers, server).url IN
    /\ HasFallback(c.kind) /\ end = <<Primary(c.kind), c.uid>>
    /\ (\A status \in Refuses[url] : Refused(status)) => Other(Primary(c.kind)) \in Serves[url]

RecordsServed == \A end \in fallback : \E s \in Threads : \E c \in CallsOf[s] : RecordOf(end, c)

Ranges ==
    /\ server \in [env : Environments, tokens : Tokens, extra : Extras]
    /\ DOMAIN call = Threads /\ DOMAIN cfg = Threads /\ DOMAIN sent = Threads
    /\ DOMAIN body = Threads /\ DOMAIN kept = Threads /\ DOMAIN answer = Threads
    /\ pc \in [Threads -> {"idle", "load", "try", "first", "retry", "second", "only", "last",
                           "done"}]
    /\ method \in [Threads -> {"GET", "POST"}]

\* The inductive invariant.
IInv == Ranges /\ RecordsServed /\ \A t \in Threads : OfThread(t)

LEMMA InitIInv == Init => IInv
BY DEF Init, IInv, Ranges, RecordsServed, OfThread, OwnRequests, BodyThere, PathsTried

\* What a thread may change: its own requests, and the record by an addition.
StepOf(t) ==
    /\ server' = server /\ fallback \subseteq fallback'
    /\ \A s \in Threads \ {t} :
          /\ call'[s] = call[s] /\ cfg'[s] = cfg[s] /\ pc'[s] = pc[s] /\ method'[s] = method[s]
          /\ body'[s] = body[s] /\ kept'[s] = kept[s] /\ sent'[s] = sent[s]
          /\ answer'[s] = answer[s]

\* A step of one thread leaves the others as they are.
LEMMA OthersKept ==
    ASSUME NEW t \in Threads, NEW s \in Threads \ {t}, StepOf(t), OfThread(s)
    PROVE  OfThread(s)'
<1>1. /\ server' = server /\ fallback \subseteq fallback'
      /\ call'[s] = call[s] /\ cfg'[s] = cfg[s] /\ pc'[s] = pc[s] /\ method'[s] = method[s]
      /\ body'[s] = body[s] /\ kept'[s] = kept[s] /\ sent'[s] = sent[s]
      /\ answer'[s] = answer[s]
  BY DEF StepOf
<1>2. OwnRequests(s)'
  BY <1>1 DEF OfThread, OwnRequests, RequestsOf
<1>3. BodyThere(s)'
  BY <1>1 DEF OfThread, BodyThere, Query
<1>4. /\ UidOfOneGrafana(s)' <=> UidOfOneGrafana(s)
      /\ AskedServedPath(s)' <=> AskedServedPath(s)
  BY <1>1 DEF UidOfOneGrafana, AskedServedPath
<1>5. PathsTried(s)'
  BY <1>1, <1>4 DEF OfThread, PathsTried, Asked, AskedLast, Endpoint
<1> QED BY <1>2, <1>3, <1>5 DEF OfThread

\* Records stay what they were when the record does not change.
LEMMA RecordsStay ==
    ASSUME RecordsServed, server' = server, fallback' = fallback PROVE RecordsServed'
BY DEF RecordsServed, RecordOf

\* So a step is right if it is right for its own thread.
LEMMA StepKeeps ==
    ASSUME IInv, NEW t \in Threads, Ranges', RecordsServed', StepOf(t), OfThread(t)'
    PROVE  IInv'
<1> SUFFICES ASSUME NEW s \in Threads PROVE OfThread(s)'
  BY DEF IInv
<1>1. CASE s = t BY <1>1
<1>2. CASE s # t BY <1>2, OthersKept DEF IInv
<1> QED BY <1>1, <1>2

\* What a thread sends is a request of its call, on the path it was meant for.
LEMMA AttemptOwn ==
    ASSUME NEW t \in Threads, method[t] \in {"GET", "POST"}, Query(t) = Whole,
           NEW path \in {"proxy", "resources", "own"}
    PROVE  Attempt(t, path) \in RequestsOf(t) /\ Attempt(t, path).path = path
BY DEF Attempt, RequestsOf

\* The path of the next request is one of three.
LEMMA PathKnown ==
    ASSUME NEW t \in Threads, pc[t] \in {"try", "retry", "only"}
    PROVE  PathOf(t) \in {"proxy", "resources", "own"}
BY DEF PathOf, Primary, Other, Path

\* One more request at the end of those that were sent.
LEMMA Appended ==
    ASSUME NEW S, NEW seq \in Seq(S), NEW x \in S
    PROVE  LET longer == Append(seq, x) IN
           /\ longer \in Seq(S) /\ longer # <<>> /\ Last(longer) = x
           /\ \A i \in DOMAIN seq : i \in DOMAIN longer /\ longer[i] = seq[i]
BY DEF Last

-----------------------------------------------------------------------------
(* The end of a round *)

\* The last request is one of those that were sent.
LEMMA LastAsked ==
    ASSUME NEW t \in Threads, NEW path, NEW S, sent[t] \in Seq(S), AskedLast(t, path)
    PROVE  /\ Last(sent[t]) \in S /\ Last(sent[t]).path = path
           /\ Asked(t, path)
<1>1. Len(sent[t]) \in DOMAIN sent[t] /\ sent[t][Len(sent[t])] \in S
  BY DEF AskedLast
<1> QED BY <1>1 DEF AskedLast, Asked, Last

\* An answer that is final comes from a Grafana that was asked on a path it serves,
\* if it has one and the uid is its own.
LEMMA ServedWasAsked ==
    ASSUME IInv, NEW t \in Threads, pc[t] \in {"first", "second", "last"},
           NEW status \in Status(t), pc[t] = "first" => ~Refused(status),
           HasFallback(call[t].kind), UidOfOneGrafana(t),
           Serves[cfg[t].url] \cap {"proxy", "resources"} # {},
           \A s \in Refuses[cfg[t].url] : Refused(s)
    PROVE  \E i \in DOMAIN sent[t] : sent[t][i].path \in Serves[cfg[t].url]
<1> DEFINE url == cfg[t].url
           first == Primary(call[t].kind)
<1>1. /\ call[t] \in CallsOf[t] /\ url = Config(call[t].headers, server).url
      /\ sent[t] \in Seq(RequestsOf(t))
  BY DEF IInv, OfThread, OwnRequests
<1>2. first \in {"proxy", "resources"} /\ Other(first) \in {"proxy", "resources"} \ {first}
  BY DEF Primary, Other
<1> SUFFICES \E path \in Serves[url] : Asked(t, path)
  BY DEF Asked
<1>3. CASE pc[t] = "first"
  <2>1. AskedLast(t, first)
    BY <1>3 DEF IInv, OfThread, PathsTried
  <2>2. /\ Last(sent[t]) \in RequestsOf(t) /\ Last(sent[t]).path = first
        /\ Asked(t, first)
    BY <1>1, <2>1, LastAsked
  <2>3. Last(sent[t]).url = url
    BY <2>2 DEF RequestsOf
  <2>4. Served(Last(sent[t]))
    BY <1>3, <2>3 DEF Status
  <2>5. first \in Serves[url]
    BY <1>2, <2>2, <2>3, <2>4 DEF Served
  <2> QED BY <2>2, <2>5
<1>4. CASE pc[t] = "second"
  <2>1. Asked(t, first) /\ AskedLast(t, Other(first))
    BY <1>4 DEF IInv, OfThread, PathsTried
  <2>2. Asked(t, Other(first))
    BY <1>1, <2>1, LastAsked
  <2> QED BY <1>2, <2>1, <2>2
<1>5. CASE pc[t] = "last"
  <2>1. Endpoint(t) \in fallback /\ AskedLast(t, Other(first))
    BY <1>5 DEF IInv, OfThread, PathsTried
  <2>2. Asked(t, Other(first))
    BY <1>1, <2>1, LastAsked
  <2>0. PICK s \in Threads : \E c \in CallsOf[s] : RecordOf(Endpoint(t), c)
    BY <2>1 DEF IInv, RecordsServed
  <2>3. PICK c \in CallsOf[s] : RecordOf(Endpoint(t), c)
    BY <2>0
  <2>4. HasFallback(c.kind) /\ c.uid = call[t].uid /\ Primary(c.kind) = first
    BY <2>3 DEF RecordOf, Endpoint
  <2>5. Config(c.headers, server).url = url
    BY <2>4 DEF UidOfOneGrafana
  <2>6. Other(first) \in Serves[url]
    BY <2>3, <2>4, <2>5 DEF RecordOf
  <2> QED BY <2>2, <2>6
<1> QED BY <1>3, <1>4, <1>5

\* A call that ends, with an answer or without, has tried what works.
LEMMA EndKeeps ==
    ASSUME IInv, NEW t \in Threads, pc[t] # "idle",
           UNCHANGED <<server, call, cfg, method, body, kept, sent>>, fallback \subseteq fallback',
           NEW value, answer' = [answer EXCEPT ![t] = value],
           pc' = [pc EXCEPT ![t] = "done"], RecordsServed',
           value = "error" /\ UidOfOneGrafana(t) => AskedServedPath(t)'
    PROVE  IInv'
<1>1. Ranges'
  BY DEF IInv, Ranges
<1>2. StepOf(t)
  BY DEF IInv, Ranges, StepOf
<1>3. pc'[t] = "done" /\ answer'[t] = value
  BY DEF IInv, Ranges
<1>4. OwnRequests(t)'
  BY <1>3 DEF IInv, OfThread, OwnRequests, RequestsOf
<1>5. BodyThere(t)'
  BY <1>3 DEF BodyThere
<1>6. UidOfOneGrafana(t)' <=> UidOfOneGrafana(t)
  BY DEF UidOfOneGrafana
<1>7. PathsTried(t)'
  BY <1>3, <1>6 DEF PathsTried, AskedServedPath
<1> QED BY <1>1, <1>2, <1>4, <1>5, <1>7, StepKeeps DEF OfThread

\* The end of a round keeps the invariant, whatever the answer.
LEMMA FinishKeeps ==
    ASSUME IInv, NEW t \in Threads, pc[t] \in {"first", "second", "last"},
           NEW status \in Status(t), pc[t] = "first" => ~Refused(status),
           UNCHANGED <<server, call, cfg, body, kept, sent>>, fallback \subseteq fallback',
           RecordsServed', Finish(t, status)
    PROVE  IInv'
<1>1. CASE status = 405 /\ method[t] = "POST"
  <2>1. /\ method' = [method EXCEPT ![t] = "GET"] /\ pc' = [pc EXCEPT ![t] = "load"]
        /\ answer' = answer
    BY <1>1 DEF Finish
  <2>2. Ranges'
    BY <2>1 DEF IInv, Ranges
  <2>3. StepOf(t)
    BY <2>1 DEF IInv, Ranges, StepOf
  <2>4. pc'[t] = "load" /\ method'[t] = "GET" /\ pc[t] # "idle"
    BY <2>1 DEF IInv, Ranges
  <2>5. OwnRequests(t)'
    BY <2>4 DEF IInv, OfThread, OwnRequests, RequestsOf
  <2>6. BodyThere(t)' /\ PathsTried(t)'
    BY <2>4 DEF BodyThere, Query, PathsTried
  <2> QED BY <2>2, <2>3, <2>5, <2>6, StepKeeps DEF OfThread
<1>2. CASE ~(status = 405 /\ method[t] = "POST")
  <2>1. PICK value : /\ answer' = [answer EXCEPT ![t] = value]
                     /\ pc' = [pc EXCEPT ![t] = "done"] /\ method' = method
    BY <1>2 DEF Finish
  <2>2. ASSUME UidOfOneGrafana(t) PROVE AskedServedPath(t)'
    BY <2>2, ServedWasAsked DEF AskedServedPath
  <2> QED BY <2>1, <2>2, EndKeeps
<1> QED BY <1>1, <1>2

-----------------------------------------------------------------------------
(* The other steps *)

LEMMA ArriveKeeps ==
    ASSUME IInv, NEW t \in Threads, NEW new \in CallsOf[t], Arrive(t, new)
    PROVE  IInv'
<1>1. Ranges' /\ StepOf(t)
  BY DEF IInv, Ranges, Arrive, StepOf
<1>2. /\ call'[t] = new /\ cfg'[t] = Config(new.headers, server) /\ server' = server
      /\ sent'[t] = <<>> /\ pc'[t] = "load" /\ body'[t] = Whole
  BY DEF IInv, Ranges, Arrive
<1>3. RecordsServed'
  BY RecordsStay DEF IInv, Arrive
<1>4. OwnRequests(t)' /\ BodyThere(t)' /\ PathsTried(t)'
  BY <1>2 DEF OwnRequests, BodyThere, Query, PathsTried
<1> QED BY <1>1, <1>3, <1>4, StepKeeps DEF OfThread

LEMMA LoadKeeps ==
    ASSUME IInv, NEW t \in Threads, Load(t)
    PROVE  IInv'
<1>1. Ranges' /\ StepOf(t)
  BY DEF IInv, Ranges, Load, StepOf
<1>2. RecordsServed'
  BY RecordsStay DEF IInv, Load
<1>3. /\ UNCHANGED <<server, fallback, call, cfg, method, body, sent>> /\ pc[t] = "load"
      /\ Query(t) = Whole
  BY DEF IInv, OfThread, BodyThere, Load
<1>4. \/ pc'[t] = "try" /\ HasFallback(call[t].kind) /\ kept'[t] = body[t]
      \/ pc'[t] = "only" /\ (HasFallback(call[t].kind) => Endpoint(t) \in fallback)
  BY DEF IInv, Ranges, Load
<1>5. OwnRequests(t)'
  BY <1>3, <1>4 DEF IInv, OfThread, OwnRequests, RequestsOf
<1>6. BodyThere(t)'
  BY <1>3, <1>4 DEF BodyThere, Query
<1>7. PathsTried(t)'
  BY <1>3, <1>4 DEF PathsTried, Endpoint
<1> QED BY <1>1, <1>2, <1>5, <1>6, <1>7, StepKeeps DEF OfThread

LEMMA SendKeeps ==
    ASSUME IInv, NEW t \in Threads, Send(t)
    PROVE  IInv'
<1> DEFINE request == Attempt(t, PathOf(t))
<1>1. Ranges' /\ StepOf(t)
  BY DEF IInv, Ranges, Send, StepOf, Awaited
<1>2. RecordsServed'
  BY RecordsStay DEF IInv, Send
<1>3. /\ UNCHANGED <<server, fallback, call, cfg, method, kept>>
      /\ pc[t] \in {"try", "retry", "only"} /\ pc'[t] = Awaited(t)
      /\ Query(t) = Whole /\ sent'[t] = Append(sent[t], request)
      /\ sent[t] \in Seq(RequestsOf(t))
  BY DEF IInv, Ranges, OfThread, OwnRequests, BodyThere, Send
<1>4. request \in RequestsOf(t) /\ request.path = PathOf(t)
  BY <1>3, PathKnown, AttemptOwn DEF IInv, Ranges
<1> HIDE DEF request
<1>5. /\ sent'[t] \in Seq(RequestsOf(t)) /\ sent'[t] # <<>> /\ Last(sent'[t]) = request
      /\ \A i \in DOMAIN sent[t] : i \in DOMAIN sent'[t] /\ sent'[t][i] = sent[t][i]
  BY <1>3, <1>4, Appended
<1>6. OwnRequests(t)'
  <2>1. RequestsOf(t)' = RequestsOf(t)
    BY <1>3 DEF RequestsOf
  <2> QED BY <1>3, <1>5, <2>1 DEF IInv, OfThread, OwnRequests, Awaited
<1>7. BodyThere(t)'
  BY <1>3 DEF IInv, OfThread, BodyThere, Awaited
<1>8. PathsTried(t)'
  <2>1. \A path : Asked(t, path) => Asked(t, path)'
    BY <1>5 DEF Asked
  <2>2. CASE pc[t] = "try"
    BY <1>3, <1>4, <1>5, <2>2 DEF IInv, OfThread, PathsTried, PathOf, Awaited, AskedLast
  <2>3. CASE pc[t] = "retry"
    BY <1>3, <1>4, <1>5, <2>1, <2>3 DEF IInv, OfThread, PathsTried, PathOf, Awaited, AskedLast
  <2>4. CASE pc[t] = "only"
    BY <1>3, <1>4, <1>5, <2>4
    DEF IInv, OfThread, PathsTried, PathOf, Awaited, AskedLast, Endpoint
  <2> QED BY <1>3, <2>2, <2>3, <2>4
<1> QED BY <1>1, <1>2, <1>6, <1>7, <1>8, StepKeeps DEF OfThread

\* A refused request goes to the other path, with the body that was kept.
LEMMA RetryKeeps ==
    ASSUME IInv, NEW t \in Threads, NEW status, AnswerFirst(t, status), Refused(status)
    PROVE  IInv'
<1>1. Ranges' /\ StepOf(t)
  BY DEF IInv, Ranges, AnswerFirst, StepOf
<1>2. RecordsServed'
  BY RecordsStay DEF IInv, AnswerFirst
<1>3. /\ UNCHANGED <<server, fallback, call, cfg, method, sent>> /\ pc[t] = "first"
      /\ body'[t] = kept[t] /\ pc'[t] = "retry"
  BY DEF IInv, Ranges, AnswerFirst
<1>4. OwnRequests(t)'
  BY <1>3 DEF IInv, OfThread, OwnRequests, RequestsOf
<1>5. BodyThere(t)'
  BY <1>3 DEF IInv, OfThread, BodyThere, Query
<1>6. PathsTried(t)'
  <2>1. HasFallback(call[t].kind) /\ AskedLast(t, Primary(call[t].kind))
    BY <1>3 DEF IInv, OfThread, PathsTried
  <2>2. Asked(t, Primary(call[t].kind))
    BY <1>3, <2>1, LastAsked DEF IInv, OfThread, OwnRequests
  <2> QED BY <1>3, <2>1, <2>2 DEF PathsTried, Asked
<1> QED BY <1>1, <1>2, <1>4, <1>5, <1>6, StepKeeps DEF OfThread

\* What is recorded after the second answer is served, if refusals are recognised.
LEMMA RecordKeeps ==
    ASSUME IInv, NEW t \in Threads, NEW status \in Status(t), AnswerSecond(t, status)
    PROVE  RecordsServed'
<1>1. CASE Refused(status)
  BY <1>1, RecordsStay DEF IInv, AnswerSecond
<1>2. CASE ~Refused(status)
  <2> DEFINE url == cfg[t].url
             other == Other(Primary(call[t].kind))
  <2>1. /\ call[t] \in CallsOf[t] /\ url = Config(call[t].headers, server).url
        /\ sent[t] \in Seq(RequestsOf(t))
        /\ HasFallback(call[t].kind) /\ AskedLast(t, other)
    BY DEF IInv, OfThread, OwnRequests, PathsTried, AnswerSecond
  <2>2. Last(sent[t]) \in RequestsOf(t) /\ Last(sent[t]).path = other
    BY <2>1, LastAsked
  <2>3. Last(sent[t]).url = url
    BY <2>2 DEF RequestsOf
  <2>4. (\A s \in Refuses[url] : Refused(s)) => other \in Serves[url]
    <3>1. other # "own"
      BY DEF Other
    <3> QED BY <1>2, <2>2, <2>3, <3>1 DEF Status, Served
  <2>5. RecordOf(Endpoint(t), call[t])
    BY <2>1, <2>4 DEF RecordOf, Endpoint
  <2>6. fallback' = fallback \cup {Endpoint(t)} /\ server' = server
    BY <1>2 DEF AnswerSecond
  <2>7. \A end \in fallback' : \E s \in Threads : \E c \in CallsOf[s] : RecordOf(end, c)
    BY <2>1, <2>5, <2>6 DEF IInv, RecordsServed
  <2> QED BY <2>6, <2>7 DEF RecordsServed, RecordOf
<1> QED BY <1>1, <1>2

\* Every step keeps the invariant.
LEMMA NextIInv == IInv /\ [Next]_vars => IInv'
<1> SUFFICES ASSUME IInv, [Next]_vars PROVE IInv'
  OBVIOUS
<1>1. ASSUME NEW t \in Threads, NEW new \in CallsOf[t], Arrive(t, new) PROVE IInv'
  BY <1>1, ArriveKeeps
<1>2. ASSUME NEW t \in Threads, NoClient(t) \/ Breaks(t) \/ TimesOut(t) PROVE IInv'
  <2>1. /\ pc[t] # "idle" /\ UNCHANGED <<server, fallback, call, cfg, sent, method, body, kept>>
        /\ pc' = [pc EXCEPT ![t] = "done"]
    BY <1>2 DEF NoClient, Breaks, TimesOut
  <2>2. PICK value : value # "error" /\ answer' = [answer EXCEPT ![t] = value]
    BY <1>2 DEF NoClient, Breaks, TimesOut
  <2>3. RecordsServed'
    BY <2>1, RecordsStay DEF IInv
  <2> QED BY <2>1, <2>2, <2>3, EndKeeps
<1>3. ASSUME NEW t \in Threads, Load(t) PROVE IInv'
  BY <1>3, LoadKeeps
<1>4. ASSUME NEW t \in Threads, Send(t) PROVE IInv'
  BY <1>4, SendKeeps
<1>5. ASSUME NEW t \in Threads, Answer(t) PROVE IInv'
  <2>1. PICK status \in Status(t) :
          AnswerFirst(t, status) \/ AnswerSecond(t, status) \/ AnswerLast(t, status)
    BY <1>5 DEF Answer
  <2>2. CASE AnswerFirst(t, status) /\ Refused(status)
    BY <2>2, RetryKeeps
  <2>3. CASE AnswerFirst(t, status) /\ ~Refused(status)
    <3>1. /\ pc[t] = "first" /\ UNCHANGED <<server, fallback, call, cfg, body, kept, sent>>
          /\ Finish(t, status)
      BY <2>3 DEF AnswerFirst
    <3>2. RecordsServed'
      BY <3>1, RecordsStay DEF IInv
    <3> QED BY <2>3, <3>1, <3>2, FinishKeeps
  <2>4. CASE AnswerSecond(t, status)
    <3>1. /\ pc[t] = "second" /\ UNCHANGED <<server, call, cfg, body, kept, sent>>
          /\ fallback \subseteq fallback' /\ Finish(t, status)
      BY <2>4 DEF AnswerSecond
    <3>2. RecordsServed'
      BY <2>4, RecordKeeps
    <3> QED BY <3>1, <3>2, FinishKeeps
  <2>5. CASE AnswerLast(t, status)
    <3>1. /\ pc[t] = "last" /\ UNCHANGED <<server, fallback, call, cfg, body, kept, sent>>
          /\ Finish(t, status)
      BY <2>5 DEF AnswerLast
    <3>2. RecordsServed'
      BY <3>1, RecordsStay DEF IInv
    <3> QED BY <3>1, <3>2, FinishKeeps
  <2> QED BY <2>1, <2>2, <2>3, <2>4, <2>5
<1>6. CASE UNCHANGED vars
  <2>1. Ranges' /\ RecordsServed'
    BY <1>6, RecordsStay DEF IInv, Ranges, vars
  <2>2. \A t \in Threads : OwnRequests(t)' /\ BodyThere(t)'
    BY <1>6 DEF IInv, OfThread, OwnRequests, RequestsOf, BodyThere, Query, vars
  <2>3. \A t \in Threads : PathsTried(t)'
    BY <1>6 DEF IInv, OfThread, PathsTried, Asked, AskedLast, Endpoint, UidOfOneGrafana,
                AskedServedPath, vars
  <2> QED BY <2>1, <2>2, <2>3 DEF IInv, OfThread
<1> QED BY <1>1, <1>2, <1>3, <1>4, <1>5, <1>6 DEF Next

\* The strengthening holds in every reachable state.
THEOREM OwnRequestsOnly == Spec => []IInv
BY InitIInv, NextIInv, PTL DEF Spec

-----------------------------------------------------------------------------
(* The properties *)

\* Every request of every call names its caller's Grafana, identity, organisation
\* and extra headers, with the exceptions that Identified lists.
THEOREM AllCallersIdentified == Spec => []CallerIdentified
<1>1. IInv => CallerIdentified
  <2> SUFFICES ASSUME IInv, NEW t \in Threads, NEW i \in DOMAIN sent[t]
               PROVE  Identified(sent[t][i], call[t].kind, call[t].headers, server)
    BY DEF CallerIdentified
  <2>1. pc[t] # "idle"
    BY DEF IInv, OfThread, OwnRequests
  <2>2. /\ call[t] \in CallsOf[t]
        /\ cfg[t] = Config(call[t].headers, server)
        /\ sent[t][i] \in RequestsOf(t)
    BY <2>1 DEF IInv, OfThread, OwnRequests
  <2>3. call[t].kind \in Kinds /\ IsSource(call[t].headers) /\ IsSource(server.env)
    BY <2>2, RequestsAssumption DEF IInv, Ranges
  <2>4. /\ sent[t][i].url = Config(call[t].headers, server).url
        /\ sent[t][i].headers = HeadersOf(call[t].kind, Config(call[t].headers, server))
    BY <2>2 DEF RequestsOf
  <2> QED BY <2>3, <2>4, RequestIdentified
<1> QED BY <1>1, OwnRequestsOnly, PTL

\* Each request carries the whole query, over both paths and both methods: a body is
\* put back before it is sent again, for it is kept before it is sent first.
THEOREM AllQueriesWhole == Spec => []QueriesWhole
<1>1. IInv => QueriesWhole
  <2> SUFFICES ASSUME IInv, NEW t \in Threads, NEW i \in DOMAIN sent[t]
               PROVE  sent[t][i].query = Whole
    BY DEF QueriesWhole
  <2>1. pc[t] # "idle"
    BY DEF IInv, OfThread, OwnRequests
  <2>2. sent[t][i] \in RequestsOf(t)
    BY <2>1 DEF IInv, OfThread, OwnRequests
  <2> QED BY <2>2 DEF RequestsOf
<1> QED BY <1>1, OwnRequestsOnly, PTL

\* A call that fails has tried a path by which its Grafana forwards, if uids are
\* those of one Grafana and refusals are 403 or 500: records were made by calls to
\* that Grafana, and an answer on a path that it does not serve makes none.
THEOREM ServedPathsTried == Spec => []TriedServedPath
<1>1. IInv => TriedServedPath
  BY DEF IInv, OfThread, PathsTried, TriedServedPath
<1> QED BY <1>1, OwnRequestsOnly, PTL
=============================================================================
