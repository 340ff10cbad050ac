------------------------ MODULE DatasourceToolsProofs ------------------------
(* That the properties of the tools hold in every state of every call. *)
EXTENDS DatasourceToolsProps, GrafanaToolsProofs

-----------------------------------------------------------------------------
(* What holds of a call in every state *)

Asking == call.tool \notin DashboardTools \cup RuleWrites

\* While a rule is read or written, what Grafana stores may change.
Changing == {"get_alert_rule"} \cup RuleWrites
CallInv ==
    /\ others \in Nat
    /\ \E kind \in Calls : \E start \in kind :
         /\ call = start.call
         /\ call.tool # "update_dashboard" /\ (pc = "called" \/ call.tool \notin Changing) =>
              stored = start.stored
    /\ call.tool = "get_alert_rule" => "rules" \in DOMAIN stored /\ IsRules(stored.rules)

RequestNames == {"query", "drain", "profile", "metrics", "rule", "state"}

\* Each request is answered, has failed or is left; one that fails and ends the call
\* is the last.
Splits(whole, a, b, c) ==
    a \cup b \cup c = whole /\ a \cap b = {} /\ a \cap c = {} /\ b \cap c = {}
Going ==
    /\ FitsType /\ Accepted
    /\ todo \in Seq(RequestNames) /\ IsInjective(todo)
    /\ Splits(Range(Requests), DOMAIN fetched, errors, Range(todo))
    /\ \A request \in errors : Spared(request)
    /\ \A request \in DOMAIN fetched : request \notin {"rule", "state"} => fetched[request] = stored

FailsRightly ==
    fetched = Unset \/ IF call.tool = "query_pyroscope" THEN DOMAIN fetched = {}
                       ELSE errors \notin {{"drain"}, {"state"}}

AskInv ==
    /\ Asking =>
        /\ pc \in {"called", "asking", "done", "failed", "panicked"}
        /\ pc = "called" => fetched = Unset /\ todo = <<>> /\ errors = {} /\ others = 0
        /\ pc \in {"asking", "done", "panicked"} => Going
        /\ pc \in {"done", "panicked"} =>
             /\ todo = <<>>
             /\ \E outcome \in Outcomes : results = outcome.value /\ pc = outcome.end
        /\ pc = "failed" => FailsRightly
    /\ call.tool \in RuleWrites => pc \in {"called", "done", "failed"}

\* The two reads that the detail of a rule is made of.
RuleReads ==
    /\ "rule" \in DOMAIN fetched =>
         /\ "uid" \in DOMAIN fetched["rule"] /\ fetched["rule"].uid = call.uid
         /\ others = 0 => fetched["rule"] \in Range(stored.rules)
    /\ "state" \in DOMAIN fetched =>
         /\ fetched["state"] = Alert!NoRuntime \/ fetched["state"].uid = call.uid
         /\ others = 0 => \E r \in Range(stored.rules) :
              r.uid = call.uid /\ fetched["state"] = [uid |-> call.uid, state |-> r.state]
StateComesLast == todo # <<>> /\ Head(todo) = "state" => "rule" \notin Range(todo)
RuleReadsInv ==
    call.tool = "get_alert_rule" /\ pc \in {"asking", "done"} => RuleReads /\ StateComesLast

ToolsInv == DashboardInv /\ CallInv /\ AskInv /\ RuleReadsInv

-----------------------------------------------------------------------------
(* The requests of a call *)

LEMMA NoElement == ASSUME NEW X PROVE <<>> \in Seq(X) /\ IsInjective(<<>>) /\ Range(<<>>) = {}
BY DEF IsInjective, Range

LEMMA OneElement ==
    ASSUME NEW X, NEW x \in X
    PROVE  <<x>> \in Seq(X) /\ IsInjective(<<x>>) /\ Range(<<x>>) = {x}
<1> DEFINE f == <<x>>
<1>1. f \in Seq(X) /\ DOMAIN f = {1} /\ f[1] = x
  OBVIOUS
<1> HIDE DEF f
<1>2. f \in Seq(X) /\ IsInjective(f) /\ Range(f) = {x}
  BY <1>1 DEF IsInjective, Range
<1> QED BY <1>2 DEF f

LEMMA TwoElements ==
    ASSUME NEW X, NEW x \in X, NEW y \in X, x # y
    PROVE  /\ <<x, y>> \in Seq(X) /\ IsInjective(<<x, y>>) /\ Range(<<x, y>>) = {x, y}
           /\ <<x>> \o <<y>> = <<x, y>>
<1> DEFINE f == <<x, y>>
           g == <<x>> \o <<y>>
<1>1. f \in Seq(X) /\ DOMAIN f = {1, 2} /\ f[1] = x /\ f[2] = y
  OBVIOUS
<1>2. g \in Seq(X) /\ Len(g) = 2 /\ g[1] = x /\ g[2] = y
  OBVIOUS
<1> HIDE DEF f, g
<1>3. f \in Seq(X) /\ IsInjective(f) /\ Range(f) = {x, y}
  BY <1>1 DEF IsInjective, Range
<1>4. g = <<g[1], g[2]>>
  BY <1>2
<1> QED BY <1>2, <1>3, <1>4 DEF f, g

IsPair(x, y) ==
    /\ <<x, y>> \in Seq(RequestNames) /\ IsInjective(<<x, y>>) /\ Range(<<x, y>>) = {x, y}
    /\ <<x>> \o <<y>> = <<x, y>>
LEMMA NamedRequests ==
    /\ <<>> \in Seq(RequestNames) /\ IsInjective(<<>>) /\ Range(<<>>) = {} /\ <<>> \o <<>> = <<>>
    /\ \A x \in RequestNames :
         /\ <<x>> \in Seq(RequestNames) /\ IsInjective(<<x>>) /\ Range(<<x>>) = {x}
         /\ <<x>> \o <<>> = <<x>> /\ <<>> \o <<x>> = <<x>>
    /\ IsPair("profile", "metrics") /\ IsPair("rule", "state") /\ IsPair("query", "drain")
    /\ {"query", "drain", "profile", "metrics", "rule", "state"} \subseteq RequestNames
<1>1. ASSUME NEW x \in RequestNames PROVE <<x>> \o <<>> = <<x>> /\ <<>> \o <<x>> = <<x>>
  OBVIOUS
<1>2. {"query", "drain", "profile", "metrics", "rule", "state"} \subseteq RequestNames
  BY DEF RequestNames
<1>3. <<>> \in Seq(RequestNames) /\ IsInjective(<<>>) /\ Range(<<>>) = {}
  BY NoElement
<1>4. ASSUME NEW x \in RequestNames
      PROVE  <<x>> \in Seq(RequestNames) /\ IsInjective(<<x>>) /\ Range(<<x>>) = {x}
  BY OneElement
<1>5. ASSUME NEW x \in RequestNames, NEW y \in RequestNames, x # y PROVE IsPair(x, y)
  <2> DEFINE X == RequestNames
  <2>1. x \in X /\ y \in X
    OBVIOUS
  <2> HIDE DEF X
  <2>2. /\ <<x, y>> \in Seq(X) /\ IsInjective(<<x, y>>) /\ Range(<<x, y>>) = {x, y}
        /\ <<x>> \o <<y>> = <<x, y>>
    BY <1>5, <2>1, TwoElements
  <2> QED BY <2>2 DEF IsPair, X
<1>6. IsPair("profile", "metrics") /\ IsPair("rule", "state") /\ IsPair("query", "drain")
  BY <1>2, <1>5
<1>7. <<>> \o <<>> = <<>>
  OBVIOUS
<1> QED BY <1>1, <1>2, <1>3, <1>4, <1>6, <1>7, Zenon

LEMMA RequestsAre ==
    ASSUME Asking
    PROVE  /\ Requests \in Seq(RequestNames) /\ IsInjective(Requests)
           /\ call.tool = "get_alert_rule" => Range(Requests) = {"rule", "state"}
           /\ call.tool = "query_pyroscope" =>
                /\ Range(Requests) \subseteq {"profile", "metrics"}
                /\ call.type \in {"", "both"} => Range(Requests) = {"profile", "metrics"}
                /\ \A r, q \in Range(Requests) : call.type \notin {"", "both"} => r = q
           /\ call.tool \notin {"get_alert_rule", "query_pyroscope"} =>
                /\ "query" \in Range(Requests) /\ Range(Requests) \subseteq {"query", "drain"}
                /\ "drain" \in Range(Requests) => AsksForLogs
<1>5. CASE call.tool = "query_pyroscope"
  <2> DEFINE profile == Alert!WantsProfile(call)
             metrics == Alert!WantsMetrics(call)
  <2>1. Requests = (IF profile THEN <<"profile">> ELSE <<>>) \o
                   (IF metrics THEN <<"metrics">> ELSE <<>>)
    BY <1>5 DEF Requests, AsksForLogs
  <2>2. call.type \in {"", "both"} <=> profile /\ metrics
    BY DEF Alert!WantsProfile, Alert!WantsMetrics
  <2> HIDE DEF profile, metrics
  <2>3. \/ profile /\ metrics /\ Requests = <<"profile", "metrics">>
        \/ profile /\ ~metrics /\ Requests = <<"profile">>
        \/ ~profile /\ metrics /\ Requests = <<"metrics">>
        \/ ~profile /\ ~metrics /\ Requests = <<>>
    <3>1. /\ <<"profile">> \o <<"metrics">> = <<"profile", "metrics">>
          /\ <<"profile">> \o <<>> = <<"profile">> /\ <<>> \o <<"metrics">> = <<"metrics">>
          /\ <<>> \o <<>> = <<>>
      BY NamedRequests DEF IsPair
    <3> QED BY <2>1, <3>1
  <2>4. /\ Requests \in Seq(RequestNames) /\ IsInjective(Requests)
        /\ \/ profile /\ metrics /\ Range(Requests) = {"profile", "metrics"}
           \/ ~(profile /\ metrics) /\ Range(Requests) = {"profile"}
           \/ ~(profile /\ metrics) /\ Range(Requests) = {"metrics"}
           \/ ~(profile /\ metrics) /\ Range(Requests) = {}
    <3>1. CASE profile /\ metrics
      BY <2>3, <3>1, NamedRequests DEF IsPair
    <3>2. CASE profile /\ ~metrics
      BY <2>3, <3>2, NamedRequests
    <3>3. CASE ~profile /\ metrics
      BY <2>3, <3>3, NamedRequests
    <3>4. CASE ~profile /\ ~metrics
      BY <2>3, <3>4, NamedRequests
    <3> QED BY <3>1, <3>2, <3>3, <3>4
  <2> QED BY <1>5, <2>2, <2>4
<1>6. CASE call.tool = "get_alert_rule"
  <2>1. Requests = <<"rule", "state">>
    BY <1>6 DEF Requests, AsksForLogs
  <2>2. Requests \in Seq(RequestNames) /\ IsInjective(Requests) /\ Range(Requests) = {"rule", "state"}
    BY <2>1, NamedRequests DEF IsPair
  <2> QED BY <1>6, <2>2
<1>7. CASE call.tool \notin {"get_alert_rule", "query_pyroscope"}
  <2>1. \/ AsksForLogs /\ Requests = <<"query", "drain">>
        \/ Requests = <<"query">>
    BY <1>7 DEF Requests
  <2>2. /\ Requests \in Seq(RequestNames) /\ IsInjective(Requests)
        /\ \/ AsksForLogs /\ Range(Requests) = {"query", "drain"}
           \/ Range(Requests) = {"query"}
    BY <2>1, NamedRequests DEF IsPair
  <2> QED BY <1>7, <2>2
<1> QED BY <1>5, <1>6, <1>7

\* A request that is taken from the list is no longer left.
LEMMA TakeFirst ==
    ASSUME NEW X, NEW list \in Seq(X), IsInjective(list), list # <<>>
    PROVE  /\ Tail(list) \in Seq(X) /\ IsInjective(Tail(list))
           /\ Head(list) \in Range(list)
           /\ Range(Tail(list)) = Range(list) \ {Head(list)}
<1>1. Head(list) = list[1] /\ 1 \in DOMAIN list /\ Tail(list) \in Seq(X)
  OBVIOUS
<1>2. \A i \in DOMAIN Tail(list) : i + 1 \in DOMAIN list /\ Tail(list)[i] = list[i + 1]
  OBVIOUS
<1>3. \A i \in DOMAIN list : i # 1 => i - 1 \in DOMAIN Tail(list) /\ Tail(list)[i - 1] = list[i]
  OBVIOUS
<1>4. \A i \in DOMAIN Tail(list) : i + 1 # 1 /\ i \in Int
  OBVIOUS
<1>5. IsInjective(Tail(list))
  BY <1>2, <1>4 DEF IsInjective
<1>6. Range(Tail(list)) \subseteq Range(list) \ {Head(list)}
  BY <1>1, <1>2, <1>4 DEF IsInjective, Range
<1>7. Range(list) \ {Head(list)} \subseteq Range(Tail(list))
  BY <1>1, <1>3, SMTT(30) DEF Range
<1> QED BY <1>1, <1>5, <1>6, <1>7 DEF Range

LEMMA AllNextKeepsCall == ASSUME [AllNext]_vars PROVE call' = call
BY NextKeepsCall DEF AllNext, Begin, Ask, AskFails, Reply, Write, Delete, OtherEdits

-----------------------------------------------------------------------------
(* How calls end *)

LEMMA EndOf ==
    /\ \A value : Alert!Done(value).end = "done" /\ Alert!Done(value).value = value
    /\ Alert!Error.end = "failed" /\ Alert!Panic.end = "panicked"
BY DEF Alert!Done, Alert!Error, Alert!Panic

LEMMA EndOfWrapped ==
    ASSUME NEW query, NEW outcome
    PROVE  With(query, outcome).end = outcome.end /\ Hinted(outcome).end = outcome.end
<1>1. CASE outcome.end = "done"
  BY <1>1, EndOf DEF With, Hinted
<1>2. CASE outcome.end # "done"
  BY <1>2 DEF With, Hinted
<1> QED BY <1>1, <1>2

LEMMA EndOfLimited ==
    ASSUME NEW names, NEW limit
    PROVE  /\ Alert!Limited(names, limit).end \in {"done", "panicked"}
           /\ Alert!Limited(names, limit).end = "panicked" => limit < 0
<1>1. \/ \E value : Alert!Limited(names, limit) = Alert!Done(value)
      \/ limit < 0 /\ Alert!Limited(names, limit) = Alert!Panic
  BY DEF Alert!Limited, Alert!At
<1> QED BY <1>1, EndOf

LEMMA MinPair == ASSUME NEW a \in Int, NEW b \in Int PROVE Min({a, b}) = IF a <= b THEN a ELSE b
BY DEF Min

LEMMA AlertMin == ASSUME NEW S PROVE Alert!Min(S) = Min(S)
BY DEF Alert!Min, Min

LEMMA AlertThose == ASSUME NEW list, NEW set PROVE Alert!Those(list, set) = Those(list, set)
BY DEF Alert!Those, Those, Alert!FlattenSeq, FlattenSeq

\* A page that a caller can ask for by numbers that are not negative is there.
LEMMA EndOfPage ==
    ASSUME NEW X, NEW names \in Seq(X), NEW limit \in Int, NEW number \in Int
    PROVE  /\ Alert!Page(names, limit, number).end \in {"done", "panicked"}
           /\ Alert!Page(names, limit, number).end = "panicked" => limit < 0 \/ number < 0
<1> DEFINE size == Alert!At(limit, 10)
           before == Alert!At(number, 1) - 1
           start == before * size
           last == Alert!Min({start + size, Len(names)})
<1>1. /\ size \in Int /\ before \in Int /\ Len(names) \in Int
      /\ limit >= 0 => size >= 0
      /\ number >= 0 => before >= 0
  BY DEF Alert!At
<1> HIDE DEF size, before
<1>2. start \in Int /\ (size >= 0 /\ before >= 0 => start >= 0)
  <2>1. \A a, b \in Int : a * b \in Int /\ (a >= 0 /\ b >= 0 => a * b >= 0)
    OBVIOUS
  <2> QED BY <1>1, <2>1
<1> HIDE DEF start
<1>3. last = IF start + size <= Len(names) THEN start + size ELSE Len(names)
  BY <1>1, <1>2, AlertMin, MinPair
<1> HIDE DEF last
<1>4. \/ \E value : Alert!Page(names, limit, number) = Alert!Done(value)
      \/ /\ Alert!Page(names, limit, number) = Alert!Panic
         /\ start < Len(names) /\ (start < 0 \/ last < start)
  BY DEF Alert!Page, start, size, before, last
<1>5. start < Len(names) /\ (start < 0 \/ last < start) => limit < 0 \/ number < 0
  BY <1>1, <1>2, <1>3
<1> QED BY <1>4, <1>5, EndOf

\* A column of values that is shorter than its times.
ShortColumn(frames) ==
    \E f \in Range(frames) :
        /\ Alert!HasColumns(f, Alert!CloudTypes)
        /\ Len(f.columns[Alert!LastField(f, Alert!CloudTypes)])
             < Len(f.columns[Alert!LastField(f, {"time"})])

LEMMA EndOfVector ==
    ASSUME NEW frames
    PROVE  /\ Alert!FramesToVector(frames).end \in {"done", "panicked"}
           /\ Alert!FramesToVector(frames).end = "panicked" => ShortColumn(frames)
<1>1. \/ \E value : Alert!FramesToVector(frames) = Alert!Done(value)
      \/ Alert!FramesToVector(frames) = Alert!Panic /\ ShortColumn(frames)
  BY DEF Alert!FramesToVector, ShortColumn, Alert!Range, Range
<1> QED BY <1>1, EndOf, SMTT(30)

LEMMA EndOfFrames ==
    ASSUME NEW answer, NEW type
    PROVE  LET end == Alert!FramesToPrometheusValue(answer, type).end IN
           /\ end \in {"done", "failed", "panicked"}
           /\ end = "panicked" => type = "instant" /\ ShortColumn(answer.frames)
           /\ answer.known /\ answer.error => end = "failed"
<1> DEFINE outcome == Alert!FramesToPrometheusValue(answer, type)
<1>1. CASE ~answer.known
  <2>1. outcome = Alert!Done(<<>>)
    BY <1>1 DEF Alert!FramesToPrometheusValue
  <2> QED BY <1>1, <2>1, EndOf
<1>2. CASE answer.known /\ answer.error
  <2>1. outcome = Alert!Error
    BY <1>2 DEF Alert!FramesToPrometheusValue
  <2> QED BY <1>2, <2>1, EndOf
<1>3. CASE answer.known /\ ~answer.error /\ type = "instant"
  <2>1. outcome = Alert!FramesToVector(answer.frames)
    BY <1>3 DEF Alert!FramesToPrometheusValue
  <2> QED BY <1>3, <2>1, EndOfVector
<1>4. CASE answer.known /\ ~answer.error /\ type # "instant"
  <2>1. outcome = Alert!Done(Alert!FramesToMatrix(answer.frames))
    BY <1>4 DEF Alert!FramesToPrometheusValue
  <2> QED BY <1>4, <2>1, EndOf
<1> QED BY <1>1, <1>2, <1>3, <1>4

\* What an answer made of `found` may end with.
EndsRightly(outcome, found) ==
    /\ outcome.end \in {"done", "failed", "panicked"}
    /\ AsksForLogs => outcome.end = "done"
    /\ outcome.end = "panicked" =>
         \/ /\ call.tool \in {"list_prometheus_label_names", "list_prometheus_label_values"}
            /\ call.limit < 0
         \/ call.tool = "list_prometheus_metric_names" /\ (call.limit < 0 \/ call.page < 0)
         \/ call.tool = "query_prometheus" /\ call.type = "instant" /\ ShortColumn(found.answer.frames)
    /\ /\ call.tool = "query_cloudwatch" \/ (call.tool \in MetricQueryTools /\ Cloud)
       /\ found.answer.known /\ found.answer.error
       => outcome.end = "failed"

LEMMA EndOfCloud ==
    ASSUME NEW found, call.tool \in PrometheusTools, Cloud,
           call.tool = "list_prometheus_metric_names" =>
               call.limit \in Int /\ call.page \in Int /\ found.names \in Seq(Range(found.names)),
           NEW outcome \in CloudReplies(found)
    PROVE  EndsRightly(outcome, found)
<1>0. ~AsksForLogs
  BY DEF AsksForLogs, PrometheusTools
<1>1. CASE call.tool = "query_prometheus"
  <2>1. outcome = Hinted(Alert!FramesToPrometheusValue(found.answer, Alert!QueryType(call)))
    BY <1>1 DEF CloudReplies
  <2>2. Alert!QueryType(call) = "instant" => call.type = "instant"
    BY DEF Alert!QueryType
  <2> QED BY <1>0, <1>1, <2>1, <2>2, EndOfWrapped, EndOfFrames DEF EndsRightly
<1>2. CASE call.tool = "query_prometheus_histogram"
  <2>1. outcome = Alert!FramesToPrometheusValue(found.answer, "range")
    BY <1>2 DEF CloudReplies
  <2> QED BY <1>0, <1>2, <2>1, EndOfFrames DEF EndsRightly
<1>3. CASE call.tool = "list_prometheus_metric_metadata"
  <2>1. outcome = Alert!Done(Alert!CloudMetricMetadata(found.names, call.metric, call.limit))
    BY <1>3 DEF CloudReplies
  <2> QED BY <1>0, <1>3, <2>1, EndOf DEF EndsRightly, MetricQueryTools
<1>4. CASE call.tool = "list_prometheus_metric_names"
  <2>1. outcome = Alert!Page(Alert!Named(found.names, call.regex), call.limit, call.page)
    BY <1>4 DEF CloudReplies
  <2>2. Alert!Named(found.names, call.regex) \in Seq(Range(found.names))
    BY <1>4, AlertThose, ThoseType DEF Alert!Named
  <2> QED BY <1>0, <1>4, <2>1, <2>2, EndOfPage DEF EndsRightly, MetricQueryTools
<1>5. CASE call.tool \in {"list_prometheus_label_names", "list_prometheus_label_values"}
  <2>1. \E names : outcome = Alert!Limited(names, call.limit)
    BY <1>5 DEF CloudReplies
  <2> QED BY <1>0, <1>5, <2>1, EndOfLimited DEF EndsRightly, MetricQueryTools
<1> QED BY <1>1, <1>2, <1>3, <1>4, <1>5 DEF PrometheusTools

LEMMA EndOfPrometheus ==
    ASSUME NEW found, call.tool \in PrometheusTools, ~Cloud,
           call.tool = "list_prometheus_metric_names" =>
               call.limit \in Int /\ call.page \in Int /\ found.names \in Seq(Range(found.names)),
           NEW outcome \in PrometheusReplies(found)
    PROVE  EndsRightly(outcome, found)
<1>0. ~AsksForLogs
  BY DEF AsksForLogs, PrometheusTools
<1>1. CASE call.tool = "query_prometheus"
  <2>1. outcome = Hinted(Alert!Done(found.value))
    BY <1>1 DEF PrometheusReplies
  <2> QED BY <1>0, <1>1, <2>1, EndOf, EndOfWrapped DEF EndsRightly
<1>2. CASE call.tool = "list_prometheus_metric_names"
  <2>1. outcome = Alert!Page(Alert!Named(found.names, call.regex), call.limit, call.page)
    BY <1>2 DEF PrometheusReplies
  <2>2. Alert!Named(found.names, call.regex) \in Seq(Range(found.names))
    BY <1>2, AlertThose, ThoseType DEF Alert!Named
  <2> QED BY <1>0, <1>2, <2>1, <2>2, EndOfPage DEF EndsRightly
<1>3. CASE call.tool \in {"list_prometheus_label_names", "list_prometheus_label_values"}
  <2>1. outcome = Alert!Limited(found.names, call.limit)
    BY <1>3 DEF PrometheusReplies
  <2> QED BY <1>0, <1>3, <2>1, EndOfLimited DEF EndsRightly
<1>4. CASE call.tool \in {"query_prometheus_histogram", "list_prometheus_metric_metadata"}
  <2>1. outcome = Alert!Done(found.value)
    BY <1>4 DEF PrometheusReplies
  <2> QED BY <1>0, <1>4, <2>1, EndOf DEF EndsRightly
<1> QED BY <1>1, <1>2, <1>3, <1>4 DEF PrometheusTools

LEMMA EndOfReply ==
    ASSUME NEW found,
           call.tool = "list_prometheus_metric_names" =>
               call.limit \in Int /\ call.page \in Int /\ found.names \in Seq(Range(found.names)),
           FitsType, NEW outcome \in Replies(found)
    PROVE  EndsRightly(outcome, found)
<1>1. CASE AsksForLogs
  <2>1. outcome = Alert!Done(Logs(found))
    BY <1>1 DEF Replies, AsksForLogs, SqlTools, PrometheusTools, CloudWatchTools
  <2> QED BY <1>1, <2>1, EndOf DEF EndsRightly, MetricQueryTools, AsksForLogs
<1>2. CASE ~AsksForLogs /\ call.tool \in PrometheusTools
  <2>1. outcome \in IF Cloud THEN CloudReplies(found) ELSE PrometheusReplies(found)
    BY <1>2 DEF Replies, PrometheusTools, SqlTools, CloudWatchTools
  <2> QED BY <1>2, <2>1, EndOfCloud, EndOfPrometheus
<1>3. CASE ~AsksForLogs /\ call.tool = "query_cloudwatch"
  <2>1. outcome = With(Alert!CloudWatchQuery(call), Alert!CloudWatchResult(found.answer))
    BY <1>3 DEF Replies, PrometheusTools, SqlTools
  <2>2. LET result == Alert!CloudWatchResult(found.answer) IN
        IF found.answer.known /\ found.answer.error THEN result = Alert!Error
        ELSE \E value : result = Alert!Done(value)
    BY DEF Alert!CloudWatchResult
  <2> QED BY <1>3, <2>1, <2>2, EndOf, EndOfWrapped DEF EndsRightly
<1>4. CASE ~AsksForLogs /\ call.tool \notin PrometheusTools /\ call.tool # "query_cloudwatch"
  <2>1. outcome.end \in {"done", "failed"}
    <3>1. CASE call.tool \in SqlTools \cup {"search_logs"}
      <4>1. \E value : outcome = Alert!Done(value)
        BY <1>4, <3>1 DEF Replies, SqlTools, FitsType, AsksForLogs, CloudWatchTools
      <4> QED BY <4>1, EndOf
    <3>2. CASE call.tool \in CloudWatchTools
      <4>1. \E query, value : outcome = With(query, Alert!Done(value))
        BY <1>4, <3>2 DEF Replies, SqlTools, PrometheusTools, CloudWatchTools
      <4> QED BY <4>1, EndOf, EndOfWrapped
    <3>3. CASE call.tool = "query_elasticsearch"
      <4>1. \E query, value, size : outcome = With(query, Alert!Documents(value, size))
        BY <1>4, <3>3 DEF Replies, SqlTools, PrometheusTools, CloudWatchTools
      <4>2. \A answer, size : \/ Alert!Documents(answer, size) = Alert!Error
                              \/ \E value : Alert!Documents(answer, size) = Alert!Done(value)
        BY DEF Alert!Documents
      <4> QED BY <4>1, <4>2, EndOf, EndOfWrapped
    <3>4. CASE call.tool = "list_alert_rules"
      <4>1. \E rules : outcome = Alert!ListRules(call, rules)
        BY <1>4, <3>4 DEF Replies, SqlTools, PrometheusTools, CloudWatchTools,
                          Alert!ListGrafanaRules, Alert!ListDatasourceAlertRules
      <4>2. \A rules : \/ Alert!ListRules(call, rules) = Alert!Error
                       \/ \E value : Alert!ListRules(call, rules) = Alert!Done(value)
        BY DEF Alert!ListRules
      <4> QED BY <4>1, <4>2, EndOf
    <3>5. CASE call.tool = "manage_routing"
      <4>1. outcome = Alert!ManageRouting(call, found.points)
        BY <1>4, <3>5 DEF Replies, SqlTools, PrometheusTools, CloudWatchTools
      <4>2. outcome = Alert!Error \/ \E value : outcome = Alert!Done(value)
        BY <4>1 DEF Alert!ManageRouting
      <4> QED BY <4>2, EndOf
    <3>6. CASE call.tool \notin SqlTools \cup CloudWatchTools \cup
                    {"search_logs", "query_elasticsearch", "list_alert_rules", "manage_routing"}
      <4>1. outcome = Alert!Done(found.labels)
        BY <1>4, <3>6 DEF Replies, SqlTools, CloudWatchTools
      <4> QED BY <4>1, EndOf
    <3> QED BY <3>1, <3>2, <3>3, <3>4, <3>5, <3>6
  <2> QED BY <1>4, <2>1 DEF EndsRightly, MetricQueryTools, PrometheusTools
<1> QED BY <1>1, <1>2, <1>3, <1>4

\* Answers to all but reads and writes of rules are made of what is stored.
LEMMA StartedAsk ==
    ASSUME CallInv, Asking, call.tool # "get_alert_rule"
    PROVE  \E kind \in Calls : \E start \in kind : call = start.call /\ stored = start.stored
BY DEF CallInv, Asking, Changing, DashboardTools

LEMMA PageArguments ==
    ASSUME CallInv, call.tool = "list_prometheus_metric_names"
    PROVE  call.limit \in Int /\ call.page \in Int /\ stored.names \in Seq(Range(stored.names))
<1>1. \E kind \in Calls : \E start \in kind : call = start.call /\ stored = start.stored
  BY StartedAsk DEF Asking, DashboardTools, RuleWrites
<1> QED BY <1>1, ArgumentsAssumption DEF IsList

\* A call ends with an answer made of all requests.
EndsAsAsked(outcome) ==
    /\ outcome.end \in {"done", "failed", "panicked"}
    /\ call.tool = "get_alert_rule" => outcome.end = "done"
    /\ call.tool = "query_pyroscope" =>
         /\ outcome.end = "done" => DOMAIN fetched # {} /\ outcome.value = Parts
         /\ outcome.end = "failed" => DOMAIN fetched = {}
         /\ outcome.end # "panicked"
    /\ call.tool \notin {"get_alert_rule", "query_pyroscope"} =>
         "query" \in DOMAIN fetched /\ EndsRightly(outcome, stored)

LEMMA EndOfCall ==
    ASSUME CallInv, Asking, Going, NEW outcome \in Outcomes, todo = <<>>
    PROVE  /\ EndsAsAsked(outcome)
           /\ call.tool \notin {"get_alert_rule", "query_pyroscope"} =>
                fetched["query"] = stored /\ outcome \in Replies(stored)
<1>1. CASE call.tool = "get_alert_rule"
  <2>1. \E value : outcome = Alert!Done(value)
    BY <1>1 DEF Outcomes, NothingLeft
  <2> QED BY <1>1, <2>1, EndOf DEF EndsAsAsked
<1>2. CASE call.tool = "query_pyroscope"
  <2>1. CASE NothingLeft
    <3>1. outcome = Alert!Error
      BY <1>2, <2>1 DEF Outcomes
    <3> QED BY <1>2, <2>1, <3>1, EndOf DEF EndsAsAsked, NothingLeft
  <2>2. CASE ~NothingLeft
    <3>1. outcome = Alert!Done(Parts)
      BY <1>2, <2>2 DEF Outcomes
    <3> QED BY <1>2, <2>2, <3>1, EndOf DEF EndsAsAsked, NothingLeft
  <2> QED BY <2>1, <2>2
<1>3. CASE call.tool \notin {"get_alert_rule", "query_pyroscope"}
  <2>1. outcome \in Replies(fetched["query"])
    BY <1>3 DEF Outcomes, NothingLeft
  <2>2. "query" \in Range(Requests) /\ Range(todo) = {}
    BY <1>3, RequestsAre, NamedRequests
  <2>3. "query" \in DOMAIN fetched
    <3>1. "query" \notin errors
      BY <1>3 DEF Going, Spared
    <3> QED BY <2>2, <3>1 DEF Going, Splits
  <2>4. fetched["query"] = stored
    BY <2>3 DEF Going
  <2>5. EndsRightly(outcome, stored)
    BY <1>3, <2>1, <2>4, PageArguments, EndOfReply DEF Going
  <2>6. outcome.end \in {"done", "failed", "panicked"}
    BY <2>5 DEF EndsRightly
  <2> QED BY <1>3, <2>1, <2>3, <2>4, <2>5, <2>6 DEF EndsAsAsked
<1> QED BY <1>1, <1>2, <1>3

-----------------------------------------------------------------------------
(* The steps of a call *)

LEMMA AskInit == Init => CallInv /\ AskInv /\ RuleReadsInv
<1> SUFFICES ASSUME Init PROVE CallInv /\ AskInv /\ RuleReadsInv
  OBVIOUS
<1>1. /\ pc = "called" /\ fetched = Unset /\ todo = <<>> /\ errors = {} /\ others = 0
      /\ \E kind \in Calls : \E start \in kind : call = start.call /\ stored = start.stored
  BY DEF Init
<1>2. CallInv
  BY <1>1, ArgumentsAssumption DEF CallInv, RuleTools
<1> QED BY <1>1, <1>2 DEF AskInv, RuleReadsInv

LEMMA CallStep == CallInv /\ StepsInv /\ AskInv /\ [AllNext]_vars => CallInv'
<1> SUFFICES ASSUME CallInv, StepsInv, AskInv, [AllNext]_vars PROVE CallInv'
  OBVIOUS
<1>1. call' = call
  BY AllNextKeepsCall
<1>2. CASE UNCHANGED <<stored, others>> /\ (pc' = "called" => pc = "called" \/ call.tool \notin Changing)
  BY <1>1, <1>2 DEF CallInv
<1>3. CASE Fetch \/ Fail \/ RunPanel \/ RunPanels \/ Preview \/ Begin \/ Ask \/ AskFails \/ UNCHANGED vars
  BY <1>2, <1>3 DEF Fetch, Fail, RunPanel, RunPanels, Preview, Begin, Ask, AskFails, vars
<1>4. CASE Reply
  <2>1. pc = "asking" /\ todo = <<>> /\ UNCHANGED <<stored, others>>
        /\ \E outcome \in Outcomes : pc' = outcome.end
    BY <1>4 DEF Reply
  <2>2. Asking
    BY <2>1 DEF StepsInv, AskInv, Asking
  <2>3. pc' # "called"
    BY <2>1, <2>2, EndOfCall DEF AskInv, EndsAsAsked
  <2> QED BY <1>2, <2>1, <2>3
<1>5. CASE Save \/ \E new \in Others : OtherSaves(new)
  <2>1. call.tool = "update_dashboard" /\ others' \in Nat
    BY <1>5 DEF Save, OtherSaves, CallInv
  <2> QED BY <1>1, <2>1 DEF CallInv
<1>6. CASE Write \/ Delete
  <2>1. call.tool \in RuleWrites /\ others' = others /\ pc' # "called"
    BY <1>6 DEF Write, Delete, RuleWrites
  <2> QED BY <1>1, <2>1 DEF CallInv, Changing, RuleWrites
<1>7. CASE OtherEdits
  <2> DEFINE rules == stored.rules
             moved(i, j) == [rules EXCEPT ![i].rule.group = rules[j].rule.group,
                                          ![i].state = rules[j].state]
  <2>1. /\ call.tool = "get_alert_rule" /\ pc = "asking" /\ pc' = pc /\ others' = others + 1
        /\ \E i \in DOMAIN rules :
             \/ stored' = [stored EXCEPT !.rules = RemoveAt(@, i)]
             \/ \E j \in DOMAIN rules \ {i} :
                  stored' = [stored EXCEPT !.rules[i].rule.group = stored.rules[j].rule.group,
                                           !.rules[i].state = stored.rules[j].state]
    BY <1>7 DEF OtherEdits
  <2>2. "rules" \in DOMAIN stored /\ IsRules(rules)
    BY <2>1, ZenonT(60) DEF CallInv
  <2>3. "rules" \in DOMAIN stored' /\ IsRules(stored'.rules)
    <3>1. PICK i \in DOMAIN rules :
             \/ stored' = [stored EXCEPT !.rules = RemoveAt(@, i)]
             \/ \E j \in DOMAIN rules \ {i} :
                  stored' = [stored EXCEPT !.rules[i].rule.group = stored.rules[j].rule.group,
                                           !.rules[i].state = stored.rules[j].state]
      BY <2>1
    <3>2. CASE stored' = [stored EXCEPT !.rules = RemoveAt(@, i)]
      <4>1. "rules" \in DOMAIN stored' /\ stored'.rules = RemoveAt(rules, i)
        BY <2>2, <3>2
      <4> DEFINE X == Range(rules)
                 less == RemoveAt(rules, i)
      <4>2. rules \in Seq(X)
        BY <2>2 DEF IsRules, IsList
      <4> HIDE DEF X
      <4>3. less \in Seq(X)
        BY <4>2 DEF RemoveAt
      <4>4. Range(less) \subseteq X
        BY <4>3 DEF Range
      <4>5. less \in Seq(Range(less))
        BY <4>3 DEF Range
      <4> QED BY <2>2, <4>1, <4>4, <4>5 DEF IsRules, IsList, X
    <3>3. CASE \E j \in DOMAIN rules \ {i} :
                 stored' = [stored EXCEPT !.rules[i].rule.group = stored.rules[j].rule.group,
                                          !.rules[i].state = stored.rules[j].state]
      <4>1. PICK g, t :
               stored' = [stored EXCEPT !.rules[i].rule.group = g, !.rules[i].state = t]
        BY <3>3
      <4> DEFINE edited == [rules EXCEPT ![i].rule.group = g, ![i].state = t]
      <4>2. "rules" \in DOMAIN stored' /\ stored'.rules = edited
        BY <2>2, <4>1
      <4>3. DOMAIN edited = DOMAIN rules
        OBVIOUS
      <4>4. \A k \in DOMAIN rules :
              {"uid", "rule", "state"} \subseteq DOMAIN edited[k] /\ "data" \in DOMAIN edited[k].rule
        BY <2>2 DEF IsRules, Range
      <4>5. edited \in [1..Len(rules) -> Range(edited)] /\ Len(rules) \in Nat
        <5>1. Len(rules) \in Nat /\ DOMAIN rules = 1..Len(rules)
          BY <2>2 DEF IsRules, IsList
        <5>2. edited = [k \in DOMAIN edited |-> edited[k]]
          OBVIOUS
        <5> HIDE DEF edited
        <5> QED BY <4>3, <5>1, <5>2 DEF Range
      <4> HIDE DEF edited
      <4>6. edited \in Seq(Range(edited))
        BY <4>5
      <4> QED BY <4>2, <4>3, <4>4, <4>6 DEF IsRules, IsList, Range
    <3> QED BY <3>1, <3>2, <3>3, ZenonT(60)
  <2>4. others' \in Nat
    <3>1. others \in Nat
      BY DEF CallInv
    <3>2. others' = others + 1
      BY <2>1
    <3> QED BY <3>1, <3>2
  <2> QED BY <1>1, <2>1, <2>3, <2>4, ZenonT(60) DEF CallInv, Changing
<1> QED BY <1>3, <1>4, <1>5, <1>6, <1>7 DEF AllNext, Next

LEMMA BeginGoes == ASSUME Asking, AskInv, Begin PROVE Going' /\ pc' = "asking"
<1>1. /\ pc = "called" /\ FitsType /\ Accepted /\ pc' = "asking" /\ todo' = Requests
      /\ fetched' = <<>> /\ errors' = errors /\ call' = call /\ stored' = stored
  BY DEF Begin
<1>2. errors = {}
  BY <1>1 DEF AskInv
<1>3. Requests \in Seq(RequestNames) /\ IsInjective(Requests)
  BY RequestsAre
<1>4. DOMAIN fetched' = {}
  BY <1>1
<1>5. FitsType' /\ Accepted' /\ Requests' = Requests
  BY <1>1 DEF FitsType, Accepted, Requests, AsksForLogs, Templated
<1>6. Splits(Range(Requests'), DOMAIN fetched', errors', Range(todo'))
  BY <1>1, <1>2, <1>4, <1>5 DEF Splits
<1> QED BY <1>1, <1>2, <1>3, <1>4, <1>5, <1>6 DEF Going

LEMMA AskGoes == ASSUME Asking, Going, Ask PROVE Going' /\ pc' = "asking"
<1> DEFINE h == Head(todo)
<1>1. /\ pc = "asking" /\ todo # <<>> /\ todo' = Tail(todo)
      /\ fetched' = Over(Only(h, Returned(h)), fetched)
      /\ call' = call /\ stored' = stored /\ pc' = pc /\ errors' = errors
  BY DEF Ask
<1>2. /\ todo' \in Seq(RequestNames) /\ IsInjective(todo')
      /\ h \in Range(todo) /\ Range(todo') = Range(todo) \ {h}
  BY <1>1, TakeFirst DEF Going
<1>3. FitsType' /\ Accepted' /\ Requests' = Requests
  BY <1>1 DEF Going, FitsType, Accepted, Requests, AsksForLogs, Templated
<1> HIDE DEF h
<1>4. /\ DOMAIN fetched' = {h} \cup DOMAIN fetched /\ fetched'[h] = Returned(h)
      /\ \A r \in DOMAIN fetched : r # h => fetched'[r] = fetched[r]
  BY <1>1 DEF Over, Only
<1>5. Splits(Range(Requests'), DOMAIN fetched', errors', Range(todo'))
  BY <1>1, <1>2, <1>3, <1>4 DEF Going, Splits
<1>6. \A request \in errors' : Spared(request)'
  BY <1>1 DEF Going, Spared
<1>7. \A request \in DOMAIN fetched' : request \notin {"rule", "state"} => fetched'[request] = stored'
  <2>1. h \notin {"rule", "state"} => Returned(h) = stored
    BY DEF Returned
  <2> QED BY <1>1, <1>4, <2>1 DEF Going
<1> QED BY <1>1, <1>2, <1>3, <1>5, <1>6, <1>7 DEF Going

\* A request that fails is left aside, or ends the call and is no aside.
LEMMA AskFailsGoes ==
    ASSUME Asking, Going, AskFails
    PROVE  (pc' = "asking" /\ Going') \/ (pc' = "failed" /\ FailsRightly')
<1> DEFINE h == Head(todo)
<1>1. /\ pc = "asking" /\ todo # <<>> /\ todo' = Tail(todo) /\ errors' = errors \cup {h}
      /\ pc' = IF Spared(h) THEN "asking" ELSE "failed"
      /\ call' = call /\ stored' = stored /\ fetched' = fetched
  BY DEF AskFails
<1>2. /\ todo' \in Seq(RequestNames) /\ IsInjective(todo')
      /\ h \in Range(todo) /\ Range(todo') = Range(todo) \ {h}
  BY <1>1, TakeFirst DEF Going
<1> HIDE DEF h
<1>3. CASE Spared(h)
  <2>1. FitsType' /\ Accepted' /\ Requests' = Requests
    BY <1>1 DEF Going, FitsType, Accepted, Requests, AsksForLogs, Templated
  <2>2. Splits(Range(Requests'), DOMAIN fetched', errors', Range(todo'))
    BY <1>1, <1>2, <2>1 DEF Going, Splits
  <2>3. \A request \in errors' : Spared(request)'
    BY <1>1, <1>3 DEF Going, Spared
  <2> QED BY <1>1, <1>2, <1>3, <2>1, <2>2, <2>3 DEF Going
<1>4. CASE ~Spared(h)
  <2>1. pc' = "failed" /\ h \notin {"drain", "state"} /\ h \in errors'
    BY <1>1, <1>4 DEF Spared
  <2>2. call.tool = "query_pyroscope" => DOMAIN fetched' = {}
    <3>1. ASSUME call.tool = "query_pyroscope" PROVE \A r, q \in Range(Requests) : r = q
      BY <1>4, <3>1, RequestsAre DEF Spared
    <3>2. h \in Range(Requests) /\ DOMAIN fetched \subseteq Range(Requests) /\ h \notin DOMAIN fetched
      BY <1>2 DEF Going, Splits
    <3> QED BY <1>1, <3>1, <3>2
  <2> QED BY <1>1, <2>1, <2>2 DEF FailsRightly
<1> QED BY <1>3, <1>4

\* While others change rules, a call that reads one goes on.
LEMMA EditsGo == ASSUME Going, OtherEdits PROVE Going' /\ pc' = "asking"
<1>1. call.tool = "get_alert_rule" /\ pc = "asking" /\ UNCHANGED <<call, fetched, pc, todo, errors>>
  BY DEF OtherEdits
<1>2. FitsType' /\ Accepted'
  BY <1>1 DEF FitsType, Accepted, SqlTools, CloudWatchTools
<1>3. Requests' = Requests
  BY <1>1 DEF Requests, AsksForLogs
<1>4. \A request \in errors' : Spared(request)'
  BY <1>1 DEF Going, Spared
<1>5. \A request \in DOMAIN fetched : request \in {"rule", "state"}
  <2>1. Range(Requests) = {"rule", "state"}
    BY <1>1, RequestsAre DEF Asking, DashboardTools, RuleWrites
  <2> QED BY <2>1 DEF Going, Splits
<1> QED BY <1>1, <1>2, <1>3, <1>4, <1>5 DEF Going

LEMMA AskStep == CallInv /\ AskInv /\ StepsInv /\ [AllNext]_vars => AskInv'
<1> SUFFICES ASSUME CallInv, AskInv, StepsInv, [AllNext]_vars PROVE AskInv'
  OBVIOUS
<1>1. call' = call
  BY AllNextKeepsCall
<1>2. CASE call.tool \in RuleWrites
  <2>1. pc' \in {"called", "done", "failed"}
    <3>1. pc \in {"called", "done", "failed"} /\ call.tool \notin DashboardTools
      BY <1>2 DEF AskInv, RuleWrites, DashboardTools
    <3> QED BY <1>2, <3>1 DEF AllNext, Next, Fetch, Fail, Save, RunPanel, RunPanels, Preview,
              OtherSaves, Begin, Ask, AskFails, Reply, Write, Delete, OtherEdits, vars
  <2> QED BY <1>1, <1>2, <2>1, SMTT(30) DEF AskInv, Asking
<1>3. CASE call.tool \in DashboardTools
  BY <1>1, <1>3 DEF AskInv, Asking, DashboardTools, RuleWrites
<1>4. CASE Asking
  <2>0. Asking' /\ pc \in {"called", "asking", "done", "failed", "panicked"}
    BY <1>1, <1>4 DEF Asking, AskInv
  <2>1. CASE Begin
    <3>1. Going' /\ pc' = "asking"
      BY <1>4, <2>1, BeginGoes
    <3> QED BY <1>1, <1>4, <3>1 DEF AskInv, Asking
  <2>2. CASE Ask
    <3>1. Going' /\ pc' = "asking"
      BY <1>4, <2>2, AskGoes DEF AskInv, Ask
    <3> QED BY <1>1, <1>4, <3>1 DEF AskInv, Asking
  <2>3. CASE AskFails
    <3>1. (pc' = "asking" /\ Going') \/ (pc' = "failed" /\ FailsRightly')
      BY <1>4, <2>3, AskFailsGoes DEF AskInv, AskFails
    <3> QED BY <1>1, <1>4, <3>1 DEF AskInv, Asking
  <2>4. CASE OtherEdits
    <3>1. Going' /\ pc' = "asking"
      BY <1>4, <2>4, EditsGo DEF AskInv, OtherEdits
    <3> QED BY <1>1, <1>4, <3>1 DEF AskInv, Asking
  <2>5. CASE Reply
    <3>1. pc = "asking" /\ todo = <<>> /\ UNCHANGED <<call, stored, fetched, todo, errors, others>>
      BY <2>5 DEF Reply
    <3>2. PICK outcome \in Outcomes : results' = outcome.value /\ pc' = outcome.end
      BY <2>5 DEF Reply
    <3>3. Going
      BY <1>4, <3>1 DEF AskInv
    <3>4. EndsAsAsked(outcome)
      BY <1>4, <3>1, <3>3, EndOfCall
    <3>5. pc' \in {"done", "failed", "panicked"}
      BY <3>2, <3>4 DEF EndsAsAsked
    <3>6. Going'
      BY <3>1, <3>3 DEF Going, FitsType, Accepted, Requests, AsksForLogs, Templated, Spared
    <3>7. Outcomes' = Outcomes
      BY <3>1 DEF Outcomes, NothingLeft, Parts, Replies, Logs, CloudReplies, PrometheusReplies,
                  AsksForLogs, Cloud, WindowOf
    <3>8. pc' = "failed" => FailsRightly'
      <4>1. CASE call.tool = "query_pyroscope"
        BY <3>1, <3>2, <3>4, <4>1 DEF EndsAsAsked, FailsRightly
      <4>2. CASE call.tool = "get_alert_rule"
        BY <3>2, <3>4, <4>2 DEF EndsAsAsked
      <4>3. CASE call.tool \notin {"query_pyroscope", "get_alert_rule"}
        <5>1. CASE AsksForLogs
          BY <3>2, <3>4, <4>3, <5>1 DEF EndsAsAsked, EndsRightly
        <5>2. CASE ~AsksForLogs
          <6>1. errors \subseteq {"query"}
            BY <1>4, <3>3, <4>3, <5>2, RequestsAre DEF Going, Splits
          <6> QED BY <3>1, <4>3, <6>1 DEF FailsRightly
        <5> QED BY <5>1, <5>2
      <4> QED BY <4>1, <4>2, <4>3
    <3>9. todo' = <<>>
      BY <3>1
    <3> QED BY <1>4, <2>0, <3>2, <3>5, <3>6, <3>7, <3>8, <3>9 DEF AskInv, Asking
  <2>6. CASE Fail
    <3>1. pc = "called" /\ pc' = "failed" /\ fetched' = fetched
      BY <2>0, <2>6 DEF Fail
    <3> QED BY <1>1, <1>4, <3>1 DEF AskInv, FailsRightly, Asking
  <2>7. CASE UNCHANGED vars
    <3>1. Going' <=> Going
      BY <2>7 DEF vars, Going, FitsType, Accepted, Requests, AsksForLogs, Templated, Spared
    <3>2. Outcomes' = Outcomes
      BY <2>7 DEF vars, Outcomes, NothingLeft, Parts, Replies, Logs, CloudReplies, PrometheusReplies,
                  AsksForLogs, Cloud, WindowOf
    <3>3. FailsRightly' <=> FailsRightly
      BY <2>7 DEF vars, FailsRightly
    <3> QED BY <1>4, <2>0, <2>7, <3>1, <3>2, <3>3 DEF AskInv, vars, Asking
  <2> QED BY <1>4, <2>0, <2>1, <2>2, <2>3, <2>4, <2>5, <2>6, <2>7 DEF AllNext, Next, Fetch, Save, RunPanel,
            RunPanels, Preview, OtherSaves, Write, Delete, Asking, DashboardTools, RuleWrites
<1> QED BY <1>2, <1>3, <1>4 DEF Asking

\* Calls of the dashboard tools are as they were.
LEMMA DashboardStays == ToolsInv /\ [AllNext]_vars => DashboardInv'
<1> SUFFICES ASSUME ToolsInv, [AllNext]_vars PROVE DashboardInv'
  OBVIOUS
<1>1. CASE [Next]_vars
  BY <1>1, DashboardStep DEF ToolsInv
<1>2. CASE ~[Next]_vars
  <2>1. Begin \/ Ask \/ AskFails \/ Reply \/ Write \/ Delete \/ OtherEdits
    BY <1>2, SMTT(30) DEF AllNext
  <2>2. call.tool \notin DashboardTools
    <3>1. call.tool \in DashboardTools => pc # "asking"
      BY DEF ToolsInv, DashboardInv, StepsInv
    <3> QED BY <2>1, <3>1 DEF Begin, Ask, AskFails, Reply, Write, Delete, OtherEdits, DashboardTools
  <2>3. call'.tool \notin DashboardTools
    BY <2>2, AllNextKeepsCall
  <2> QED BY <2>3 DEF DashboardTools, ReadTools, DashboardInv, StepsInv, ReadInv, PanelsInv,
                      ResultsInv, PreviewInv
<1> QED BY <1>1, <1>2

-----------------------------------------------------------------------------
(* The detail of a rule *)

LEMMA PositionIs ==
    ASSUME NEW X, NEW rules \in Seq(X), NEW uid
    PROVE  LET p == Alert!PositionOf(rules, uid) IN
           \/ p = 0 /\ \A i \in DOMAIN rules : rules[i].uid # uid
           \/ p # 0 /\ p \in DOMAIN rules /\ rules[p].uid = uid
<1> DEFINE found == {i \in 1..Len(rules) : rules[i].uid = uid}
           p == Alert!PositionOf(rules, uid)
<1>1. p = IF found # {} THEN Min(found) ELSE 0
  BY AlertMin DEF Alert!PositionOf, Alert!SelectInSeq
<1>2. found \in SUBSET Nat /\ DOMAIN rules = 1..Len(rules)
  OBVIOUS
<1>3. found # {} => Min(found) \in found
  BY <1>2, MinOfPositions
<1> HIDE DEF p
<1>4. \/ p = 0 /\ \A i \in DOMAIN rules : rules[i].uid # uid
      \/ p # 0 /\ p \in DOMAIN rules /\ rules[p].uid = uid
  <2>1. CASE found = {}
    BY <1>1, <1>2, <2>1
  <2>2. CASE found # {}
    <3>1. p = Min(found) /\ p \in found
      BY <1>1, <1>3, <2>2
    <3> QED BY <1>2, <3>1
  <2> QED BY <2>1, <2>2
<1> QED BY <1>4 DEF p

\* The answer about the state of a rule is of that rule, and the rule is there if it
\* is in the folder and group that were asked about.
LEMMA StateFound ==
    ASSUME NEW X, NEW rules \in Seq(X), NEW uid, NEW folder, NEW group
    PROVE  LET opts == [folder |-> folder, group |-> group, limit |-> 0]
               answer == Alert!FindRuleInResponse(Alert!ServerRules(rules, opts), uid)
           IN /\ answer = Alert!NoRuntime \/ answer.uid = uid
              /\ (\E r \in Range(rules) : r.uid = uid /\ r.rule.folder = folder /\ r.rule.group = group)
                 => \E r \in Range(rules) : r.uid = uid /\ answer = [uid |-> uid, state |-> r.state]
<1> DEFINE opts == [folder |-> folder, group |-> group, limit |-> 0]
           set == {r \in Range(rules) : folder \in {"", r.rule.folder} /\ group \in {"", r.rule.group}}
           chosen == Alert!ServerRules(rules, opts)
           answer == Alert!FindRuleInResponse(chosen, uid)
           p == Alert!PositionOf(chosen, uid)
<1>1. chosen = Those(rules, set)
  <2>1. opts.folder = folder /\ opts.group = group /\ opts.limit = 0
    OBVIOUS
  <2>2. Alert!Range(rules) = Range(rules)
    BY DEF Alert!Range, Range
  <2> HIDE DEF opts
  <2>3. chosen = Alert!Those(rules, set)
    BY <2>1, <2>2 DEF Alert!ServerRules
  <2> QED BY <2>3, AlertThose
<1>3. answer = IF p = 0 THEN Alert!NoRuntime ELSE [uid |-> uid, state |-> chosen[p].state]
  BY DEF Alert!FindRuleInResponse
<1> HIDE DEF chosen, set
<1>2. chosen \in Seq(X) /\ Range(chosen) = Range(rules) \cap set
  BY <1>1, ThoseType
<1>4. \/ p = 0 /\ \A i \in DOMAIN chosen : chosen[i].uid # uid
      \/ p # 0 /\ p \in DOMAIN chosen /\ chosen[p].uid = uid
  BY <1>2, PositionIs
<1> HIDE DEF answer, p
<1>5. answer = Alert!NoRuntime \/ answer.uid = uid
  BY <1>3
<1>6. ASSUME NEW r \in Range(rules), r.uid = uid, r.rule.folder = folder, r.rule.group = group
      PROVE  \E q \in Range(rules) : q.uid = uid /\ answer = [uid |-> uid, state |-> q.state]
  <2>1. r \in Range(chosen)
    BY <1>2, <1>6 DEF set
  <2>2. p # 0 /\ p \in DOMAIN chosen /\ chosen[p].uid = uid
    BY <1>4, <1>6, <2>1 DEF Range
  <2>3. chosen[p] \in Range(rules)
    BY <1>2, <2>2 DEF Range
  <2> QED BY <1>3, <2>2, <2>3
<1>7. (\E r \in Range(rules) : r.uid = uid /\ r.rule.folder = folder /\ r.rule.group = group)
      => \E r \in Range(rules) : r.uid = uid /\ answer = [uid |-> uid, state |-> r.state]
  BY <1>6
<1> QED BY <1>5, <1>7 DEF answer, chosen

\* What a request for a rule or for its state adds.
LEMMA AskReads ==
    ASSUME CallInv, Going, RuleReads, StateComesLast, call.tool = "get_alert_rule", Ask
    PROVE  RuleReads' /\ StateComesLast'
<1> DEFINE h == Head(todo)
<1>1. /\ todo # <<>> /\ todo' = Tail(todo) /\ Answers(h)
      /\ fetched' = Over(Only(h, Returned(h)), fetched)
      /\ call' = call /\ stored' = stored /\ others' = others
  BY DEF Ask
<1>2. h \in Range(todo) /\ Range(todo') = Range(todo) \ {h} /\ todo' \in Seq(RequestNames)
      /\ IsInjective(todo')
  BY <1>1, TakeFirst DEF Going
<1>3. StateComesLast'
  <2>1. ASSUME todo' # <<>>, Head(todo') = "state" PROVE "rule" \notin Range(todo')
    <3>1. Head(todo') \in Range(todo')
      BY <1>2, <2>1, TakeFirst
    <3>2. h \in {"rule", "state"}
      <4>1. Range(Requests) = {"rule", "state"}
        BY RequestsAre DEF Asking, DashboardTools, RuleWrites
      <4> QED BY <4>1, <1>2 DEF Going, Splits
    <3> QED BY <1>1, <1>2, <2>1, <3>1, <3>2 DEF StateComesLast
  <2> QED BY <2>1 DEF StateComesLast
<1> DEFINE rules == stored.rules
           uid == call.uid
           X == Range(rules)
<1>4. rules \in Seq(X)
      /\ \A r \in X : "uid" \in DOMAIN r
  BY DEF CallInv, IsRules, IsList
<1>5. CASE h = "rule"
  <2>1. DOMAIN fetched' = {"rule"} \cup DOMAIN fetched /\ fetched'["rule"] = Returned("rule")
        /\ ("state" \in DOMAIN fetched => fetched'["state"] = fetched["state"])
    BY <1>1, <1>5 DEF Over, Only
  <2> DEFINE p == Alert!PositionOf(rules, uid)
  <2>2. Returned("rule") = rules[p] /\ p # 0
    BY <1>1, <1>5 DEF Returned, Answers, RuleAt
  <2>3. p \in DOMAIN rules /\ rules[p].uid = uid
    <3> HIDE DEF X
    <3> QED BY <1>4, <2>2, PositionIs
  <2> HIDE DEF p
  <2>4. Returned("rule") \in X /\ Returned("rule").uid = uid /\ "uid" \in DOMAIN Returned("rule")
    BY <1>4, <2>2, <2>3 DEF Range
  <2>5. "rule" \in DOMAIN fetched' =>
          /\ "uid" \in DOMAIN fetched'["rule"] /\ fetched'["rule"].uid = call'.uid
          /\ others' = 0 => fetched'["rule"] \in Range(stored'.rules)
    BY <1>1, <2>1, <2>4
  <2>6. "state" \in DOMAIN fetched' =>
          /\ fetched'["state"] = Alert!NoRuntime \/ fetched'["state"].uid = call'.uid
          /\ others' = 0 => \E r \in Range(stored'.rules) :
               r.uid = call'.uid /\ fetched'["state"] = [uid |-> call'.uid, state |-> r.state]
    <3>1. "state" \in DOMAIN fetched' => "state" \in DOMAIN fetched
      BY <2>1
    <3> QED BY <1>1, <2>1, <3>1 DEF RuleReads
  <2> QED BY <1>3, <2>5, <2>6 DEF RuleReads
<1>6. CASE h = "state"
  <2>1. "rule" \in DOMAIN fetched
    <3>1. Range(Requests) = {"rule", "state"}
      BY RequestsAre DEF Asking, DashboardTools, RuleWrites
    <3>2. "rule" \notin Range(todo) /\ "rule" \notin errors
      BY <1>1, <1>6 DEF StateComesLast, Going, Spared
    <3> QED BY <3>1, <3>2 DEF Going, Splits
  <2>2. DOMAIN fetched' = {"state"} \cup DOMAIN fetched /\ fetched'["state"] = Returned("state")
        /\ fetched'["rule"] = fetched["rule"]
    BY <1>1, <1>6, <2>1 DEF Over, Only
  <2> DEFINE folder == fetched["rule"].rule.folder
             group == fetched["rule"].rule.group
             opts == [folder |-> folder, group |-> group, limit |-> 0]
             answer == Alert!FindRuleInResponse(Alert!ServerRules(rules, opts), uid)
  <2>3. Returned("state") = answer
    BY DEF Returned
  <2>4. /\ answer = Alert!NoRuntime \/ answer.uid = uid
        /\ (\E r \in X : r.uid = uid /\ r.rule.folder = folder /\ r.rule.group = group)
           => \E r \in X : r.uid = uid /\ answer = [uid |-> uid, state |-> r.state]
    <3> DEFINE Y == X
    <3>1. rules \in Seq(Y)
      BY <1>4
    <3> HIDE DEF Y, folder, group, rules, uid
    <3> QED BY <3>1, StateFound DEF X
  <2> HIDE DEF answer
  <2>5. others = 0 => \E r \in X : r.uid = uid /\ answer = [uid |-> uid, state |-> r.state]
    BY <2>1, <2>4 DEF RuleReads
  <2>6. "state" \in DOMAIN fetched' =>
          /\ fetched'["state"] = Alert!NoRuntime \/ fetched'["state"].uid = call'.uid
          /\ others' = 0 => \E r \in Range(stored'.rules) :
               r.uid = call'.uid /\ fetched'["state"] = [uid |-> call'.uid, state |-> r.state]
    BY <1>1, <2>2, <2>3, <2>4, <2>5
  <2>7. "rule" \in DOMAIN fetched' =>
          /\ "uid" \in DOMAIN fetched'["rule"] /\ fetched'["rule"].uid = call'.uid
          /\ others' = 0 => fetched'["rule"] \in Range(stored'.rules)
    BY <1>1, <2>1, <2>2 DEF RuleReads
  <2> QED BY <1>3, <2>6, <2>7 DEF RuleReads
<1>7. h \in {"rule", "state"}
  <2>1. Range(Requests) = {"rule", "state"}
    BY RequestsAre DEF Asking, DashboardTools, RuleWrites
  <2> QED BY <1>2, <2>1 DEF Going, Splits
<1> QED BY <1>5, <1>6, <1>7

LEMMA RuleReadsStep == ToolsInv /\ [AllNext]_vars => RuleReadsInv'
<1> SUFFICES ASSUME ToolsInv, [AllNext]_vars, call.tool = "get_alert_rule",
                    pc' \in {"asking", "done"}
             PROVE  RuleReads' /\ StateComesLast'
  BY AllNextKeepsCall DEF RuleReadsInv
<1>1. call' = call /\ Asking
  BY AllNextKeepsCall DEF Asking, DashboardTools, RuleWrites
<1>2. CASE Begin
  <2>1. fetched' = <<>> /\ todo' = Requests
    BY <1>2 DEF Begin
  <2>2. DOMAIN fetched' = {}
    BY <2>1
  <2>3. Requests = <<"rule", "state">>
    BY DEF Requests, AsksForLogs
  <2>4. Head(todo') = "rule"
    BY <2>1, <2>3
  <2> QED BY <2>2, <2>4 DEF RuleReads, StateComesLast
<1>3. CASE Ask
  <2>1. pc = "asking"
    BY <1>3 DEF Ask
  <2>2. Going /\ RuleReads /\ StateComesLast
    BY <1>1, <2>1 DEF ToolsInv, AskInv, RuleReadsInv
  <2> QED BY <1>3, <2>2, AskReads DEF ToolsInv
<1>4. CASE AskFails
  <2>1. /\ pc = "asking" /\ todo # <<>> /\ todo' = Tail(todo)
        /\ fetched' = fetched /\ stored' = stored /\ others' = others
    BY <1>4 DEF AskFails
  <2>2. Going /\ RuleReads
    BY <1>1, <2>1 DEF ToolsInv, AskInv, RuleReadsInv
  <2>3. RuleReads'
    BY <1>1, <2>1, <2>2 DEF RuleReads
  <2>4. StateComesLast'
    <3>1. /\ todo' \in Seq(RequestNames) /\ IsInjective(todo')
          /\ Head(todo) \in Range(todo) /\ Range(todo') = Range(todo) \ {Head(todo)}
      BY <2>1, <2>2, TakeFirst DEF Going
    <3>2. Range(Requests) = {"rule", "state"}
      BY <1>1, RequestsAre
    <3>3. Head(todo) \in {"rule", "state"}
      BY <2>2, <3>1, <3>2 DEF Going, Splits
    <3>4. todo' # <<>> => Head(todo') \in Range(todo')
      BY <3>1, TakeFirst
    <3> QED BY <3>1, <3>3, <3>4 DEF StateComesLast
  <2> QED BY <2>3, <2>4
<1>5. CASE Reply
  <2>1. pc = "asking" /\ UNCHANGED <<call, stored, fetched, todo, others>>
    BY <1>5 DEF Reply
  <2>2. RuleReads /\ StateComesLast
    BY <2>1 DEF ToolsInv, RuleReadsInv
  <2> QED BY <2>1, <2>2 DEF RuleReads, StateComesLast
<1>6. CASE OtherEdits
  <2>1. pc = "asking" /\ fetched' = fetched /\ todo' = todo /\ others' = others + 1
    BY <1>6 DEF OtherEdits
  <2>2. others' # 0
    BY <2>1 DEF ToolsInv, CallInv
  <2>3. RuleReads /\ StateComesLast
    BY <2>1 DEF ToolsInv, RuleReadsInv
  <2>4. "rule" \in DOMAIN fetched' =>
          "uid" \in DOMAIN fetched'["rule"] /\ fetched'["rule"].uid = call'.uid
    BY <1>1, <2>1, <2>3 DEF RuleReads
  <2>5. "state" \in DOMAIN fetched' =>
          fetched'["state"] = Alert!NoRuntime \/ fetched'["state"].uid = call'.uid
    BY <1>1, <2>1, <2>3 DEF RuleReads
  <2> QED BY <2>1, <2>2, <2>3, <2>4, <2>5 DEF RuleReads, StateComesLast
<1>7. CASE UNCHANGED vars
  BY <1>7 DEF vars, ToolsInv, RuleReadsInv, RuleReads, StateComesLast
<1>8. CASE Next
  <2>1. pc \in {"called", "asking", "done", "failed", "panicked"}
    BY <1>1 DEF ToolsInv, AskInv
  <2> QED BY <1>8, <2>1 DEF Next, Fetch, Fail, Save, RunPanel, RunPanels, Preview, OtherSaves,
                        DashboardTools
<1> QED BY <1>2, <1>3, <1>4, <1>5, <1>6, <1>7, <1>8 DEF AllNext, Write, Delete

-----------------------------------------------------------------------------
(* Every state of every call *)

LEMMA ToolsStep == ToolsInv /\ [AllNext]_vars => ToolsInv'
<1> SUFFICES ASSUME ToolsInv, [AllNext]_vars PROVE ToolsInv'
  OBVIOUS
<1>1. DashboardInv' /\ RuleReadsInv'
  BY DashboardStays, RuleReadsStep
<1>2. CallInv' /\ AskInv'
  BY CallStep, AskStep DEF ToolsInv, DashboardInv
<1> QED BY <1>1, <1>2 DEF ToolsInv

LEMMA ToolsHold == AllSpec => []ToolsInv
<1>1. Init => ToolsInv
  BY DashboardInit, AskInit DEF ToolsInv
<1> QED BY <1>1, ToolsStep, PTL DEF AllSpec

LEMMA PatchStep == PatchInv /\ [AllNext]_vars => PatchInv'
<1> SUFFICES ASSUME PatchInv, [AllNext]_vars PROVE PatchInv'
  OBVIOUS
<1>1. CASE Begin
  BY <1>1 DEF Begin, PatchInv, DashboardTools
<1>2. CASE Ask \/ AskFails \/ OtherEdits \/ Reply
  <2>1. call.tool # "update_dashboard"
    BY <1>2 DEF Ask, AskFails, OtherEdits, Reply, PatchInv
  <2> QED BY <2>1, AllNextKeepsCall DEF PatchInv
<1>3. CASE Write \/ Delete
  BY <1>3 DEF Write, Delete, PatchInv
<1>4. CASE [Next]_vars
  BY <1>4, PatchNext
<1> QED BY <1>1, <1>2, <1>3, <1>4 DEF AllNext

LEMMA PatchHolds == AllSpec => []PatchInv
BY PatchInit, PatchStep, PTL DEF AllSpec

\* What update_dashboard saves has lost what was to be removed, and has all else in its
\* order, for arrays that no other operation concerns; it stays in its folder.
THEOREM PatchesHold == AllSpec => PatchKeepsRest
<1> DEFINE A == SavesWhatWasAsked
<1>1. PatchInv /\ [AllNext]_vars => [A]_vars
  BY PatchFollows
<1> HIDE DEF A
<1>2. AllSpec => [][A]_vars
  BY <1>1, PatchHolds, PTL DEF AllSpec
<1> QED BY <1>2 DEF A, PatchKeepsRest

\* A query goes to a datasource in the language of that datasource.
THEOREM RoutingHolds == AllSpec => []RoutedByType
<1>1. ToolsInv => RoutedByType
  BY RoutingFollows DEF ToolsInv
<1> QED BY <1>1, ToolsHold, PTL

\* Every reference to a variable is replaced once, in whichever order they come.
THEOREM SubstitutionHolds == AllSpec => []SubstitutedOnce
<1>1. ToolsInv => SubstitutedOnce
  BY SubstitutionFollows DEF ToolsInv
<1> QED BY <1>1, ToolsHold, PTL

\* What is shown of the queries of a panel is what is sent when the panel is run.
THEOREM ShowingHolds == AllSpec => []ShowsWhatRuns
<1>1. ToolsInv => ShowsWhatRuns
  BY ShowingFollows DEF ToolsInv
<1> QED BY <1>1, ToolsHold, PTL

-----------------------------------------------------------------------------
(* Failures *)

LEMMA Ended ==
    ASSUME ToolsInv, Asking, pc \in {"done", "panicked"}
    PROVE  /\ Going /\ todo = <<>>
           /\ \E outcome : EndsAsAsked(outcome) /\ results = outcome.value /\ pc = outcome.end
<1>1. Going /\ todo = <<>>
      /\ \E outcome \in Outcomes : results = outcome.value /\ pc = outcome.end
  BY DEF ToolsInv, AskInv
<1>2. \A outcome \in Outcomes : EndsAsAsked(outcome)
  BY <1>1, EndOfCall DEF ToolsInv
<1> QED BY <1>1, <1>2

LEMMA PartsFollow == ToolsInv => PartsTold
<1> SUFFICES ASSUME ToolsInv, Answered, call.tool = "query_pyroscope" PROVE
        /\ pc = "done" =>
             /\ DOMAIN results # {}
             /\ DOMAIN results \cap errors = {}
             /\ call.type \in {"", "both"} => DOMAIN results \cup errors = {"profile", "metrics"}
        /\ pc = "failed" => DOMAIN fetched = {}
  BY DEF PartsTold
<1>0. Asking /\ fetched # Unset
  BY DEF Answered, Asking
<1>1. ASSUME pc = "done"
      PROVE  /\ DOMAIN results # {}
             /\ DOMAIN results \cap errors = {}
             /\ call.type \in {"", "both"} => DOMAIN results \cup errors = {"profile", "metrics"}
  <2>1. Going /\ todo = <<>> /\ results = Parts /\ DOMAIN fetched # {}
    BY <1>0, <1>1, Ended DEF EndsAsAsked
  <2>2. DOMAIN results = DOMAIN fetched
    BY <2>1 DEF Parts
  <2>3. call.type \in {"", "both"} => Range(Requests) = {"profile", "metrics"}
    BY <1>0, RequestsAre
  <2>4. Range(todo) = {}
    BY <2>1, NamedRequests
  <2> QED BY <2>1, <2>2, <2>3, <2>4 DEF Going, Splits
<1>2. pc = "failed" => DOMAIN fetched = {}
  BY <1>0 DEF ToolsInv, AskInv, FailsRightly
<1> QED BY <1>1, <1>2

LEMMA AsidesFollow == ToolsInv => OnlyAsidesMissing
<1> SUFFICES ASSUME ToolsInv, Answered, call.tool # "query_pyroscope"
             PROVE  /\ pc = "done" => errors \subseteq {"drain", "state"}
                    /\ pc = "failed" => errors \notin {{"drain"}, {"state"}}
  BY DEF OnlyAsidesMissing
<1>1. Asking /\ fetched # Unset
  BY DEF Answered, Asking
<1>2. pc = "done" => \A request \in errors : request \in {"drain", "state"}
  BY <1>1, Ended DEF Going, Spared
<1>3. pc = "failed" => FailsRightly
  BY <1>1 DEF ToolsInv, AskInv
<1> QED BY <1>1, <1>2, <1>3 DEF FailsRightly

LEMMA BodyErrorsFollow == ToolsInv => BodyErrorsFail
<1> SUFFICES ASSUME ToolsInv, pc = "done",
                    call.tool = "query_cloudwatch" \/ (call.tool \in MetricQueryTools /\ Cloud)
             PROVE  ~(stored.answer.known /\ stored.answer.error)
  BY DEF BodyErrorsFail
<1>1. Asking /\ call.tool \notin {"get_alert_rule", "query_pyroscope"}
  BY DEF Asking, DashboardTools, RuleWrites, MetricQueryTools
<1>2. PICK outcome : EndsAsAsked(outcome) /\ outcome.end = "done"
  BY <1>1, Ended
<1>3. EndsRightly(outcome, stored)
  BY <1>1, <1>2 DEF EndsAsAsked
<1> QED BY <1>2, <1>3 DEF EndsRightly

LEMMA PanicsFollow == ToolsInv => PanicsExplained
<1> SUFFICES ASSUME ToolsInv, pc = "panicked" PROVE PanicsExplained
  BY DEF PanicsExplained
<1>1. Asking
  BY DEF ToolsInv, DashboardInv, StepsInv, AskInv, Asking
<1>2. PICK outcome : EndsAsAsked(outcome) /\ outcome.end = "panicked"
  BY <1>1, Ended
<1>3. EndsRightly(outcome, stored)
  BY <1>2 DEF EndsAsAsked
<1> QED BY <1>2, <1>3 DEF EndsRightly, PanicsExplained, ShortColumn

\* A failure costs what could not be had and nothing else, and calls crash only over
\* arguments and answers that are known.
THEOREM FailuresStayApart == AllSpec => []FailuresContained
<1>1. ToolsInv => FailuresContained
  BY OutcomesFollow, PartsFollow, AsidesFollow, BodyErrorsFollow, PanicsFollow
     DEF ToolsInv, FailuresContained
<1> QED BY <1>1, ToolsHold, PTL

-----------------------------------------------------------------------------
(* The detail of a rule *)

LEMMA DetailFollows == ToolsInv => DetailOfOneRule
<1> SUFFICES ASSUME ToolsInv, call.tool = "get_alert_rule", pc = "done"
    PROVE  /\ results.config.uid = call.uid
           /\ results.of = call.uid
           /\ "state" \in errors => results.state = ""
           /\ others = 0 /\ errors = {} =>
                \E r \in Range(stored.rules) :
                   r.uid = call.uid /\ results.state = Alert!NormalizeState(r.state)
  BY DEF DetailOfOneRule
<1>1. Asking
  BY DEF Asking, DashboardTools, RuleWrites
<1>2. Going /\ todo = <<>> /\ RuleReads
  BY <1>1, Ended DEF ToolsInv, RuleReadsInv
<1>3. Range(Requests) = {"rule", "state"} /\ Range(todo) = {}
  BY <1>1, <1>2, RequestsAre, NamedRequests
<1>4. "rule" \in DOMAIN fetched /\ (errors = {} => "state" \in DOMAIN fetched)
  BY <1>2, <1>3 DEF Going, Splits, Spared
<1> DEFINE rule == fetched["rule"]
           state == IF "state" \in DOMAIN fetched THEN fetched["state"] ELSE Alert!NoRuntime
<1>5. results = Alert!MergeRuleDetail(rule, state)
  <2>1. Outcomes = {Alert!Done(Alert!MergeRuleDetail(rule, state))}
    BY DEF Outcomes, NothingLeft
  <2>2. \E outcome \in Outcomes : results = outcome.value
    BY <1>1 DEF ToolsInv, AskInv
  <2> HIDE DEF rule, state
  <2> QED BY <2>1, <2>2, EndOf
<1>6. "uid" \in DOMAIN rule /\ rule.uid = call.uid
  BY <1>2, <1>4 DEF RuleReads
<1>7. state = Alert!NoRuntime \/ state.uid = call.uid
  BY <1>2 DEF RuleReads
<1>8. others = 0 /\ errors = {} => \E r \in Range(stored.rules) :
        r.uid = call.uid /\ state = [uid |-> call.uid, state |-> r.state]
  BY <1>2, <1>4 DEF RuleReads
<1>11. "state" \in errors => state = Alert!NoRuntime
  BY <1>2 DEF Going, Splits
<1> HIDE DEF rule, state
<1>9. /\ results.config.uid = rule.uid
      /\ results.of = IF state = Alert!NoRuntime THEN rule.uid ELSE state.uid
      /\ results.state = IF state = Alert!NoRuntime THEN "" ELSE Alert!NormalizeState(state.state)
  BY <1>5, <1>6 DEF Alert!MergeRuleDetail
<1>10. ASSUME NEW r, state = [uid |-> call.uid, state |-> r.state]
       PROVE  results.state = Alert!NormalizeState(r.state)
  <2>1. state.state = r.state
    BY <1>10
  <2>2. Alert!NoRuntime.state = ""
    BY DEF Alert!NoRuntime
  <2> QED BY <1>9, <2>1, <2>2 DEF Alert!NormalizeState
<1> QED BY <1>6, <1>7, <1>8, <1>9, <1>10, <1>11

\* The detail of a rule is of that rule, with its own state or none, none when
\* that could not be read, and complete when nobody interfered.
THEOREM DetailHolds == AllSpec => []DetailOfOneRule
<1> QED BY DetailFollows, ToolsHold, PTL

-----------------------------------------------------------------------------
(* Windows *)

\* A window of the last hour is turned around by times that are, or by an end that
\* is long ago.
Backward == call.start > call.end \/ (call.start = 0 /\ call.end < Now - Hour)
LEMMA HourForward ==
    ASSUME call.start \in Nat, call.end \in Nat, NEW window,
           window.from = IF call.start = 0 THEN Now - Hour ELSE call.start,
           window.to = IF call.end = 0 THEN Now ELSE call.end
    PROVE  window.from <= window.to \/ Backward
BY WindowAssumption DEF Backward

LEMMA WindowFollows == ToolsInv => WindowForward
<1> SUFFICES ASSUME ToolsInv, pc = "asking", "start" \in DOMAIN call
    PROVE  \/ WindowOf.from <= WindowOf.to
           \/ /\ call.tool \notin PyroscopeTools
              /\ ~(Cloud /\ call.tool = "query_prometheus")
              /\ Backward
  BY DEF WindowForward, Backward
<1>1. Asking /\ Accepted
  <2>1. Asking
    BY DEF ToolsInv, DashboardInv, StepsInv, AskInv, Asking
  <2> QED BY <2>1 DEF ToolsInv, AskInv, Going
<1>2. call.start \in Nat /\ call.end \in Nat
  <2>1. \E kind \in Calls : \E start \in kind : call = start.call
    BY DEF ToolsInv, CallInv
  <2> QED BY <2>1, ArgumentsAssumption
<1>3. Now \in Nat /\ Hour \in Nat /\ Now > Hour
  BY WindowAssumption
<1>4. CASE AsksForLogs
  <2>1. WindowOf = Loki!Window(call) /\ call.tool \notin PyroscopeTools /\ call.tool # "query_prometheus"
    BY <1>4 DEF WindowOf, AsksForLogs, PyroscopeTools
  <2>2. \/ WindowOf.from = WindowOf.to /\ WindowOf.from \in Nat
        \/ /\ WindowOf.from = IF call.start = 0 THEN Now - Hour ELSE call.start
           /\ WindowOf.to = IF call.end = 0 THEN Now ELSE call.end
    BY <1>2, <1>3, <2>1 DEF Loki!Window, Loki!Given, Loki!NoTime
  <2> QED BY <1>2, <2>1, <2>2, HourForward
<1>5. CASE ~AsksForLogs /\ call.tool \in {"query_clickhouse", "search_logs"}
  <2>1. WindowOf = Sql!TimeRange(call)
    BY <1>5 DEF WindowOf, PyroscopeTools
  <2>2. /\ WindowOf.from = IF call.start = 0 THEN Now - Hour ELSE call.start
        /\ WindowOf.to = IF call.end = 0 THEN Now ELSE call.end
    BY <2>1 DEF Sql!TimeRange, Sql!NoTime
  <2> QED BY <1>2, <1>5, <2>2, HourForward DEF PyroscopeTools
<1>6. CASE call.tool = "query_prometheus"
  <2> DEFINE window == Alert!PrometheusWindow(call)
  <2>1. WindowOf = IF Cloud THEN Alert!CloudWindow(window) ELSE window
    BY <1>6 DEF WindowOf, AsksForLogs, PyroscopeTools
  <2>2. window.from \in {0, call.start} /\ window.to = call.end
    BY DEF Alert!PrometheusWindow, Alert!Window, Alert!NoTime
  <2> HIDE DEF window
  <2>3. CASE Cloud
    <3>1. WindowOf = Alert!CloudWindow(window)
      BY <2>1, <2>3
    <3>2. WindowOf.from <= WindowOf.to
      BY <1>2, <2>2, <3>1 DEF Alert!CloudWindow, Alert!Given, Alert!Window, Alert!NoTime
    <3> QED BY <3>2
  <2>4. CASE ~Cloud
    BY <1>2, <1>6, <2>1, <2>2, <2>4 DEF Backward, PyroscopeTools
  <2> QED BY <2>3, <2>4
<1>7. CASE call.tool = "query_prometheus_histogram"
  <2>1. WindowOf = Alert!PrometheusWindow(Alert!HistogramCall(call))
    BY <1>7 DEF WindowOf, AsksForLogs, PyroscopeTools
  <2>2. /\ WindowOf.from = IF call.start = 0 THEN Now - Hour ELSE call.start
        /\ WindowOf.to = IF call.end = 0 THEN Now ELSE call.end
    BY <2>1 DEF Alert!PrometheusWindow, Alert!HistogramCall, Alert!QueryType, Alert!Window,
                Alert!Given, Alert!NoTime
  <2> QED BY <1>2, <1>7, <2>2, HourForward DEF PyroscopeTools
<1>8. CASE call.tool \in {"list_prometheus_label_names", "list_prometheus_label_values",
                          "list_loki_labels", "query_cloudwatch"}
  <2>1. WindowOf = Alert!LastHour(call) \/ WindowOf = Alert!Window(call.start, call.end)
    BY <1>8 DEF WindowOf, AsksForLogs, PyroscopeTools
  <2>2. \/ WindowOf.from = call.start /\ WindowOf.to = call.end
        \/ /\ WindowOf.from = IF call.start = 0 THEN Now - Hour ELSE call.start
           /\ WindowOf.to = IF call.end = 0 THEN Now ELSE call.end
    BY <2>1 DEF Alert!LastHour, Alert!Window, Alert!Given, Alert!NoTime
  <2>3. WindowOf.from <= WindowOf.to \/ Backward
    BY <1>2, <2>2, HourForward DEF Backward
  <2> QED BY <1>8, <2>3 DEF PyroscopeTools
<1>9. CASE call.tool \in PyroscopeTools
  <2>1. WindowOf = Alert!PyroscopeWindow(call)
    BY <1>9 DEF WindowOf, AsksForLogs, PyroscopeTools
  <2>2. Alert!ValidateTimeRange(Alert!PyroscopeWindow(call))
    BY <1>1, <1>9 DEF Accepted, PyroscopeTools
  <2>3. WindowOf.from \in Int /\ WindowOf.to \in Int
    BY <1>2, <1>3, <2>1 DEF Alert!PyroscopeWindow, Alert!Window, Alert!Given, Alert!NoTime
  <2> QED BY <2>1, <2>2, <2>3 DEF Alert!ValidateTimeRange
<1>10. CASE ~AsksForLogs /\ call.tool \notin PyroscopeTools \cup
              {"query_clickhouse", "search_logs", "query_prometheus", "query_prometheus_histogram",
               "list_prometheus_label_names", "list_prometheus_label_values",
               "list_loki_labels", "query_cloudwatch"}
  <2>1. WindowOf = Alert!Window(Now, Now)
    BY <1>10 DEF WindowOf, PyroscopeTools
  <2> QED BY <1>3, <2>1 DEF Alert!Window
<1> QED BY <1>4, <1>5, <1>6, <1>7, <1>8, <1>9, <1>10

\* A window that is asked for ends before it starts only as the caller states it.
THEOREM WindowsHold == AllSpec => []WindowForward
<1> QED BY WindowFollows, ToolsHold, PTL

-----------------------------------------------------------------------------
(* Queries of ClickHouse *)

LEMMA SqlMin == ASSUME NEW S PROVE Sql!Min(S) = Min(S)
BY DEF Sql!Min, Min

\* What is in lists one after the other is in one of them.
LEMMA FlattenOnly ==
    ASSUME NEW n \in Nat, NEW seqs, seqs = [i \in 1..n |-> seqs[i]], \A i \in 1..n : IsList(seqs[i])
    PROVE  /\ IsList(FlattenSeq(seqs))
           /\ \A p \in Range(FlattenSeq(seqs)) : \E i \in 1..n : p \in Range(seqs[i])
<1> DEFINE U == UNION {Range(seqs[i]) : i \in 1..n}
           flat == FlattenSeq(seqs)
<1>1. \A i \in 1..n : seqs[i] \in Seq(U)
  <2>1. ASSUME NEW i \in 1..n PROVE seqs[i] \in Seq(U)
    <3>1. Range(seqs[i]) \subseteq U
      OBVIOUS
    <3> HIDE DEF U
    <3>2. \A k \in DOMAIN seqs[i] : seqs[i][k] \in U
      BY <3>1 DEF Range
    <3>3. Len(seqs[i]) \in Nat /\ DOMAIN seqs[i] = 1..Len(seqs[i]) /\ seqs[i] = [k \in 1..Len(seqs[i]) |-> seqs[i][k]]
      BY DEF IsList
    <3> QED BY <3>2, <3>3
  <2> QED BY <2>1
<1>2. \A p \in U : \E i \in 1..n : p \in Range(seqs[i])
  OBVIOUS
<1> HIDE DEF U
<1>3. seqs \in Seq(Seq(U))
  <2>1. seqs \in [1..n -> Seq(U)]
    BY <1>1
  <2> QED BY <2>1
<1>4. flat \in Seq(U)
  BY <1>3, FlattenType
<1> HIDE DEF flat
<1>5. Range(flat) \subseteq U /\ flat \in Seq(Range(flat))
  BY <1>4 DEF Range
<1> QED BY <1>2, <1>5 DEF flat, IsList

LEMMA SqlFlatten == ASSUME NEW seqs PROVE Sql!FlattenSeq(seqs) = FlattenSeq(seqs)
BY DEF Sql!FlattenSeq, FlattenSeq

LEMMA ShortLists ==
    ASSUME NEW x, NEW y
    PROVE  /\ IsList(<<x>>) /\ Range(<<x>>) = {x}
           /\ IsList(<<x, y>>) /\ Range(<<x, y>>) = {x, y}
<1>1. ASSUME NEW f, NEW n \in Nat, f \in [1..n -> {x, y}], Range(f) \subseteq {x, y} PROVE IsList(f)
  <2>1. f \in [1..n -> Range(f)]
    BY <1>1 DEF Range
  <2> HIDE DEF Range
  <2> QED BY <2>1 DEF IsList
<1> DEFINE one == <<x>>
           two == <<x, y>>
<1>2. one \in [1..1 -> {x, y}] /\ one[1] = x /\ DOMAIN one = 1..1
  OBVIOUS
<1>3. two \in [1..2 -> {x, y}] /\ two[1] = x /\ two[2] = y /\ DOMAIN two = 1..2
  OBVIOUS
<1> HIDE DEF one, two
<1>4. Range(one) = {x} /\ Range(two) = {x, y}
  BY <1>2, <1>3 DEF Range
<1>5. IsList(one) /\ IsList(two)
  <2>1. 1 \in Nat /\ 2 \in Nat
    OBVIOUS
  <2> QED BY <1>1, <1>2, <1>3, <1>4, <2>1
<1> QED BY <1>4, <1>5 DEF one, two

\* What is written of a part of a query.
LEMMA MacroParts ==
    ASSUME NEW part, NEW range
    PROVE  LET new == Sql!SubstituteMacro(part, range) IN
           /\ IsList(new)
           /\ \A p \in Range(new) :
                p = part \/ p = Sql!Between(range) \/ p.kind \in {"number", "text"}
<1> DEFINE new == Sql!SubstituteMacro(part, range)
<1> DEFINE Numbers(l) == \E n : l = <<Sql!Number(n)>> \/ \E x : l = <<Sql!Number(n), Sql!Text(x)>>
<1>1. \/ new = <<part>> \/ new = <<Sql!Between(range)>>
      \/ Numbers(new)
  <2>1. \A n, rest : Numbers(Sql!After(Sql!Number(n), rest)) /\ Numbers(<<Sql!Number(n)>>)
    BY DEF Sql!After
  <2> HIDE DEF Numbers
  <2>2. CASE part.kind # "macro"
    BY <2>2 DEF Sql!SubstituteMacro
  <2>3. CASE part.kind = "macro" /\ part.name \notin {"timeFilter", "from", "to", "interval"}
    BY <2>3 DEF Sql!SubstituteMacro
  <2>4. CASE part.kind = "macro" /\ part.name = "timeFilter" /\ part.rest = ""
    BY <2>4 DEF Sql!SubstituteMacro
  <2>8. CASE part.kind = "macro" /\ part.name = "timeFilter" /\ part.rest # ""
    BY <2>8 DEF Sql!SubstituteMacro
  <2>5. CASE part.kind = "macro" /\ part.name = "from"
    BY <2>1, <2>5 DEF Sql!SubstituteMacro
  <2>6. CASE part.kind = "macro" /\ part.name = "to"
    BY <2>1, <2>6 DEF Sql!SubstituteMacro
  <2>7. CASE part.kind = "macro" /\ part.name = "interval"
    <3>1. new = IF part.rest = "_ms" THEN <<Sql!Number(1000 * Sql!Interval(range))>>
                ELSE Sql!After(Sql!Number(Sql!Interval(range)), part.rest)
      BY <2>7 DEF Sql!SubstituteMacro
    <3> DEFINE thousandth == 1000 * Sql!Interval(range)
               whole == Sql!Interval(range)
               rest == part.rest
    <3> HIDE DEF new, thousandth, whole, rest
    <3>2. Numbers(<<Sql!Number(thousandth)>>) /\ Numbers(Sql!After(Sql!Number(whole), rest))
      BY <2>1, Zenon
    <3> QED BY <3>1, <3>2 DEF thousandth, whole, rest
  <2> HIDE DEF new
  <2> QED BY <2>2, <2>3, <2>4, <2>5, <2>6, <2>7, <2>8
<1>2. \A n : Sql!Number(n).kind = "number" /\ Sql!Text(n).kind = "text"
  BY DEF Sql!Number, Sql!Text
<1> HIDE DEF new
<1>3. CASE new = <<part>> \/ new = <<Sql!Between(range)>>
  <2>1. \A x : IsList(<<x>>) /\ Range(<<x>>) = {x}
    BY ShortLists, Zenon
  <2>2. CASE new = <<part>>
    <3>1. IsList(new) /\ Range(new) = {part}
      BY <2>1, <2>2
    <3> QED BY <3>1 DEF new
  <2>3. CASE new = <<Sql!Between(range)>>
    <3> DEFINE x == Sql!Between(range)
    <3>1. new = <<x>>
      BY <2>3
    <3> HIDE DEF x
    <3>2. IsList(new) /\ Range(new) = {x}
      BY <2>1, <3>1
    <3> QED BY <3>2 DEF new, x
  <2> QED BY <1>3, <2>2, <2>3
<1>4. ASSUME NEW n, new = <<Sql!Number(n)>> \/ \E x : new = <<Sql!Number(n), Sql!Text(x)>>
      PROVE  IsList(new) /\ \A p \in Range(new) : p.kind \in {"number", "text"}
  <2> DEFINE a == Sql!Number(n)
  <2>0. a.kind = "number"
    BY <1>2
  <2>1. CASE new = <<a>>
    <3> HIDE DEF a
    <3>1. IsList(new) /\ Range(new) = {a}
      BY <2>1, ShortLists
    <3> QED BY <2>0, <3>1
  <2>2. ASSUME NEW x, new = <<a, Sql!Text(x)>>
        PROVE  IsList(new) /\ \A p \in Range(new) : p.kind \in {"number", "text"}
    <3> DEFINE b == Sql!Text(x)
    <3>1. b.kind = "text" /\ new = <<a, b>>
      BY <1>2, <2>2
    <3> HIDE DEF a, b
    <3>2. IsList(new) /\ Range(new) = {a, b}
      BY <3>1, ShortLists
    <3> QED BY <2>0, <3>1, <3>2
  <2> QED BY <1>4, <2>1, <2>2
<1>5. Numbers(new) => IsList(new) /\ \A p \in Range(new) : p.kind \in {"number", "text"}
  BY <1>4
<1> HIDE DEF Numbers
<1> QED BY <1>1, <1>3, <1>5 DEF new

LEMMA QueryParts ==
    ASSUME NEW query, IsQuery(query)
    PROVE  IsList(query) /\ \A p \in Range(query) :
               p.kind # "between" /\ (p.kind = "limit" => p \in Sql!LimitParts)
BY DEF IsQuery, Sql!IsLimit

\* The parts of a query before its limit is enforced.
Substituted(c) ==
    Sql!SubstituteVariables(
        Sql!SubstituteClickHouseMacros(c.query, Sql!TimeRange(c)), c.vars)
LEMMA SubstitutedParts ==
    ASSUME NEW c, IsQuery(c.query), \A n \in DOMAIN c.vars : IsQuery(c.vars[n])
    PROVE  /\ IsList(Substituted(c))
           /\ \A p \in Range(Substituted(c)) :
                /\ p.kind = "between" => p = Sql!Between(Sql!TimeRange(c))
                /\ p.kind = "limit" =>
                     /\ p \in Sql!LimitParts
                     /\ p \in Range(c.query) \/ \E n \in DOMAIN c.vars : p \in Range(c.vars[n])
<1> DEFINE range == Sql!TimeRange(c)
           first == [i \in DOMAIN c.query |-> Sql!SubstituteMacro(c.query[i], range)]
           query == Sql!SubstituteClickHouseMacros(c.query, range)
           second == [i \in DOMAIN query |-> IF query[i].kind = "var" /\ query[i].name \in DOMAIN c.vars
                                             THEN c.vars[query[i].name] ELSE <<query[i]>>]
           new == Substituted(c)
           Fine(p) == /\ p.kind = "between" => p = Sql!Between(range)
                      /\ p.kind = "limit" =>
                           /\ p \in Sql!LimitParts
                           /\ p \in Range(c.query) \/ \E n \in DOMAIN c.vars : p \in Range(c.vars[n])
<1>1. query = FlattenSeq(first) /\ new = FlattenSeq(second)
  BY SqlFlatten DEF Sql!SubstituteClickHouseMacros, Sql!SubstituteVariables, Substituted
<1>2. IsList(query) /\ \A p \in Range(query) : Fine(p)
  <2>1. Len(c.query) \in Nat /\ DOMAIN c.query = 1..Len(c.query)
    BY DEF IsQuery, IsList
  <2>2. ASSUME NEW i \in 1..Len(c.query)
        PROVE  IsList(first[i]) /\ \A p \in Range(first[i]) : Fine(p)
    <3>1. first[i] = Sql!SubstituteMacro(c.query[i], range) /\ c.query[i] \in Range(c.query)
      BY <2>1 DEF Range
    <3>2. Fine(c.query[i])
      BY <3>1, QueryParts
    <3>3. Sql!Between(range).kind = "between"
      BY DEF Sql!Between
    <3> HIDE DEF first, range
    <3> QED BY <3>1, <3>2, <3>3, MacroParts
  <2>3. first = [i \in 1..Len(c.query) |-> first[i]]
    BY <2>1
  <2> HIDE DEF first, Fine, query
  <2> QED BY <1>1, <2>1, <2>2, <2>3, FlattenOnly
<1>3. IsList(new) /\ \A p \in Range(new) : Fine(p)
  <2>1. Len(query) \in Nat /\ DOMAIN query = 1..Len(query)
    BY <1>2 DEF IsList
  <2>2. ASSUME NEW i \in 1..Len(query)
        PROVE  IsList(second[i]) /\ \A p \in Range(second[i]) : Fine(p)
    <3>1. query[i] \in Range(query)
      BY <2>1 DEF Range
    <3>4. \/ \E n \in DOMAIN c.vars : second[i] = c.vars[n]
          \/ second[i] = <<query[i]>>
      BY <2>1
    <3> HIDE DEF query, second, Fine
    <3>2. CASE \E n \in DOMAIN c.vars : second[i] = c.vars[n]
      <4>1. PICK n \in DOMAIN c.vars : second[i] = c.vars[n]
        BY <3>2
      <4> QED BY <4>1, QueryParts DEF Fine
    <3>3. CASE second[i] = <<query[i]>>
      BY <1>2, <3>1, <3>3, ShortLists
    <3> QED BY <3>2, <3>3, <3>4
  <2>3. second = [i \in 1..Len(query) |-> second[i]]
    BY <2>1
  <2> HIDE DEF second, Fine, query, new
  <2> QED BY <1>1, <2>1, <2>2, <2>3, FlattenOnly
<1> QED BY <1>3

\* Rows are no more than a limit of the query lets through.
LEMMA RowsAtMost ==
    ASSUME NEW query, IsList(query), \A p \in Range(query) : p.kind = "limit" => p \in Sql!LimitParts,
           NEW rows \in Nat, NEW p \in Range(query), p.kind = "limit", p.of = "query",
           NEW most \in Nat, (IF p.second = Sql!None THEN p.first ELSE p.second) <= most
    PROVE  Sql!Rows(query, rows) <= most /\ Sql!Rows(query, rows) \in Nat
<1> DEFINE Value(q) == IF q.second = Sql!None THEN q.first ELSE q.second
           S == {Value(query[i]) : i \in {j \in DOMAIN query : Sql!IsLimit(query[j]) /\ query[j].of = "query"}}
           all == S \cup {rows}
<1>1. Sql!Rows(query, rows) = Min(all)
  BY SqlMin DEF Sql!Rows
<1>2. \A q \in Sql!LimitParts : Value(q) \in Nat
  BY DEF Sql!LimitParts
<1>3. PICK i \in DOMAIN query : p = query[i]
  BY DEF Range
<1>4. \A j \in DOMAIN query : Sql!IsLimit(query[j]) => Value(query[j]) \in Nat
  BY <1>2 DEF Range, Sql!IsLimit
<1>5. Value(p) \in S
  BY <1>3 DEF Sql!IsLimit
<1>6. Value(p) <= most
  OBVIOUS
<1>7. all \in SUBSET Nat /\ Value(p) \in all
  BY <1>4, <1>5
<1> DEFINE v == Value(p)
<1>9. v \in all /\ v <= most
  BY <1>6, <1>7
<1> HIDE DEF Value, all, v
<1>8. Min(all) \in all /\ Min(all) <= v
  BY <1>7, <1>9, MinOfPositions
<1> DEFINE least == Min(all)
<1>10. least \in Nat /\ v \in Nat /\ least <= v
  BY <1>7, <1>8, <1>9
<1> HIDE DEF least
<1>11. least <= most
  BY <1>9, <1>10
<1> QED BY <1>1, <1>10, <1>11 DEF least

LEMMA EnforcedParts ==
    ASSUME NEW query, IsList(query), \A p \in Range(query) : p.kind = "limit" => p \in Sql!LimitParts,
           NEW requested \in Int, NEW rows \in Nat
    PROVE  LET new == Sql!EnforceClickHouseLimit(query, requested) IN
           /\ (\A p \in Range(new) : p.kind = "limit" => p.of = "query" /\ p.second = Sql!None)
              => Sql!Rows(new, rows) <= MaxRows
           /\ (\A p \in Range(query) : p.kind # "limit") =>
                Sql!Rows(new, rows) <= IF requested > 0 THEN requested ELSE DefaultRows
           /\ \A p \in Range(new) : p.kind = "between" => p \in Range(query)
<1> DEFINE new == Sql!EnforceClickHouseLimit(query, requested)
           default == IF requested <= 0 THEN DefaultRows ELSE requested
           limit == Sql!Min({MaxRows, default})
           last == Sql!Limit("query", limit, Sql!None)
           one(p) == IF p.kind = "limit" THEN [p EXCEPT !.first = Sql!Min({@, MaxRows})] ELSE p
<1>1. MaxRows \in Nat /\ default \in Nat /\ default = IF requested > 0 THEN requested ELSE DefaultRows
  BY RowsAssumption
<1>2. limit \in Nat /\ limit <= MaxRows /\ limit <= default
  BY <1>1, SqlMin, MinPair
<1>3. query \in Seq(Range(query)) /\ DOMAIN query = 1..Len(query) /\ Len(query) \in Nat
  BY DEF IsList
<1>4. CASE \E i \in DOMAIN query : Sql!IsLimit(query[i])
  <2>1. new = [i \in DOMAIN query |-> one(query[i])]
    BY <1>4 DEF Sql!EnforceClickHouseLimit, Sql!IsLimit
  <2>2. ASSUME NEW p \in Sql!LimitParts
        PROVE  one(p) \in Sql!LimitParts /\ one(p).first <= MaxRows /\ one(p).kind = "limit"
    <3> DEFINE m == Sql!Min({p.first, MaxRows})
    <3>1. p.first \in Nat /\ p.kind = "limit"
      BY <2>2 DEF Sql!LimitParts
    <3>2. m \in Nat /\ m <= MaxRows
      BY <1>1, <3>1, SqlMin, MinPair
    <3>3. one(p) = [p EXCEPT !.first = m]
      BY <3>1
    <3> HIDE DEF m, one
    <3> QED BY <3>1, <3>2, <3>3 DEF Sql!LimitParts
  <2>3. \A p \in Range(query) : p.kind # "limit" => one(p) = p
    OBVIOUS
  <2> HIDE DEF one
  <2>4. Range(new) = {one(p) : p \in Range(query)}
    BY <2>1 DEF Range
  <2>5. \A p \in Range(new) : p.kind = "limit" => p \in Sql!LimitParts /\ p.first <= MaxRows
    BY <2>2, <2>3, <2>4
  <2>6. PICK p \in Range(new) : p.kind = "limit"
    <3>1. PICK q \in Range(query) : q.kind = "limit"
      BY <1>4 DEF Sql!IsLimit, Range
    <3> QED BY <2>2, <2>4, <3>1
  <2>7. IsList(new)
    BY <1>3, <2>1 DEF IsList, Range
  <2> HIDE DEF new
  <2>8. p.of = "query" /\ p.second = Sql!None => Sql!Rows(new, rows) <= MaxRows
    BY <1>1, <2>5, <2>6, <2>7, RowsAtMost
  <2>9. \A q \in Range(new) : q.kind = "between" => q \in Range(query)
    BY <2>2, <2>3, <2>4
  <2>10. ~(\A q \in Range(query) : q.kind # "limit")
    BY <1>4 DEF Sql!IsLimit, Range
  <2> QED BY <2>6, <2>8, <2>9, <2>10 DEF new
<1>5. CASE ~\E i \in DOMAIN query : Sql!IsLimit(query[i])
  <2>1. new = Append(query, last)
    BY <1>5 DEF Sql!EnforceClickHouseLimit
  <2>2. /\ last = [kind |-> "limit", of |-> "query", first |-> limit, second |-> 0]
        /\ Sql!None = 0 /\ limit \in Nat /\ 0 \in Nat 
    BY <1>2 DEF Sql!Limit, Sql!None
  <2> HIDE DEF limit, last
  <2>3. last \in Sql!LimitParts /\ last.kind = "limit" /\ last.of = "query" /\ last.first = limit
        /\ last.second = Sql!None
    BY <2>2 DEF Sql!LimitParts
  <2> DEFINE X == Range(query) \cup {last}
  <2>4. query \in Seq(X) /\ last \in X
    BY <1>3
  <2> HIDE DEF X, new
  <2>5. Range(new) = Range(query) \cup {last} /\ new \in Seq(X)
    BY <2>1, <2>4, RangeAppend
  <2>6. IsList(new)
    BY <2>5 DEF IsList, X
  <2>7. \A p \in Range(new) : p.kind = "limit" => p \in Sql!LimitParts
    BY <2>3, <2>5
  <2>8. Sql!Rows(new, rows) <= limit /\ Sql!Rows(new, rows) \in Nat
    BY <1>2, <2>3, <2>5, <2>6, <2>7, RowsAtMost
  <2>10. \A p \in Range(new) : p.kind = "between" => p \in Range(query)
    BY <2>3, <2>5
  <2> HIDE DEF default
  <2> QED BY <1>1, <1>2, <2>8, <2>10 DEF new, default
<1> QED BY <1>4, <1>5

\* What is asked of ClickHouse and how many rows come of it.
LEMMA QueryBounded ==
    ASSUME NEW c, IsQuery(c.query), \A n \in DOMAIN c.vars : IsQuery(c.vars[n]), c.limit \in Int,
           NEW rows \in Nat
    PROVE  LET r == Sql!QueryClickHouse(c, rows) IN
           /\ (\A p \in Range(r.query) : p.kind = "limit" => p.of = "query" /\ p.second = Sql!None)
              => r.rowCount <= MaxRows
           /\ NoLimitIn(Range(c.query) \cup UNION {Range(c.vars[n]) : n \in DOMAIN c.vars}) =>
                r.rowCount <= IF c.limit > 0 THEN c.limit ELSE DefaultRows
           /\ \A p \in Range(r.query) :
                p.kind = "between" => p.from = r.range.from /\ p.to = r.range.to
<1> DEFINE r == Sql!QueryClickHouse(c, rows)
           before == Substituted(c)
           new == Sql!EnforceClickHouseLimit(before, c.limit)
           range == Sql!TimeRange(c)
           Fine(p) == /\ p.kind = "between" => p = Sql!Between(range)
                      /\ p.kind = "limit" =>
                           /\ p \in Sql!LimitParts
                           /\ p \in Range(c.query) \/ \E n \in DOMAIN c.vars : p \in Range(c.vars[n])
<1>1. r.query = new /\ r.rowCount = Sql!Rows(new, rows) /\ r.range = range
  BY DEF Sql!QueryClickHouse, Sql!ProcessedQuery, Substituted
<1>2. IsList(before) /\ \A p \in Range(before) : Fine(p)
  BY SubstitutedParts
<1>3. Sql!Between(range).from = range.from /\ Sql!Between(range).to = range.to
  BY DEF Sql!Between
<1>4. NoLimitIn(Range(c.query) \cup UNION {Range(c.vars[n]) : n \in DOMAIN c.vars})
      => \A p \in Range(before) : p.kind # "limit"
  BY <1>2 DEF NoLimitIn, Sql!IsLimit
<1>5. \A p \in Range(before) : p.kind = "limit" => p \in Sql!LimitParts
  BY <1>2
<1>6. \A p \in Range(before) : p.kind = "between" => p.from = range.from /\ p.to = range.to
  BY <1>2, <1>3
<1> HIDE DEF before, range, Fine
<1>7. /\ (\A p \in Range(new) : p.kind = "limit" => p.of = "query" /\ p.second = Sql!None)
          => Sql!Rows(new, rows) <= MaxRows
      /\ (\A p \in Range(before) : p.kind # "limit") =>
           Sql!Rows(new, rows) <= IF c.limit > 0 THEN c.limit ELSE DefaultRows
      /\ \A p \in Range(new) : p.kind = "between" => p \in Range(before)
  <2> DEFINE requested == c.limit
  <2>1. requested \in Int
    OBVIOUS
  <2> HIDE DEF requested
  <2> QED BY <1>2, <1>5, <2>1, EnforcedParts DEF requested
<1> HIDE DEF new, r
<1> QED BY <1>1, <1>4, <1>6, <1>7 DEF r

LEMMA JoinedLists ==
    ASSUME NEW s, IsList(s), NEW t, IsList(t)
    PROVE  IsList(s \o t) /\ Range(s \o t) = Range(s) \cup Range(t)
<1> DEFINE X == Range(s) \cup Range(t)
           n == Len(s)
           both == s \o t
<1>1. s \in Seq(X) /\ t \in Seq(X)
  BY DEF IsList
<1>2. n \in Nat /\ DOMAIN s = 1..n /\ DOMAIN t = 1..Len(t) /\ Len(t) \in Nat
  BY DEF IsList
<1>3. /\ both \in Seq(X) /\ DOMAIN both = 1..n + Len(t)
      /\ \A i \in 1..n : both[i] = s[i]
      /\ \A i \in 1..Len(t) : both[n + i] = t[i]
  <2> HIDE DEF X
  <2> QED BY <1>1, <1>2
<1> HIDE DEF both
<1>4. Range(both) \subseteq X
  <2> HIDE DEF X
  <2> QED BY <1>3 DEF Range
<1>5. \A i \in 1..n : i \in DOMAIN both
  BY <1>2, <1>3
<1>6. \A i \in 1..Len(t) : n + i \in DOMAIN both
  BY <1>2, <1>3
<1>7. X \subseteq Range(both)
  <2>1. ASSUME NEW x \in Range(s) PROVE x \in Range(both)
    BY <1>2, <1>3, <1>5 DEF Range
  <2>2. ASSUME NEW x \in Range(t) PROVE x \in Range(both)
    <3>1. PICK i \in 1..Len(t) : x = t[i]
      BY <1>2 DEF Range
    <3>2. x = both[n + i]
      BY <1>3, <3>1
    <3> QED BY <1>6, <3>2 DEF Range
  <2> QED BY <2>1, <2>2
<1> HIDE DEF X
<1>8. Range(both) = X
  BY <1>4, <1>7
<1> QED BY <1>3, <1>8 DEF both, X, IsList

\* Queries that the tools themselves write.
LEMMA OwnQueries ==
           /\ IsQuery(Sql!SystemQuery(call).query) /\ Sql!SystemQuery(call).vars = <<>>
           /\ Sql!SystemQuery(call).limit \in Int
           /\ call.limit \in Int /\ IsQuery(call.pattern) =>
                /\ IsQuery(Sql!SearchQuery(call).query) /\ Sql!SearchQuery(call).vars = <<>>
                /\ Sql!SearchQuery(call).limit \in Int
<1>1. \A n \in Nat : /\ Sql!Limit("query", n, Sql!None) \in Sql!LimitParts
                     /\ Sql!Limit("query", n, Sql!None).kind = "limit"
  BY DEF Sql!Limit, Sql!LimitParts, Sql!None
<1>2. \A x : Sql!Text(x).kind = "text"
  BY DEF Sql!Text
<1>3. Sql!Macro("timeFilter", "").kind = "macro"
  BY DEF Sql!Macro
<1>4. IsQuery(<<>>)
  <2>1. IsList(<<>>) /\ Range(<<>>) = {}
    BY DEF IsList, Range
  <2> QED BY <2>1 DEF IsQuery
<1>5. MaxRows \in Nat /\ DefaultRows \in Nat
  BY RowsAssumption
<1>6. IsQuery(Sql!SystemQuery(call).query)
  <2> DEFINE names == IF call.tool = "describe_clickhouse_table"
                      THEN <<IF call.database = "" THEN "default" ELSE call.database, call.table>>
                      ELSE IF call.database = "" THEN <<>> ELSE <<call.database>>
             texts == [i \in DOMAIN names |-> Sql!Text(names[i])]
             limit == IF call.tool = "list_clickhouse_tables"
                      THEN <<Sql!Limit("query", MaxRows, Sql!None)>> ELSE <<>>
  <2>1. Sql!SystemQuery(call).query = texts \o limit
    BY DEF Sql!SystemQuery
  <2>2. IsQuery(limit)
    <3> DEFINE part == Sql!Limit("query", MaxRows, Sql!None)
    <3>1. part \in Sql!LimitParts /\ part.kind = "limit"
      BY <1>1, <1>5
    <3>2. limit = <<part>> \/ limit = <<>>
      OBVIOUS
    <3> HIDE DEF part, limit
    <3>3. IsList(<<part>>) /\ Range(<<part>>) = {part}
      BY ShortLists
    <3>4. IsQuery(<<part>>)
      BY <3>1, <3>3 DEF IsQuery
    <3> QED BY <1>4, <3>2, <3>4
  <2>3. IsList(names)
    <3>1. IsList(<<>>)
      BY <1>4 DEF IsQuery
    <3>2. \A x, y : IsList(<<x>>) /\ IsList(<<x, y>>)
      BY ShortLists, Zenon
    <3>3. names = <<>> \/ \E x, y : names \in {<<x>>, <<x, y>>}
      OBVIOUS
    <3> HIDE DEF names
    <3> QED BY <3>1, <3>2, <3>3
  <2> HIDE DEF names
  <2>4. IsQuery(texts)
    <3>1. DOMAIN texts = 1..Len(names) /\ Len(names) \in Nat /\ \A i \in DOMAIN texts : texts[i].kind = "text"
      BY <1>2, <2>3 DEF IsList
    <3>2. texts = [i \in 1..Len(names) |-> texts[i]]
      BY <3>1
    <3> HIDE DEF texts
    <3>3. texts \in [1..Len(names) -> Range(texts)]
      BY <3>1, <3>2 DEF Range
    <3>4. IsList(texts)
      BY <3>1, <3>3 DEF IsList
    <3> QED BY <3>1, <3>4 DEF IsQuery, Range, Sql!IsLimit
  <2> HIDE DEF texts, limit
  <2>5. IsList(texts \o limit) /\ Range(texts \o limit) = Range(texts) \cup Range(limit)
    BY <2>2, <2>4, JoinedLists DEF IsQuery
  <2> QED BY <2>1, <2>2, <2>4, <2>5 DEF IsQuery
<1>7. Sql!SystemQuery(call).vars = <<>> /\ Sql!SystemQuery(call).limit = MaxRows
  BY DEF Sql!SystemQuery
<1>8. ASSUME call.limit \in Int, IsQuery(call.pattern)
      PROVE  /\ IsQuery(Sql!SearchQuery(call).query) /\ Sql!SearchQuery(call).vars = <<>>
             /\ Sql!SearchQuery(call).limit \in Int
  <2> DEFINE n == Sql!EnforceSearchLogsLimit(call.limit)
             macro == Sql!Macro("timeFilter", "")
             limit == Sql!Limit("query", n, Sql!None)
             pattern == call.pattern
             tail == <<macro, limit>>
  <2>1. n \in Nat
    <3> DEFINE default == IF call.limit <= 0 THEN DefaultRows ELSE call.limit
    <3>1. default \in Nat
      BY <1>5, <1>8
    <3>2. n = Sql!Min({MaxRows, default})
      BY DEF Sql!EnforceSearchLogsLimit
    <3> HIDE DEF default, n
    <3> QED BY <1>5, <3>1, <3>2, SqlMin, MinPair
  <2>2. Sql!SearchQuery(call).query = pattern \o tail /\ Sql!SearchQuery(call).vars = <<>>
        /\ Sql!SearchQuery(call).limit = n
    BY DEF Sql!SearchQuery
  <2> HIDE DEF n
  <2>3. limit \in Sql!LimitParts /\ limit.kind = "limit" /\ macro.kind = "macro"
    BY <1>1, <1>3, <2>1
  <2> HIDE DEF macro, limit
  <2>4. IsList(tail) /\ Range(tail) = {macro, limit}
    BY ShortLists
  <2> HIDE DEF tail
  <2>5. IsList(pattern \o tail) /\ Range(pattern \o tail) = Range(pattern) \cup Range(tail)
    BY <1>8, <2>4, JoinedLists DEF IsQuery
  <2>6. IsQuery(pattern \o tail)
    BY <1>8, <2>3, <2>4, <2>5 DEF IsQuery, Sql!IsLimit
  <2> QED BY <2>1, <2>2, <2>6
<1> QED BY <1>5, <1>6, <1>7, <1>8

LEMMA SqlFollows == ToolsInv => SqlBounded
<1> SUFFICES ASSUME ToolsInv, pc = "done", call.tool \in SqlTools \cup {"search_logs"},
                    stored.type = "clickhouse"
             PROVE  SqlBounded
  BY DEF SqlBounded
<1>1. Asking /\ ~AsksForLogs /\ call.tool \notin {"get_alert_rule", "query_pyroscope"}
  BY DEF Asking, SqlTools, DashboardTools, RuleWrites, AsksForLogs
<1>2. PICK kind \in Calls : \E start \in kind : call = start.call /\ stored = start.stored
  BY <1>1, StartedAsk DEF ToolsInv
<1>3. /\ call.tool \in {"query_clickhouse", "search_logs"} => call.limit \in Int
      /\ call.tool = "query_clickhouse" =>
           IsQuery(call.query) /\ \A n \in DOMAIN call.vars : IsQuery(call.vars[n])
      /\ call.tool = "search_logs" => IsQuery(call.pattern)
      /\ stored.rows \in Nat
  BY <1>2, ArgumentsAssumption
<1>4. \E outcome \in Replies(stored) : results = outcome.value
  <2>1. Going /\ todo = <<>> /\ \E outcome \in Outcomes : results = outcome.value
    BY <1>1 DEF ToolsInv, AskInv
  <2> QED BY <1>1, <2>1, EndOfCall DEF ToolsInv
<1> DEFINE c == IF call.tool = "search_logs" THEN Sql!SearchQuery(call)
                ELSE IF call.tool = "query_clickhouse" THEN call ELSE Sql!SystemQuery(call)
<1>5. results = Sql!QueryClickHouse(c, stored.rows)
  <2>1. Replies(stored) = {Alert!Done(Sql!QueryClickHouse(c, stored.rows))}
    <3>1. CASE call.tool = "search_logs"
      BY <1>1, <3>1 DEF Replies, SqlTools, PrometheusTools,
         CloudWatchTools
    <3>2. CASE call.tool = "query_clickhouse"
      BY <1>1, <3>2 DEF Replies, SqlTools, PrometheusTools,
         CloudWatchTools
    <3>3. CASE call.tool \in SqlTools \ {"query_clickhouse"}
      BY <1>1, <3>3 DEF Replies, SqlTools, PrometheusTools,
         CloudWatchTools
    <3> QED BY <3>1, <3>2, <3>3
  <2> HIDE DEF c
  <2> QED BY <1>4, <2>1, EndOf
<1>6. c.limit \in Int /\ IsQuery(c.query) /\ \A n \in DOMAIN c.vars : IsQuery(c.vars[n])
  <2>1. DOMAIN <<>> = {}
    OBVIOUS
  <2>2. CASE call.tool = "search_logs"
    BY <1>3, <2>1, <2>2, OwnQueries
  <2>3. CASE call.tool = "query_clickhouse"
    BY <1>3, <2>3
  <2>4. CASE call.tool \in SqlTools \ {"query_clickhouse"}
    BY <2>1, <2>4, OwnQueries DEF SqlTools
  <2> QED BY <2>2, <2>3, <2>4
<1>7. call.tool = "query_clickhouse" => c = call
  OBVIOUS
<1> DEFINE query == results.query
           limits == {query[i] : i \in {j \in DOMAIN query : Sql!IsLimit(query[j])}}
<1> HIDE DEF c
<1>8. /\ (\A p \in Range(query) : p.kind = "limit" => p.of = "query" /\ p.second = Sql!None)
         => results.rowCount <= MaxRows
      /\ NoLimitIn(Range(c.query) \cup UNION {Range(c.vars[n]) : n \in DOMAIN c.vars}) =>
           results.rowCount <= IF c.limit > 0 THEN c.limit ELSE DefaultRows
      /\ \A p \in Range(query) :
           p.kind = "between" => p.from = results.range.from /\ p.to = results.range.to
  BY <1>3, <1>5, <1>6, QueryBounded
<1>9. \A p \in Range(query) : p.kind = "limit" => p \in limits
  BY DEF Range, Sql!IsLimit
<1>10. (\A l \in limits : l.of = "query" /\ l.second = Sql!None) => results.rowCount <= MaxRows
  <2> HIDE DEF limits, query
  <2> QED BY <1>8, <1>9
<1>11. call.tool = "query_clickhouse" /\ NoLimitIn(Range(call.query) \cup UNION {Range(call.vars[n]) : n \in DOMAIN call.vars}) =>
          results.rowCount <= IF call.limit > 0 THEN call.limit ELSE DefaultRows
  BY <1>7, <1>8
<1> QED BY <1>8, <1>10, <1>11 DEF SqlBounded

\* A query returns no more rows than the maximum, or than the caller's limit, and its
\* macros speak of the window that is sent along.
THEOREM SqlHolds == AllSpec => []SqlBounded
<1> QED BY SqlFollows, ToolsHold, PTL

-----------------------------------------------------------------------------
(* Lists of rules *)

\* The elements of the beginning of a list that pass a test are the beginning of
\* those of the whole list.
LEMMA ThosePrefix ==
    ASSUME NEW X, NEW set, NEW list \in Seq(X), NEW m \in 0..Len(list)
    PROVE  LET few == Those(SubSeq(list, 1, m), set)
               all == Those(list, set)
           IN /\ Len(few) <= Len(all) /\ Len(all) <= Len(list)
              /\ \A i \in 1..Len(few) : few[i] = all[i]
<1> DEFINE few(t, k) == Those(SubSeq(t, 1, k), set)
           Begins(t, k) == /\ Len(few(t, k)) <= Len(Those(t, set))
                           /\ \A i \in 1..Len(few(t, k)) : few(t, k)[i] = Those(t, set)[i]
           S == {t \in Seq(X) : Len(Those(t, set)) <= Len(t) /\ \A k \in 0..Len(t) : Begins(t, k)}
<1>1. <<>> \in S
  <2>1. SubSeq(<<>>, 1, 0) = <<>> /\ Len(<<>>) = 0 /\ <<>> \in Seq(X)
    OBVIOUS
  <2>2. \A k \in 0..0 : few(<<>>, k) = <<>>
    <3>1. \A k \in 0..0 : k = 0
      OBVIOUS
    <3> QED BY <2>1, <3>1, ThoseEmpty
  <2> HIDE DEF few
  <2>3. \A k \in 0..0 : Begins(<<>>, k)
    BY <2>1, <2>2, ThoseEmpty
  <2> QED BY <2>1, <2>3, ThoseEmpty
<1>2. ASSUME NEW t \in Seq(X), NEW x \in X, t \in S PROVE Append(t, x) \in S
  <2> DEFINE new == Append(t, x)
             those == Those(t, set)
             one == One(x, set)
  <2>1. new \in Seq(X) /\ Len(new) = Len(t) + 1 /\ Len(t) \in Nat
    OBVIOUS
  <2>2. Those(new, set) = those \o one
    BY ThoseAppend
  <2>3. those \in Seq(X) /\ one \in Seq(X) /\ Len(one) <= 1
    BY ThoseType DEF One
  <2>4. \A k \in 0..Len(t) : SubSeq(new, 1, k) = SubSeq(t, 1, k)
    OBVIOUS
  <2>5. SubSeq(new, 1, Len(new)) = new
    BY <2>1
  <2>6. Len(those) <= Len(t) /\ \A k \in 0..Len(t) : Begins(t, k)
    BY <1>2
  <2>7. Len(Those(new, set)) <= Len(new)
    <3> HIDE DEF those, one, new
    <3> QED BY <2>1, <2>2, <2>3, <2>6
  <2>8. ASSUME NEW k \in 0..Len(t) PROVE Begins(new, k)
    <3>1. few(new, k) = few(t, k) /\ few(t, k) \in Seq(X)
      <4>1. SubSeq(t, 1, k) \in Seq(X)
        OBVIOUS
      <4> QED BY <2>4, <4>1, ThoseType
    <3>2. Begins(t, k)
      BY <2>6
    <3> HIDE DEF few, those, one, new
    <3>3. Len(few(t, k)) <= Len(those) /\ \A i \in 1..Len(few(t, k)) : few(t, k)[i] = those[i]
      BY <3>2 DEF those
    <3>4. \A i \in 1..Len(those) : (those \o one)[i] = those[i]
      BY <2>3
    <3> QED BY <2>2, <2>3, <3>1, <3>3, <3>4
  <2>9. Begins(new, Len(new))
    <3>1. few(new, Len(new)) = Those(new, set) /\ Those(new, set) \in Seq(X)
      BY <2>1, <2>5, ThoseType
    <3> HIDE DEF few, new
    <3> QED BY <3>1
  <2> HIDE DEF Begins, new
  <2>10. \A k \in 0..Len(new) : Begins(new, k)
    BY <2>1, <2>8, <2>9
  <2> QED BY <2>1, <2>7, <2>10 DEF new
<1>3. \A t \in Seq(X) : t \in S
  <2> HIDE DEF S
  <2> QED BY <1>1, <1>2, SeqInd
<1> QED BY <1>3

\* One test after the other is both tests.
LEMMA ThoseTwice ==
    ASSUME NEW X, NEW p, NEW q, NEW list \in Seq(X)
    PROVE  Those(Those(list, p), q) = Those(list, p \cap q)
<1> DEFINE S == {t \in Seq(X) : Those(Those(t, p), q) = Those(t, p \cap q)}
<1>1. <<>> \in S
  BY ThoseEmpty
<1>2. ASSUME NEW t \in Seq(X), NEW x \in X, t \in S PROVE Append(t, x) \in S
  <2>1. Those(Append(t, x), p) = Those(t, p) \o One(x, p)
    BY ThoseAppend
  <2>2. Those(Append(t, x), p \cap q) = Those(t, p \cap q) \o One(x, p \cap q)
    BY ThoseAppend
  <2>3. Those(t, p) \in Seq(X) /\ Those(t, p \cap q) \in Seq(X)
    BY ThoseType
  <2>4. CASE x \in p
    <3>1. Those(t, p) \o One(x, p) = Append(Those(t, p), x)
      BY <2>3, <2>4 DEF One
    <3>2. Those(Append(Those(t, p), x), q) = Those(Those(t, p), q) \o One(x, q)
      BY <2>3, ThoseAppend
    <3>3. One(x, q) = One(x, p \cap q)
      BY <2>4 DEF One
    <3>4. Append(t, x) \in Seq(X) /\ Those(Those(t, p), q) = Those(t, p \cap q)
      BY <1>2
    <3>5. Those(Those(Append(t, x), p), q) = Those(Append(t, x), p \cap q)
      BY <2>1, <2>2, <3>1, <3>2, <3>3, <3>4, Zenon
    <3> QED BY <3>4, <3>5
  <2>5. CASE x \notin p
    <3>1. One(x, p) = <<>> /\ One(x, p \cap q) = <<>>
      BY <2>5 DEF One
    <3>2. Those(t, p) \o <<>> = Those(t, p) /\ Those(t, p \cap q) \o <<>> = Those(t, p \cap q)
      BY <2>3
    <3>3. Append(t, x) \in Seq(X) /\ Those(Those(t, p), q) = Those(t, p \cap q)
      BY <1>2
    <3>4. Those(Those(Append(t, x), p), q) = Those(Append(t, x), p \cap q)
      BY <2>1, <2>2, <3>1, <3>2, <3>3, Zenon
    <3> QED BY <3>3, <3>4
  <2> QED BY <2>4, <2>5
<1>3. \A t \in Seq(X) : t \in S
  <2> HIDE DEF S
  <2> QED BY <1>1, <1>2, SeqInd
<1> QED BY <1>3

\* Two tests with the same results on a list leave the same of it.
LEMMA ThoseSame ==
    ASSUME NEW p, NEW q, NEW list, \A x \in Range(list) : x \in p <=> x \in q
    PROVE  Those(list, p) = Those(list, q)
<1>1. \A i \in DOMAIN list : list[i] \in p <=> list[i] \in q
  BY DEF Range
<1>2. [i \in DOMAIN list |-> IF list[i] \in p THEN <<list[i]>> ELSE <<>>]
        = [i \in DOMAIN list |-> IF list[i] \in q THEN <<list[i]>> ELSE <<>>]
  BY <1>1
<1> QED BY <1>2 DEF Those

\* A rule as lists show it.
Shown(rule) == [rule EXCEPT !.state = Alert!NormalizeState(@)]
AllShown(rules) == [i \in DOMAIN rules |-> Shown(rules[i])]

\* A test that looks alike at rules and at what is shown of them.
LEMMA ThoseShown ==
    ASSUME NEW X, NEW p, NEW q, NEW list \in Seq(X), \A x \in X : x \in p <=> Shown(x) \in q
    PROVE  Those(AllShown(list), q) = AllShown(Those(list, p))
<1> DEFINE Y == {Shown(x) : x \in X}
           S == {t \in Seq(X) : Those(AllShown(t), q) = AllShown(Those(t, p))}
<1>1. <<>> \in S
  <2>1. AllShown(<<>>) = <<>> /\ <<>> \in Seq(X)
    BY DEF AllShown
  <2> QED BY <2>1, ThoseEmpty
<1>2. \A t \in Seq(X) : AllShown(t) \in Seq(Y)
  BY DEF AllShown
<1>3. \A t \in Seq(X), x \in X : AllShown(Append(t, x)) = Append(AllShown(t), Shown(x))
  <2> TAKE t \in Seq(X), x \in X
  <2> DEFINE new == Append(t, x)
             shown == Append(AllShown(t), Shown(x))
             n == Len(t)
  <2>1. n \in Nat /\ DOMAIN t = 1..n /\ DOMAIN new = 1..n + 1 /\ new[n + 1] = x
        /\ \A i \in 1..n : new[i] = t[i]
    OBVIOUS
  <2>2. AllShown(t) \in Seq(Y) /\ Len(AllShown(t)) = n /\ \A i \in 1..n : AllShown(t)[i] = Shown(t[i])
    BY <1>2, <2>1 DEF AllShown
  <2>3. shown = [i \in 1..n + 1 |-> IF i = n + 1 THEN Shown(x) ELSE AllShown(t)[i]]
    <3>1. shown \in Seq(Y) /\ Len(shown) = n + 1 /\ shown[n + 1] = Shown(x)
          /\ \A i \in 1..n : shown[i] = AllShown(t)[i]
      <4> DEFINE seq == AllShown(t)
                 y == Shown(x)
      <4>1. seq \in Seq(Y) /\ Len(seq) = n /\ y \in Y
        BY <2>2
      <4> HIDE DEF seq, y, Y, n
      <4>2. Append(seq, y) \in Seq(Y) /\ Len(Append(seq, y)) = Len(seq) + 1
            /\ Append(seq, y)[Len(seq) + 1] = y
            /\ \A i \in 1..Len(seq) : Append(seq, y)[i] = seq[i]
        BY <4>1
      <4> QED BY <4>1, <4>2 DEF seq, y
    <3> HIDE DEF Y, shown, n
    <3>2. shown = [i \in 1..Len(shown) |-> shown[i]]
      BY <3>1
    <3>3. \A i \in 1..n + 1 : shown[i] = IF i = n + 1 THEN Shown(x) ELSE AllShown(t)[i]
      BY <2>1, <3>1
    <3> QED BY <3>1, <3>2, <3>3
  <2>4. AllShown(new) = [i \in 1..n + 1 |-> Shown(new[i])]
    BY <2>1 DEF AllShown
  <2> HIDE DEF new, shown, n
  <2>5. \A i \in 1..n + 1 : Shown(new[i]) = IF i = n + 1 THEN Shown(x) ELSE AllShown(t)[i]
    BY <2>1, <2>2
  <2> QED BY <2>3, <2>4, <2>5 DEF new, shown
<1>4. ASSUME NEW t \in Seq(X), NEW x \in X, t \in S PROVE Append(t, x) \in S
  <2>1. Those(Append(AllShown(t), Shown(x)), q) = Those(AllShown(t), q) \o One(Shown(x), q)
    <3>1. AllShown(t) \in Seq(Y) /\ Shown(x) \in Y
      BY <1>2
    <3> HIDE DEF Y
    <3> QED BY <3>1, ThoseAppend
  <2>2. Those(Append(t, x), p) = Those(t, p) \o One(x, p) /\ Those(t, p) \in Seq(X)
    BY ThoseAppend, ThoseType
  <2>3. AllShown(Those(t, p)) \in Seq(Y)
    BY <1>2, <2>2
  <2>4. CASE x \in p
    <3>1. Those(t, p) \o One(x, p) = Append(Those(t, p), x)
      BY <2>2, <2>4 DEF One
    <3>2. One(Shown(x), q) = <<Shown(x)>>
      BY <2>4 DEF One
    <3>3. AllShown(Those(t, p)) \o <<Shown(x)>> = Append(AllShown(Those(t, p)), Shown(x))
      <4>1. Shown(x) \in Y
        OBVIOUS
      <4> HIDE DEF Y
      <4> QED BY <2>3, <4>1
    <3>4. Append(t, x) \in Seq(X) /\ Those(AllShown(t), q) = AllShown(Those(t, p))
          /\ AllShown(Append(t, x)) = Append(AllShown(t), Shown(x))
          /\ AllShown(Append(Those(t, p), x)) = Append(AllShown(Those(t, p)), Shown(x))
      BY <1>3, <1>4, <2>2
    <3>5. Those(AllShown(Append(t, x)), q) = AllShown(Those(Append(t, x), p))
      BY <2>1, <2>2, <3>1, <3>2, <3>3, <3>4, Zenon
    <3> QED BY <3>4, <3>5
  <2>5. CASE x \notin p
    <3>1. One(x, p) = <<>> /\ One(Shown(x), q) = <<>>
      BY <2>5 DEF One
    <3>2. Those(t, p) \o <<>> = Those(t, p)
      BY <2>2
    <3>3. AllShown(Those(t, p)) \o <<>> = AllShown(Those(t, p))
      <4> HIDE DEF Y
      <4> QED BY <2>3
    <3>4. Append(t, x) \in Seq(X) /\ Those(AllShown(t), q) = AllShown(Those(t, p))
          /\ AllShown(Append(t, x)) = Append(AllShown(t), Shown(x))
      BY <1>3, <1>4
    <3>5. Those(AllShown(Append(t, x)), q) = AllShown(Those(Append(t, x), p))
      BY <2>1, <2>2, <3>1, <3>2, <3>3, <3>4, Zenon
    <3> QED BY <3>4, <3>5
  <2> QED BY <2>4, <2>5
<1>5. \A t \in Seq(X) : t \in S
  <2> HIDE DEF S
  <2> QED BY <1>1, <1>4, SeqInd
<1> QED BY <1>5

\* Grafana sends whole groups: the beginning of the rules of a folder and group, and
\* all of them when they are within the limit.
LEMMA ServerSends ==
    ASSUME NEW rules, IsList(rules), NEW opts, opts.limit \in Nat
    PROVE  LET counted == Those(rules, {r \in Range(rules) : /\ opts.folder \in {"", r.rule.folder}
                                                             /\ opts.group \in {"", r.rule.group}})
           IN /\ \E m \in 0..Len(counted) : Alert!ServerRules(rules, opts) = SubSeq(counted, 1, m)
              /\ opts.limit = 0 \/ Len(counted) <= opts.limit =>
                   Alert!ServerRules(rules, opts) = counted
<1> DEFINE set == {r \in Range(rules) : /\ opts.folder \in {"", r.rule.folder}
                                       /\ opts.group \in {"", r.rule.group}}
           counted == Those(rules, set)
           n == Len(counted)
           GroupOf(r) == <<r.rule.folder, r.rule.group>>
           Near(i) == {j \in 1..i : \A k \in j..i : GroupOf(counted[k]) = GroupOf(counted[i])}
           sent == {i \in DOMAIN counted : i - Cardinality(Near(i)) < opts.limit}
           server == Alert!ServerRules(rules, opts)
<1>1. server = IF opts.limit = 0 THEN counted ELSE SubSeq(counted, 1, Max({0} \cup sent))
  <2>1. Alert!Range(rules) = Range(rules)
    BY DEF Alert!Range, Range
  <2>2. Alert!Max({0} \cup sent) = Max({0} \cup sent)
    BY DEF Alert!Max, Max
  <2>3. Alert!Those(rules, set) = counted
    BY AlertThose
  <2>4. \A S : Alert!Cardinality(S) = Cardinality(S)
    BY DEF Alert!Cardinality, Cardinality
  <2>5. server = LET chosen == Alert!Those(rules, {r \in Alert!Range(rules) :
                                  /\ opts.folder \in {"", r.rule.folder}
                                  /\ opts.group \in {"", r.rule.group}}) IN
                 IF opts.limit = 0 THEN chosen
                 ELSE SubSeq(chosen, 1, Alert!Max({0} \cup {i \in DOMAIN chosen :
                        i - Alert!Cardinality({j \in 1..i : \A k \in j..i :
                               <<chosen[k].rule.folder, chosen[k].rule.group>>
                                 = <<chosen[i].rule.folder, chosen[i].rule.group>>})
                        < opts.limit}))
    BY DEF Alert!ServerRules
  <2> QED BY <2>1, <2>2, <2>3, <2>4, <2>5
<1>2. counted \in Seq(Range(rules)) /\ n \in Nat /\ DOMAIN counted = 1..n
  <2> HIDE DEF set
  <2> QED BY ThoseType DEF IsList
<1>3. \A i \in 1..n : Cardinality(Near(i)) \in Nat \ {0}
  <2> TAKE i \in 1..n
  <2> HIDE DEF counted
  <2>1. IsFiniteSet(1..i)
    BY FS_Interval
  <2>2. Near(i) \subseteq 1..i /\ i \in Near(i)
    <3>1. i \in Nat /\ i \in 1..i /\ i..i = {i}
      BY <1>2
    <3> QED BY <3>1
  <2> HIDE DEF Near
  <2>3. IsFiniteSet(Near(i)) /\ Near(i) # {}
    BY <2>1, <2>2, FS_Subset
  <2> QED BY <2>3, FS_CardinalityType, FS_EmptySet, SMTT(30)
<1> HIDE DEF set, counted, Near, server
<1>4. sent \in SUBSET (1..n)
  BY <1>2
<1>5. Max({0} \cup sent) \in 0..n /\ \A i \in sent : i <= Max({0} \cup sent)
  <2> HIDE DEF sent, n
  <2>1. CASE sent = {}
    <3>1. {0} \cup sent = {0}
      BY <2>1
    <3>2. Max({0}) = 0
      BY DEF Max
    <3> QED BY <1>2, <2>1, <3>1, <3>2
  <2>2. CASE sent # {}
    <3>1. Max(sent) \in sent /\ \A y \in sent : Max(sent) >= y
      BY <1>2, <1>4, <2>2, MaxOfInterval
    <3> HIDE DEF sent
    <3>2. Max(sent) \in {0} \cup sent /\ \A y \in {0} \cup sent : Max(sent) >= y
      <4> DEFINE m == Max(sent)
      <4>1. m \in sent /\ (\A y \in sent : m >= y) /\ m \in 1..n
        BY <1>4, <3>1
      <4> HIDE DEF m
      <4>2. m \in {0} \cup sent /\ \A y \in {0} \cup sent : m >= y
        BY <1>2, <4>1
      <4> QED BY <4>2 DEF m
    <3> DEFINE top == CHOOSE x \in {0} \cup sent : \A y \in {0} \cup sent : x >= y
    <3>3. top \in {0} \cup sent /\ \A y \in {0} \cup sent : top >= y
      BY <3>2
    <3>4. Max({0} \cup sent) = top
      BY DEF Max
    <3> HIDE DEF top
    <3>5. top \in 0..n /\ \A i \in sent : i <= top
      BY <1>2, <1>4, <3>3
    <3> QED BY <3>4, <3>5
  <2> QED BY <2>1, <2>2
<1>6. SubSeq(counted, 1, n) = counted
  BY <1>2
<1>7. \E m \in 0..n : server = SubSeq(counted, 1, m)
  <2> HIDE DEF sent, n
  <2>1. CASE opts.limit = 0
    BY <1>1, <1>2, <1>6, <2>1
  <2>2. CASE opts.limit # 0
    BY <1>1, <1>5, <2>2
  <2> QED BY <2>1, <2>2
<1>8. ASSUME opts.limit # 0, n <= opts.limit PROVE server = counted
  <2>1. CASE n = 0
    <3>1. Max({0} \cup sent) = n
      BY <1>2, <1>5, <2>1
    <3> QED BY <1>1, <1>6, <1>8, <3>1
  <2>2. CASE n # 0
    <3>1. n \in 1..n
      BY <1>2, <2>2
    <3>2. n - Cardinality(Near(n)) < opts.limit
      BY <1>2, <1>3, <1>8, <3>1
    <3>3. n \in sent
      BY <1>2, <3>1, <3>2
    <3> DEFINE m == Max({0} \cup sent)
    <3> HIDE DEF sent, n, m
    <3>4. m \in 0..n /\ n <= m
      BY <1>5, <3>3 DEF m
    <3>5. m = n
      BY <1>2, <3>4
    <3>6. Max({0} \cup sent) = n
      BY <3>5 DEF m
    <3> USE DEF n
    <3> QED BY <1>1, <1>6, <1>8, <3>6
  <2> QED BY <1>2, <2>1, <2>2
<1>9. opts.limit = 0 => server = counted
  BY <1>1
<1>10. opts.limit = 0 \/ n <= opts.limit => server = counted
  BY <1>8, <1>9
<1> QED BY <1>7, <1>10, ZenonT(60) DEF server, counted, set

\* Showing a rule changes its state only.
LEMMA ShownKeeps ==
    ASSUME NEW rule, {"uid", "rule", "state"} \subseteq DOMAIN rule
    PROVE  Shown(rule).uid = rule.uid /\ Shown(rule).rule = rule.rule
<1> QED BY DEF Shown

\* What the tool does to the rules that Grafana sends: those that are shown pass two
\* tests, of which the first is only made for rules of a datasource.
ShownFits(rules) ==
    {r \in Range(AllShown(rules)) :
        /\ stored.type = "grafana" \/ r.rule.record = Alert!NoRecord
        /\ \A i \in DOMAIN call.selectors : Alert!Matches(call.selectors[i], r.rule.labels)}
Sent == Alert!ServerRules(stored.rules, Alert!BuildGetRulesOpts(call))
LEMMA ListIsShown ==
    ASSUME ToolsInv, call.tool = "list_alert_rules", pc = "done", IsList(Sent)
    PROVE  results = Alert!ApplyRuleLimit(Those(AllShown(Sent), ShownFits(Sent)), call.limit)
<1>1. Asking /\ call.tool \notin {"get_alert_rule", "query_pyroscope"} /\ ~AsksForLogs
  BY DEF Asking, DashboardTools, RuleWrites, AsksForLogs
<1> DEFINE shown == AllShown(Sent)
           matching(rules) == {r \in Range(rules) : \A i \in DOMAIN call.selectors :
                                   Alert!Matches(call.selectors[i], r.rule.labels)}
           plain == {r \in Range(shown) : r.rule.record = Alert!NoRecord}
           listed == IF stored.type = "grafana" THEN shown ELSE Those(shown, plain)
<1>2. \E outcome \in Replies(stored) : results = outcome.value /\ outcome.end = "done"
  <2>1. Going /\ todo = <<>> /\ \E outcome \in Outcomes : results = outcome.value /\ pc = outcome.end
    BY <1>1 DEF ToolsInv, AskInv
  <2> QED BY <1>1, <2>1, EndOfCall DEF ToolsInv
<1>3. Replies(stored) = {IF stored.type = "grafana" THEN Alert!ListGrafanaRules(call, stored.rules)
                         ELSE Alert!ListDatasourceAlertRules(call, stored.rules)}
  BY <1>1 DEF Replies, SqlTools, PrometheusTools, CloudWatchTools
<1>4. \A rules : Alert!Range(rules) = Range(rules)
  BY DEF Alert!Range, Range
<1>5. Alert!ConvertRulesResponseToSummary(Sent) = shown
  BY DEF Alert!ConvertRulesResponseToSummary, AllShown, Shown
<1>6. /\ Alert!ListGrafanaRules(call, stored.rules) = Alert!ListRules(call, shown)
      /\ Alert!ListDatasourceAlertRules(call, stored.rules) = Alert!ListRules(call, Those(shown, plain))
  <2> HIDE DEF shown
  <2> QED BY <1>4, <1>5, AlertThose DEF Alert!ListGrafanaRules, Alert!ListDatasourceAlertRules, Sent
<1>7. Replies(stored) = {Alert!ListRules(call, listed)}
  <2> HIDE DEF shown, plain
  <2> QED BY <1>3, <1>6
<1> HIDE DEF listed
<1>8. results = Alert!ApplyRuleLimit(Those(listed, matching(listed)), call.limit)
  <2>1. PICK outcome \in Replies(stored) : results = outcome.value /\ outcome.end = "done"
    BY <1>2
  <2>2. outcome = Alert!ListRules(call, listed)
    BY <1>7, <2>1
  <2>3. Alert!FilterSummaryByLabels(listed, call.selectors) = Those(listed, matching(listed))
    BY <1>4, AlertThose DEF Alert!FilterSummaryByLabels
  <2> HIDE DEF matching
  <2> QED BY <2>1, <2>2, <2>3, EndOf DEF Alert!ListRules
<1>9. IsList(shown)
  <2>1. shown = [i \in 1..Len(Sent) |-> Shown(Sent[i])] /\ Len(Sent) \in Nat
    BY DEF AllShown, IsList
  <2> HIDE DEF shown
  <2>2. DOMAIN shown = 1..Len(Sent) /\ shown = [i \in 1..Len(Sent) |-> shown[i]]
    BY <2>1
  <2>3. \A i \in 1..Len(Sent) : shown[i] \in Range(shown)
    BY <2>2 DEF Range
  <2> QED BY <2>1, <2>2, <2>3 DEF IsList
<1>10. Those(listed, matching(listed)) = Those(shown, ShownFits(Sent))
  <2>1. CASE stored.type = "grafana"
    <3>1. ShownFits(Sent) = matching(shown) /\ listed = shown
      BY <2>1 DEF ShownFits, listed
    <3> QED BY <3>1
  <2>2. CASE stored.type # "grafana"
    <3>1. listed = Those(shown, plain)
      BY <2>2 DEF listed
    <3>2. Range(listed) = Range(shown) \cap plain
      <4> HIDE DEF shown, plain
      <4> QED BY <1>9, <3>1, ThoseType DEF IsList
    <3>3. Those(listed, matching(listed)) = Those(shown, plain \cap matching(listed))
      <4> HIDE DEF shown, plain, matching
      <4> QED BY <1>9, <3>1, ThoseTwice DEF IsList
    <3>4. \A r \in Range(shown) : r \in plain \cap matching(listed) <=> r \in ShownFits(Sent)
      BY <2>2, <3>2 DEF ShownFits
    <3> HIDE DEF shown, plain, matching
    <3> QED BY <3>3, <3>4, ThoseSame
  <2> QED BY <2>1, <2>2
<1> QED BY <1>8, <1>10

LEMMA ListFollows == ToolsInv => ListComplete
<1> SUFFICES ASSUME ToolsInv, call.tool = "list_alert_rules", pc = "done" PROVE ListComplete
  BY DEF ListComplete
<1> DEFINE rules == stored.rules
           opts == Alert!BuildGetRulesOpts(call)
           inGroup == {r \in Range(rules) : /\ call.folder \in {"", r.rule.folder}
                                           /\ call.group \in {"", r.rule.group}}
           counted == Those(rules, inGroup)
           passes == {r \in Range(counted) :
                      /\ stored.type = "grafana" \/ r.rule.record = Alert!NoRecord
                      /\ \A i \in DOMAIN call.selectors :
                            Alert!Matches(call.selectors[i], r.rule.labels)}
           all == Those(counted, passes)
           few == Those(Sent, passes)
           most == IF call.limit <= MaxRules THEN call.limit ELSE MaxRules
<1>1. Asking /\ call.tool \notin {"get_alert_rule", "query_pyroscope"}
  BY DEF Asking, DashboardTools, RuleWrites
<1>2. IsRules(rules) /\ call.limit \in Nat /\ MaxRules \in Nat \ {0}
  <2>1. PICK kind \in Calls : \E start \in kind : call = start.call /\ stored = start.stored
    BY <1>1, StartedAsk DEF ToolsInv
  <2>2. IsRules(rules) /\ call.limit \in Int
    BY <2>1, ArgumentsAssumption DEF RuleTools
  <2>3. Going
    BY <1>1 DEF ToolsInv, AskInv
  <2>4. call.limit >= 0
    BY <2>3 DEF Going, Accepted, Alert!AcceptsList
  <2> QED BY <2>2, <2>4, RowsAssumption
<1>3. opts.folder = call.folder /\ opts.group = call.group /\ opts.limit = most
  BY <1>2, AlertMin, MinPair DEF Alert!BuildGetRulesOpts
<1>4. IsList(rules) /\ counted \in Seq(Range(rules)) /\ Range(counted) \subseteq Range(rules)
  <2> HIDE DEF rules, inGroup
  <2> QED BY <1>2, ThoseType DEF IsRules, IsList
<1>5. /\ \E m \in 0..Len(counted) : Sent = SubSeq(counted, 1, m)
      /\ most = 0 \/ Len(counted) <= most => Sent = counted
  <2> DEFINE asked == {r \in Range(rules) : /\ opts.folder \in {"", r.rule.folder}
                                           /\ opts.group \in {"", r.rule.group}}
  <2>1. asked = inGroup
    <3> HIDE DEF opts, rules
    <3> QED BY <1>3
  <2>2. Sent = Alert!ServerRules(rules, opts)
    BY DEF Sent
  <2> HIDE DEF opts, rules, most
  <2>3. opts.limit \in Nat
    BY <1>2, <1>3 DEF most
  <2>4. /\ \E m \in 0..Len(Those(rules, asked)) : Alert!ServerRules(rules, opts) = SubSeq(Those(rules, asked), 1, m)
        /\ opts.limit = 0 \/ Len(Those(rules, asked)) <= opts.limit =>
             Alert!ServerRules(rules, opts) = Those(rules, asked)
    BY <1>4, <2>3, ServerSends
  <2> HIDE DEF asked
  <2>5. Those(rules, asked) = counted
    BY <2>1
  <2> QED BY <1>3, <2>2, <2>4, <2>5
<1> HIDE DEF rules, inGroup, counted, opts, passes
<1>6. Sent \in Seq(Range(rules)) /\ IsList(Sent) /\ Range(Sent) \subseteq Range(counted)
  <2>1. PICK m \in 0..Len(counted) : Sent = SubSeq(counted, 1, m)
    BY <1>5
  <2>2. Sent \in Seq(Range(rules)) /\ DOMAIN Sent = 1..m /\ Len(Sent) = m
        /\ \A i \in 1..m : Sent[i] = counted[i] /\ i \in DOMAIN counted
    BY <1>4, <2>1
  <2>3. Range(Sent) \subseteq Range(counted)
    BY <2>2 DEF Range
  <2>4. Sent = [i \in 1..Len(Sent) |-> Sent[i]] /\ \A i \in 1..Len(Sent) : Sent[i] \in Range(Sent)
    BY <2>2 DEF Range
  <2>5. IsList(Sent)
    BY <2>2, <2>4 DEF IsList
  <2> QED BY <2>2, <2>3, <2>5
<1>7. \A r \in Range(counted) : {"uid", "rule", "state"} \subseteq DOMAIN r
  BY <1>2, <1>4 DEF IsRules
<1>8. Those(AllShown(Sent), ShownFits(Sent)) = AllShown(few)
  <2>1. \A r \in Range(Sent) : r \in passes <=> Shown(r) \in ShownFits(Sent)
    <3> TAKE r \in Range(Sent)
    <3>1. r \in Range(counted) /\ Shown(r).rule = r.rule
      BY <1>6, <1>7, ShownKeeps
    <3>2. Shown(r) \in Range(AllShown(Sent))
      BY DEF Range, AllShown
    <3> QED BY <3>1, <3>2 DEF passes, ShownFits
  <2> QED BY <1>6, <2>1, ThoseShown DEF IsList
<1>9. /\ few \in Seq(Range(counted)) /\ all \in Seq(Range(rules)) /\ Len(few) <= Len(all)
      /\ Len(all) <= Len(counted) /\ \A i \in 1..Len(few) : few[i] = all[i]
  <2>1. PICK m \in 0..Len(counted) : Sent = SubSeq(counted, 1, m)
    BY <1>5
  <2>2. /\ Len(few) <= Len(all) /\ Len(all) <= Len(counted)
        /\ \A i \in 1..Len(few) : few[i] = all[i]
    BY <1>4, <2>1, ThosePrefix
  <2>3. Range(few) = Range(Sent) \cap passes /\ few \in Seq(Range(Sent))
    BY <1>6, ThoseType DEF IsList
  <2>4. few \in Seq(Range(counted))
    <3> HIDE DEF few
    <3> QED BY <1>6, <2>3
  <2> QED BY <1>4, <2>2, <2>4, ThoseType
<1> DEFINE allowed == IF call.limit = 0 THEN MaxRules ELSE most
           k == IF Len(few) <= allowed THEN Len(few) ELSE allowed
<1>10. allowed \in Nat /\ k \in 0..Len(few) /\ k <= allowed /\ Len(few) \in Nat
  <2> HIDE DEF few
  <2> QED BY <1>2, <1>9
<1>11. results = SubSeq(AllShown(few), 1, k)
  <2>1. results = Alert!ApplyRuleLimit(AllShown(few), call.limit)
    BY <1>6, <1>8, ListIsShown
  <2>2. Len(AllShown(few)) = Len(few)
    <3> HIDE DEF few
    <3> QED BY <1>9 DEF AllShown
  <2>3. (IF call.limit = 0 THEN MaxRules ELSE Alert!Min({call.limit, MaxRules})) = allowed
    BY <1>2, AlertMin, MinPair
  <2> HIDE DEF allowed, few
  <2>4. Alert!Min({Len(few), allowed}) = k
    BY <1>10, AlertMin, MinPair
  <2> QED BY <2>1, <2>2, <2>3, <2>4 DEF Alert!ApplyRuleLimit
<1> HIDE DEF few, all, k, allowed
<1>12. DOMAIN results = 1..k /\ Len(results) = k /\ \A i \in 1..k : results[i] = Shown(few[i])
  <2>1. \A i \in 1..Len(few) : AllShown(few)[i] = Shown(few[i])
    BY <1>9 DEF AllShown
  <2>2. AllShown(few) \in Seq({Shown(r) : r \in Range(counted)}) /\ Len(AllShown(few)) = Len(few)
    BY <1>9 DEF AllShown
  <2> HIDE DEF AllShown
  <2> QED BY <1>10, <1>11, <2>1, <2>2
<1>13. [i \in DOMAIN results |-> results[i].uid] = [i \in DOMAIN results |-> all[i].uid]
  <2>1. \A i \in 1..k : results[i].uid = all[i].uid
    <3> TAKE i \in 1..k
    <3>1. i \in 1..Len(few) /\ few[i] \in Range(counted) /\ few[i] = all[i]
      BY <1>9, <1>10
    <3> QED BY <1>7, <1>12, <3>1, ShownKeeps
  <2> QED BY <1>12, <2>1
<1>14. Len(results) <= IF call.limit = 0 THEN MaxRules ELSE Least(call.limit, MaxRules)
  BY <1>2, <1>10, <1>12 DEF allowed, Least
<1>15. ASSUME call.limit = 0 \/ Len(counted) <= Least(call.limit, MaxRules)
       PROVE  Len(results) = Least(Len(all), MaxRules)
  <2>1. Sent = counted
    BY <1>2, <1>5, <1>15 DEF Least
  <2>2. few = all
    BY <2>1 DEF few, all
  <2>3. Len(all) <= Len(counted) /\ Len(counted) \in Nat /\ Len(all) \in Nat
    BY <1>4, <1>9
  <2>6. Len(results) = k
    BY <1>12
  <2>4. CASE call.limit = 0
    <3>1. k = IF Len(all) <= MaxRules THEN Len(all) ELSE MaxRules
      BY <2>2, <2>4 DEF k, allowed
    <3> QED BY <1>2, <2>3, <2>6, <3>1 DEF Least
  <2>5. CASE call.limit # 0
    <3>1. Len(all) <= most /\ most <= MaxRules /\ most \in Nat
      BY <1>2, <1>15, <2>3, <2>5 DEF Least
    <3> HIDE DEF most
    <3>2. k = Len(all)
      BY <2>2, <2>3, <2>5, <3>1 DEF k, allowed
    <3> QED BY <1>2, <2>3, <2>6, <3>1, <3>2 DEF Least
  <2> QED BY <2>4, <2>5
<1> QED BY <1>13, <1>14, <1>15 DEF ListComplete, all, counted, passes, inGroup, rules

\* A list of rules is the beginning of those that match, and all of them when the
\* rules of its folder and group are within the limit.
THEOREM ListsHold == AllSpec => []ListComplete
<1> QED BY ListFollows, ToolsHold, PTL

-----------------------------------------------------------------------------
(* Samples *)

\* A sum is made one number after the other.
LEMMA TotalByPrefix ==
    ASSUME NEW numbers \in Seq(Nat)
    PROVE  \E g \in [0..Len(numbers) -> Nat] :
               /\ g[0] = 0
               /\ \A k \in 0..Len(numbers) - 1 : g[k + 1] = g[k] + numbers[k + 1]
               /\ Total(numbers) = g[Len(numbers)]
<1> DEFINE n == Len(numbers)
           step == [p \in (1..n) \X Nat |-> p[2] + numbers[p[1]]]
           Rec(it) == it = [s \in SUBSET DOMAIN numbers |->
                               IF s = {} THEN 0 ELSE it[s \ {Max(s)}] + numbers[Max(s)]]
           fold == CHOOSE it : Rec(it)
<1>1. n \in Nat /\ DOMAIN numbers = 1..n /\ \A i \in 1..n : numbers[i] \in Nat
  OBVIOUS
<1>2. step \in [(1..n) \X Nat -> Nat]
  <2> HIDE DEF n
  <2> QED BY <1>1
<1>3. PICK f \in SetRecursions(Nat, 0, n, step) : TRUE
  <2> HIDE DEF n, step
  <2> QED BY <1>1, <1>2, SetRecursionExists, ZenonT(60)
<1>4. /\ f \in [SUBSET (1..n) -> Nat]
      /\ \A s \in SUBSET (1..n) :
            f[s] = IF s = {} THEN 0 ELSE step[<<Max(s), f[s \ {Max(s)}]>>]
  BY <1>3 DEF SetRecursions
<1> HIDE DEF n
<1>5. ASSUME NEW s \in SUBSET (1..n)
      PROVE  f[s] = IF s = {} THEN 0 ELSE f[s \ {Max(s)}] + numbers[Max(s)]
  <2>1. CASE s = {}
    BY <1>4, <2>1
  <2>2. CASE s # {}
    <3>1. Max(s) \in 1..n /\ f[s \ {Max(s)}] \in Nat
      BY <1>1, <1>4, <2>2, MaxOfInterval
    <3>2. <<Max(s), f[s \ {Max(s)}]>> \in (1..n) \X Nat
      BY <3>1
    <3>3. step[<<Max(s), f[s \ {Max(s)}]>>] = f[s \ {Max(s)}] + numbers[Max(s)]
      BY <3>2
    <3> HIDE DEF step
    <3> QED BY <1>4, <2>2, <3>3
  <2> QED BY <2>1, <2>2
<1>6. Rec(f)
  <2>1. f = [s \in SUBSET (1..n) |-> f[s]]
    BY <1>4
  <2> QED BY <1>1, <1>5, <2>1
<1>7. Rec(fold)
  <2> HIDE DEF Rec
  <2> QED BY <1>6
<1>8. Total(numbers) = fold[DOMAIN numbers]
  BY DEF Total, FoldLeft, MapThenFoldSet
<1> HIDE DEF fold
<1>9. fold[{}] = 0
  BY <1>7
<1>10. ASSUME NEW k \in 0..n - 1
       PROVE  fold[1..k + 1] = fold[1..k] + numbers[k + 1] /\ numbers[k + 1] \in Nat
  <2>1. k \in Nat /\ k + 1 \in 1..n /\ 1..k + 1 \in SUBSET DOMAIN numbers
    BY <1>1
  <2>2. Max(1..k + 1) = k + 1 /\ (1..k + 1) \ {k + 1} = 1..k /\ 1..k + 1 # {}
    BY <2>1, MaxOfPrefix
  <2> QED BY <1>1, <1>7, <2>1, <2>2
<1> DEFINE P == {k \in Nat : k <= n => fold[1..k] \in Nat}
<1>11. \A k \in Nat : k \in P
  <2>1. 0 \in P
    <3>1. 1..0 = {}
      OBVIOUS
    <3> QED BY <1>9, <3>1
  <2>2. ASSUME NEW k \in Nat, k \in P PROVE k + 1 \in P
    <3>1. ASSUME k + 1 <= n PROVE fold[1..k + 1] \in Nat
      <4>1. k \in 0..n - 1 /\ fold[1..k] \in Nat
        BY <1>1, <2>2, <3>1
      <4> QED BY <1>10, <4>1
    <3> QED BY <3>1
  <2> HIDE DEF P
  <2> QED BY <2>1, <2>2, NatInd
<1> DEFINE g == [k \in 0..n |-> fold[1..k]]
<1>12. g \in [0..n -> Nat]
  <2>1. \A k \in 0..n : fold[1..k] \in Nat
    BY <1>1, <1>11
  <2> QED BY <2>1
<1>13. g[0] = 0
  <2>1. 1..0 = {} /\ 0 \in 0..n
    BY <1>1
  <2> QED BY <1>9, <2>1
<1>14. \A k \in 0..n - 1 : g[k + 1] = g[k] + numbers[k + 1]
  <2> TAKE k \in 0..n - 1
  <2>1. k \in 0..n /\ k + 1 \in 0..n
    BY <1>1
  <2> QED BY <1>10, <2>1
<1>15. Total(numbers) = g[n]
  BY <1>1, <1>8
<1> HIDE DEF g
<1> QED BY <1>12, <1>13, <1>14, <1>15 DEF n

LEMMA TotalEmpty == Total(<<>>) = 0
<1>1. <<>> \in Seq(Nat) /\ Len(<<>>) = 0
  OBVIOUS
<1> QED BY <1>1, TotalByPrefix

LEMMA TotalAppend ==
    ASSUME NEW t \in Seq(Nat), NEW x \in Nat
    PROVE  Total(Append(t, x)) = Total(t) + x /\ Total(t) \in Nat
<1> DEFINE n == Len(t)
           new == Append(t, x)
<1>1. /\ n \in Nat /\ new \in Seq(Nat) /\ Len(new) = n + 1 /\ new[n + 1] = x
      /\ \A i \in 1..n : new[i] = t[i]
  OBVIOUS
<1>2. PICK g \in [0..n -> Nat] : /\ g[0] = 0
                                 /\ \A k \in 0..n - 1 : g[k + 1] = g[k] + t[k + 1]
                                 /\ Total(t) = g[n]
  BY TotalByPrefix
<1> HIDE DEF new
<1>3. \E h \in [0..Len(new) -> Nat] : /\ h[0] = 0
                                      /\ \A k \in 0..Len(new) - 1 : h[k + 1] = h[k] + new[k + 1]
                                      /\ Total(new) = h[Len(new)]
  BY <1>1, TotalByPrefix
<1> DEFINE N == Len(new)
           whole == Total(new)
<1>6. \E h \in [0..N -> Nat] : /\ h[0] = 0
                               /\ \A k \in 0..N - 1 : h[k + 1] = h[k] + new[k + 1]
                               /\ whole = h[N]
  BY <1>3
<1>7. N = n + 1
  BY <1>1
<1> HIDE DEF N, n, whole
<1>8. PICK h \in [0..n + 1 -> Nat] : /\ h[0] = 0
                                     /\ \A k \in 0..n : h[k + 1] = h[k] + new[k + 1]
                                     /\ whole = h[n + 1]
  <2>1. N - 1 = n
    BY <1>1, <1>7
  <2> QED BY <1>6, <1>7, <2>1
<1> DEFINE P == {k \in Nat : k <= n => h[k] = g[k]}
<1>4. \A k \in Nat : k \in P
  <2>1. 0 \in P
    BY <1>2, <1>8
  <2>2. ASSUME NEW k \in Nat, k \in P PROVE k + 1 \in P
    <3>1. ASSUME k + 1 <= n PROVE h[k + 1] = g[k + 1]
      <4>1. k \in 0..n - 1 /\ k \in 0..n /\ k + 1 \in 1..n /\ h[k] = g[k]
        BY <1>1, <2>2, <3>1
      <4> QED BY <1>1, <1>2, <1>8, <4>1
    <3> QED BY <3>1
  <2> HIDE DEF P
  <2> QED BY <2>1, <2>2, NatInd
<1>5. h[n] = g[n] /\ g[n] \in Nat /\ h[n + 1] = h[n] + x
  <2>1. n \in 0..n /\ n \in P
    BY <1>1, <1>4
  <2> QED BY <1>1, <1>2, <1>8, <2>1
<1> QED BY <1>2, <1>8, <1>5 DEF new, whole

\* How many pass a test.
LEMMA CountThose ==
    ASSUME NEW X, NEW set, NEW list \in Seq(X)
    PROVE  Len(Those(list, set)) = Cardinality({i \in DOMAIN list : list[i] \in set})
<1> DEFINE Places(t) == {i \in DOMAIN t : t[i] \in set}
           S == {t \in Seq(X) : IsFiniteSet(Places(t)) /\ Len(Those(t, set)) = Cardinality(Places(t))}
<1>1. <<>> \in S
  <2>1. Places(<<>>) = {} /\ <<>> \in Seq(X) /\ Len(<<>>) = 0
    OBVIOUS
  <2>2. Those(<<>>, set) = <<>>
    BY ThoseEmpty
  <2>3. IsFiniteSet({}) /\ Cardinality({}) = 0
    BY FS_EmptySet
  <2> HIDE DEF Places
  <2>4. Len(Those(<<>>, set)) = Cardinality(Places(<<>>)) /\ IsFiniteSet(Places(<<>>))
    BY <2>1, <2>2, <2>3
  <2> QED BY <2>1, <2>4
<1>2. ASSUME NEW t \in Seq(X), NEW x \in X, t \in S PROVE Append(t, x) \in S
  <2> DEFINE new == Append(t, x)
             n == Len(t)
  <2>1. n \in Nat /\ new \in Seq(X) /\ DOMAIN new = 1..n + 1 /\ DOMAIN t = 1..n /\ new[n + 1] = x
        /\ \A i \in 1..n : new[i] = t[i]
    OBVIOUS
  <2>2. Those(new, set) = Those(t, set) \o One(x, set) /\ Those(t, set) \in Seq(X)
    BY ThoseAppend, ThoseType
  <2>3. Places(new) = IF x \in set THEN Places(t) \cup {n + 1} ELSE Places(t)
    <3> HIDE DEF new, n
    <3> QED BY <2>1
  <2>4. n + 1 \notin Places(t)
    BY <2>1
  <2>5. IsFiniteSet(Places(t)) /\ Len(Those(t, set)) = Cardinality(Places(t))
    BY <1>2
  <2> HIDE DEF new, n, Places
  <2>6. CASE x \in set
    <3>1. Len(Those(new, set)) = Len(Those(t, set)) + 1
      BY <2>2, <2>6 DEF One
    <3>2. IsFiniteSet(Places(new)) /\ Cardinality(Places(new)) = Cardinality(Places(t)) + 1
      BY <2>3, <2>4, <2>5, <2>6, FS_AddElement
    <3> QED BY <2>1, <2>5, <3>1, <3>2 DEF new
  <2>7. CASE x \notin set
    <3>1. Those(new, set) = Those(t, set)
      <4>1. One(x, set) = <<>>
        BY <2>7 DEF One
      <4> QED BY <2>2, <4>1
    <3> QED BY <2>1, <2>3, <2>5, <2>7, <3>1 DEF new
  <2> QED BY <2>6, <2>7
<1>3. \A t \in Seq(X) : t \in S
  <2> HIDE DEF S
  <2> QED BY <1>1, <1>2, SeqInd
<1> QED BY <1>3

\* What the elements of a list that pass a test contribute, one after the other.
Joined(list, set, s) ==
    LET those == Those(list, set) IN FlattenSeq([i \in DOMAIN those |-> s[those[i]]])
FoundIn(list, set, s) == UNION {Range(s[x]) : x \in Range(list) \cap set}
SizesOf(list, size) == [i \in DOMAIN list |-> size[list[i]]]
AreParts(s, size, X, Y, set) ==
    s \in [X -> Seq(Y)] /\ \A x \in X : size[x] = IF x \in set THEN Len(s[x]) ELSE 0
LEMMA JoinedParts ==
    ASSUME NEW X, NEW Y, NEW set, NEW list \in Seq(X), NEW s, NEW size,
           AreParts(s, size, X, Y, set)
    PROVE  /\ Joined(list, set, s) \in Seq(Y)
           /\ Range(Joined(list, set, s)) = FoundIn(list, set, s)
           /\ Len(Joined(list, set, s)) = Total(SizesOf(list, size))
<1> DEFINE J(t) == Joined(t, set, s)
           Sizes(t) == [i \in DOMAIN t |-> size[t[i]]]
           All(t) == UNION {Range(s[x]) : x \in Range(t) \cap set}
           S == {t \in Seq(X) : J(t) \in Seq(Y) /\ Range(J(t)) = All(t) /\ Len(J(t)) = Total(Sizes(t))}
<1>0. s \in [X -> Seq(Y)] /\ \A x \in X : size[x] = IF x \in set THEN Len(s[x]) ELSE 0
  BY DEF AreParts
<1>1. <<>> \in S
  <2>1. Those(<<>>, set) = <<>>
    BY ThoseEmpty
  <2>2. [i \in DOMAIN <<>> |-> s[<<>>[i]]] = <<>> /\ Sizes(<<>>) = <<>> /\ Len(<<>>) = 0
        /\ <<>> \in Seq(X) /\ <<>> \in Seq(Y)
    OBVIOUS
  <2>3. J(<<>>) = <<>>
    BY <2>1, <2>2, FlattenEmpty DEF Joined
  <2>4. Range(<<>>) = {}
    BY DEF Range
  <2>5. All(<<>>) = {}
    BY <2>4
  <2> HIDE DEF J, Sizes, All
  <2> QED BY <2>2, <2>3, <2>4, <2>5, TotalEmpty
<1>2. ASSUME NEW t \in Seq(X)
      PROVE  /\ Sizes(t) \in Seq(Nat) /\ Len(Sizes(t)) = Len(t)
             /\ Sizes(t) = [i \in 1..Len(t) |-> size[t[i]]]
  <2>1. \A x \in X : size[x] \in Nat
    BY <1>0
  <2>2. Len(t) \in Nat /\ DOMAIN t = 1..Len(t) /\ \A i \in 1..Len(t) : t[i] \in X
    OBVIOUS
  <2> DEFINE z == Sizes(t)
  <2>3. z = [i \in 1..Len(t) |-> size[t[i]]]
    BY <2>2
  <2> HIDE DEF z
  <2>4. z = [i \in 1..Len(t) |-> z[i]] /\ \A i \in 1..Len(t) : z[i] \in Nat
    BY <2>1, <2>2, <2>3
  <2>5. z \in Seq(Nat) /\ Len(z) = Len(t)
    BY <2>2, <2>4, SequenceFrom
  <2> QED BY <2>3, <2>5 DEF z
<1>3. ASSUME NEW t \in Seq(X), NEW x \in X, t \in S PROVE Append(t, x) \in S
  <2> DEFINE new == Append(t, x)
             n == Len(t)
             those == Those(t, set)
             parts == [i \in DOMAIN those |-> s[those[i]]]
  <2>1. /\ n \in Nat /\ new \in Seq(X) /\ DOMAIN new = 1..n + 1 /\ DOMAIN t = 1..n
        /\ Len(new) = n + 1 /\ new[n + 1] = x /\ \A i \in 1..n : new[i] = t[i]
    OBVIOUS
  <2>2. Those(new, set) = those \o One(x, set) /\ those \in Seq(X) /\ Range(new) = Range(t) \cup {x}
    BY ThoseAppend, ThoseType, RangeAppend
  <2>3. s[x] \in Seq(Y) /\ Len(s[x]) \in Nat
    BY <1>0
  <2>4. J(t) \in Seq(Y) /\ Range(J(t)) = All(t) /\ Len(J(t)) = Total(Sizes(t))
    BY <1>3
  <2>5. Sizes(new) = Append(Sizes(t), size[x]) /\ size[x] \in Nat /\ Sizes(t) \in Seq(Nat)
    <3> HIDE DEF Sizes, new, n
    <3>1. Sizes(t) \in Seq(Nat) /\ Len(Sizes(t)) = n /\ Sizes(t) = [i \in 1..n |-> size[t[i]]]
      BY <1>2 DEF n
    <3>2. Len(new) = n + 1 /\ Sizes(new) = [i \in 1..Len(new) |-> size[new[i]]]
      BY <1>2, <2>1
    <3>3. size[x] \in Nat
      BY <1>0
    <3>4. Append(Sizes(t), size[x]) = [i \in 1..n + 1 |-> IF i = n + 1 THEN size[x] ELSE Sizes(t)[i]]
      <4> DEFINE z == Sizes(t)
      <4>1. z \in Seq(Nat) /\ Len(z) = n
        BY <3>1
      <4> HIDE DEF z
      <4>2. Append(z, size[x]) = [i \in 1..Len(z) + 1 |-> IF i = Len(z) + 1 THEN size[x] ELSE z[i]]
        BY <3>3, <4>1, LongerSequence
      <4> QED BY <4>1, <4>2 DEF z
    <3>5. \A i \in 1..n + 1 : size[new[i]] = IF i = n + 1 THEN size[x] ELSE Sizes(t)[i]
      BY <2>1, <3>1
    <3>6. [i \in 1..n + 1 |-> size[new[i]]]
          = [i \in 1..n + 1 |-> IF i = n + 1 THEN size[x] ELSE Sizes(t)[i]]
      BY <3>5
    <3>7. Sizes(new) = [i \in 1..n + 1 |-> size[new[i]]]
      BY <3>2
    <3> QED BY <3>1, <3>3, <3>4, <3>6, <3>7, Zenon
  <2>6. Total(Sizes(new)) = Total(Sizes(t)) + size[x]
    <3> HIDE DEF Sizes, new
    <3> QED BY <2>5, TotalAppend
  <2>7. parts \in Seq(Seq(Y))
    <3> HIDE DEF those, parts
    <3>1. Len(those) \in Nat /\ DOMAIN those = 1..Len(those) /\ \A i \in 1..Len(those) : those[i] \in X
      BY <2>2
    <3>2. parts = [i \in 1..Len(those) |-> s[those[i]]]
      BY <3>1 DEF parts
    <3>3. parts = [i \in 1..Len(those) |-> parts[i]] /\ \A i \in 1..Len(those) : parts[i] \in Seq(Y)
      BY <1>0, <3>1, <3>2
    <3> QED BY <3>1, <3>3, SequenceFrom
  <2>8. CASE x \in set
    <3>1. Those(new, set) = Append(those, x)
      BY <2>2, <2>8 DEF One
    <3>2. [i \in DOMAIN Append(those, x) |-> s[Append(those, x)[i]]] = Append(parts, s[x])
      <4> DEFINE m == Len(those)
                 more == Append(those, x)
      <4>1. m \in Nat /\ DOMAIN more = 1..m + 1 /\ DOMAIN those = 1..m /\ more[m + 1] = x
            /\ \A i \in 1..m : more[i] = those[i]
        <5> HIDE DEF those
        <5> QED BY <2>2
      <4>2. Len(parts) = m
        BY <4>1, <2>7
      <4> HIDE DEF more, m, those
      <4>3. \A i \in 1..m : parts[i] = s[those[i]]
        BY <4>1
      <4> HIDE DEF parts
      <4>4. Append(parts, s[x]) \in Seq(Seq(Y)) /\ Len(Append(parts, s[x])) = m + 1
            /\ \A i \in 1..m + 1 : Append(parts, s[x])[i] = IF i = m + 1 THEN s[x] ELSE parts[i]
        BY <2>3, <2>7, <4>2
      <4>5. Append(parts, s[x]) = [i \in 1..m + 1 |-> Append(parts, s[x])[i]]
        BY <4>4
      <4>6. \A i \in 1..m + 1 : s[more[i]] = Append(parts, s[x])[i]
        BY <4>1, <4>3, <4>4
      <4> QED BY <4>1, <4>5, <4>6 DEF more
    <3>3. J(new) = J(t) \o s[x]
      <4> HIDE DEF new, those, parts
      <4>1. FlattenSeq(Append(parts, s[x])) = FlattenSeq(parts) \o s[x]
        BY <2>3, <2>7, FlattenAppend
      <4>2. J(t) = FlattenSeq(parts)
        BY DEF Joined, parts, those
      <4>3. J(new) = FlattenSeq(Append(parts, s[x]))
        BY <3>1, <3>2 DEF Joined
      <4> QED BY <4>1, <4>2, <4>3
    <3>4. All(new) = All(t) \cup Range(s[x])
      <4> HIDE DEF new
      <4> QED BY <2>2, <2>8
    <3>5. size[x] = Len(s[x])
      BY <1>0, <2>8
    <3> HIDE DEF J, All, Sizes, new
    <3>6. J(new) \in Seq(Y) /\ Len(J(new)) = Len(J(t)) + Len(s[x])
      <4> DEFINE a == J(t)
                 b == s[x]
      <4>1. a \in Seq(Y) /\ b \in Seq(Y) /\ J(new) = a \o b
        BY <2>3, <2>4, <3>3
      <4> HIDE DEF a, b
      <4>2. J(new) \in Seq(Y) /\ Len(J(new)) = Len(a) + Len(b)
        BY <4>1
      <4> QED BY <4>2 DEF a, b
    <3>7. Range(J(new)) = Range(J(t)) \cup Range(s[x])
      <4> DEFINE a == J(t)
                 b == s[x]
      <4>1. a \in Seq(Y) /\ b \in Seq(Y) /\ J(new) = a \o b
        BY <2>3, <2>4, <3>3
      <4> HIDE DEF a, b
      <4>2. IsList(a) /\ IsList(b)
        BY <4>1 DEF IsList, Range
      <4>3. Range(a \o b) = Range(a) \cup Range(b)
        BY <4>2, JoinedLists
      <4> QED BY <4>1, <4>3 DEF a, b
    <3> QED BY <2>1, <2>4, <2>6, <3>4, <3>5, <3>6, <3>7 DEF new
  <2>9. CASE x \notin set
    <3>1. Those(new, set) = those
      <4>1. One(x, set) = <<>>
        BY <2>9 DEF One
      <4> HIDE DEF those
      <4> QED BY <2>2, <4>1
    <3>2. J(new) = J(t)
      BY <3>1 DEF Joined
    <3>3. All(new) = All(t)
      <4> HIDE DEF new
      <4> QED BY <2>2, <2>9
    <3>4. Total(Sizes(new)) = Total(Sizes(t)) /\ Total(Sizes(t)) \in Nat
      <4>1. size[x] = 0
        BY <1>0, <2>9
      <4>2. Total(Sizes(t)) \in Nat
        <5> HIDE DEF Sizes
        <5> QED BY <2>5, TotalAppend
      <4> HIDE DEF Sizes, new
      <4> QED BY <2>6, <4>1, <4>2
    <3> HIDE DEF J, All, Sizes, new
    <3> QED BY <2>1, <2>4, <3>2, <3>3, <3>4 DEF new
  <2> QED BY <2>8, <2>9
<1>4. \A t \in Seq(X) : t \in S
  <2> HIDE DEF S
  <2> QED BY <1>1, <1>3, SeqInd
<1> QED BY <1>4 DEF FoundIn, SizesOf

\* A list made of a list, element by element.
LEMMA MappedList ==
    ASSUME NEW n \in Nat, NEW f, f = [i \in 1..n |-> f[i]]
    PROVE  IsList(f) /\ Len(f) = n /\ DOMAIN f = 1..n
<1>1. \A i \in 1..n : f[i] \in Range(f)
  BY DEF Range
<1> QED BY <1>1, SequenceFrom DEF IsList

LEMMA AlertMax == ASSUME NEW S PROVE Alert!Max(S) = Max(S)
BY DEF Alert!Max, Max
LEMMA MaxOfPair ==
    /\ Max({0, 1}) = 1 /\ Max({0, 2}) = 2 /\ Max({1, 2}) = 2
BY DEF Max

\* The columns of a time series are found, and its samples are those that can be read.
LEMMA ColumnsOfSeries ==
    ASSUME NEW f, IsSeries(f), IsList(f.fields), NEW types, "number" \in types, "time" \notin types
    PROVE  /\ Alert!LastField(f, {"time"}) = 1 /\ Alert!LastField(f, types) = 2
           /\ Alert!HasColumns(f, types) <=> Len(f.columns) >= 2
<1> DEFINE At(wanted) == {i \in DOMAIN f.fields : f.fields[i].type \in wanted}
<1>1. DOMAIN f.fields = {1, 2} /\ f.fields[1].type = "time" /\ f.fields[2].type = "number"
  BY DEF IsSeries, IsList
<1>2. At({"time"}) = {1} /\ At(types) = {2}
  BY <1>1
<1>3. Alert!LastField(f, {"time"}) = Max({0, 1}) /\ Alert!LastField(f, types) = Max({0, 2})
  <2>1. \A wanted : Alert!LastField(f, wanted) = Max({0} \cup At(wanted))
    BY AlertMax DEF Alert!LastField
  <2>2. {0} \cup {1} = {0, 1} /\ {0} \cup {2} = {0, 2}
    OBVIOUS
  <2> HIDE DEF At
  <2> QED BY <1>2, <2>1, <2>2
<1>4. Alert!LastField(f, {"time"}) = 1 /\ Alert!LastField(f, types) = 2
  BY <1>3, MaxOfPair
<1>5. Alert!HasColumns(f, types) <=> Len(f.columns) >= 2
  <2> DEFINE a == Alert!LastField(f, {"time"})
             b == Alert!LastField(f, types)
  <2>1. Alert!HasColumns(f, types) <=> (a # 0 /\ b # 0 /\ Len(f.columns) >= Alert!Max({a, b}))
    BY DEF Alert!HasColumns
  <2>2. a = 1 /\ b = 2
    BY <1>4
  <2> HIDE DEF a, b
  <2>3. Alert!Max({a, b}) = 2
    BY <2>2, AlertMax, MaxOfPair
  <2>4. (a # 0 /\ b # 0 /\ Len(f.columns) >= Alert!Max({a, b})) <=> Len(f.columns) >= 2
    BY <2>2, <2>3
  <2> QED BY <2>1, <2>4, Zenon
<1> QED BY <1>4, <1>5

LEMMA SamplesOfSeries ==
    ASSUME NEW f, IsSeries(f), IsList(f.fields), IsList(f.columns), Len(f.columns) >= 2,
           \A column \in Range(f.columns) : IsList(column),
           NEW types, "number" \in types, "time" \notin types
    PROVE  /\ IsList(Alert!Samples(f, types))
           /\ Len(Alert!Samples(f, types)) = Cardinality(Readable(f))
           /\ {p[2] : p \in Range(Alert!Samples(f, types))} = {f.columns[2][i] : i \in Readable(f)}
<1> DEFINE times == f.columns[1]
           values == f.columns[2]
           n == Least(Len(times), Len(values))
           pairs == [i \in 1..n |-> <<times[i], values[i]>>]
           readable == {p \in Range(pairs) : p[1] # Alert!Unreadable /\ p[2] # Alert!Unreadable}
           samples == Alert!Samples(f, types)
<1>1. IsList(times) /\ IsList(values)
  <2>1. 1 \in DOMAIN f.columns /\ 2 \in DOMAIN f.columns
    BY DEF IsList
  <2> QED BY <2>1 DEF Range
<1>2. n \in Nat /\ Len(times) \in Nat /\ Len(values) \in Nat
  BY <1>1 DEF IsList, Least
<1>3. samples = Those(pairs, readable)
  <2>1. Alert!Min({Len(times), Len(values)}) = n
    BY <1>2, AlertMin, MinPair, SMTT(30) DEF Least
  <2>2. Alert!Range(pairs) = Range(pairs)
    BY DEF Alert!Range, Range
  <2> HIDE DEF n
  <2>3. Alert!Samples(f, types) = Alert!Those(pairs, readable)
    BY <2>1, <2>2, ColumnsOfSeries DEF Alert!Samples
  <2> HIDE DEF pairs, readable
  <2> QED BY <2>3, AlertThose
<1>4. Readable(f) = {i \in 1..n : times[i] # Alert!Unreadable /\ values[i] # Alert!Unreadable}
  BY DEF Readable, IsList
<1> HIDE DEF n, times, values
<1>5. IsList(pairs) /\ DOMAIN pairs = 1..n /\ \A i \in 1..n : pairs[i] = <<times[i], values[i]>>
  <2>1. DOMAIN pairs = 1..n /\ \A i \in 1..n : pairs[i] = <<times[i], values[i]>>
    OBVIOUS
  <2>2. pairs = [i \in 1..n |-> pairs[i]]
    OBVIOUS
  <2> HIDE DEF pairs
  <2> QED BY <1>2, <2>1, <2>2, MappedList
<1> HIDE DEF pairs
<1>6. \A i \in 1..n : pairs[i] \in readable <=> i \in Readable(f)
  BY <1>4, <1>5 DEF Range
<1>7. {i \in DOMAIN pairs : pairs[i] \in readable} = Readable(f)
  BY <1>4, <1>5, <1>6
<1>8. readable = {pairs[i] : i \in Readable(f)}
  BY <1>4, <1>5, <1>6 DEF Range
<1> HIDE DEF readable, samples
<1>9. /\ Len(samples) = Cardinality(Readable(f))
      /\ Range(samples) = Range(pairs) \cap readable /\ samples \in Seq(Range(pairs))
  <2>1. pairs \in Seq(Range(pairs))
    BY <1>5 DEF IsList
  <2>2. Len(samples) = Cardinality({i \in DOMAIN pairs : pairs[i] \in readable})
    BY <1>3, <2>1, CountThose
  <2> QED BY <1>3, <1>7, <2>1, <2>2, ThoseType
<1>10. Range(samples) = {pairs[i] : i \in Readable(f)}
  BY <1>8, <1>9 DEF readable
<1>11. IsList(samples)
  <2>1. Len(samples) \in Nat /\ samples = [i \in 1..Len(samples) |-> samples[i]]
    BY <1>9
  <2> QED BY <2>1, MappedList
<1>12. {p[2] : p \in Range(samples)} = {values[i] : i \in Readable(f)}
  BY <1>4, <1>5, <1>10
<1> QED BY <1>9, <1>11, <1>12 DEF samples, values

\* CloudWatch's answer has the samples of all frames, and statistics over them.
LEMMA CloudWatchSamples ==
    ASSUME NEW frames, IsFrames(frames), \A f \in Range(frames) : IsSeries(f)
    PROVE  LET samples == Alert!AllSamples(frames)
               counts == [f \in DOMAIN frames |-> Cardinality(Readable(frames[f]))]
               all == UNION {{frames[f].columns[2][i] : i \in Readable(frames[f])} : f \in DOMAIN frames}
           IN /\ IsList(samples) /\ Len(samples) = Total(counts)
              /\ {p[2] : p \in Range(samples)} = all
<1> DEFINE X == Range(frames)
           wanted == {"number"}
           set == {f \in X : Alert!HasColumns(f, wanted)}
           s == [f \in X |-> IF f \in set THEN Alert!Samples(f, wanted) ELSE <<>>]
           Y == UNION {Range(s[f]) : f \in X}
           size == [f \in X |-> IF f \in set THEN Len(s[f]) ELSE 0]
           counts == [f \in DOMAIN frames |-> Cardinality(Readable(frames[f]))]
           those == Those(frames, set)
           samples == Alert!AllSamples(frames)
<1>1. frames \in Seq(X) /\ \A f \in X : IsSeries(f) /\ IsList(f.fields) /\ IsList(f.columns)
                                      /\ \A column \in Range(f.columns) : IsList(column)
  BY DEF IsFrames, IsList
<1>2. \A f \in X : f \in set <=> Len(f.columns) >= 2
  BY <1>1, ColumnsOfSeries
<1>3. ASSUME NEW f \in set
      PROVE  /\ IsList(Alert!Samples(f, wanted))
             /\ Len(Alert!Samples(f, wanted)) = Cardinality(Readable(f))
             /\ {p[2] : p \in Range(Alert!Samples(f, wanted))} = {f.columns[2][i] : i \in Readable(f)}
  BY <1>1, <1>2, SamplesOfSeries
<1>4. ASSUME NEW f \in X, f \notin set PROVE Readable(f) = {}
  <2>1. ~(Len(f.columns) >= 2) /\ Len(f.columns) \in Nat
    BY <1>1, <1>2, <1>4 DEF IsList
  <2> QED BY <2>1 DEF Readable
<1> HIDE DEF set
<1>5. s \in [X -> Seq(Y)]
  <2>1. ASSUME NEW f \in X PROVE s[f] \in Seq(Y)
    <3>1. IsList(s[f])
      <4>1. CASE f \in set
        BY <1>3, <4>1
      <4>2. CASE f \notin set
        <5>1. s[f] = <<>> /\ <<>> \in Seq(Range(<<>>))
          BY <4>2
        <5> HIDE DEF s
        <5> QED BY <5>1 DEF IsList
      <4> QED BY <4>1, <4>2
    <3>2. Range(s[f]) \subseteq Y
      OBVIOUS
    <3> HIDE DEF s, Y
    <3> QED BY <3>1, <3>2 DEF IsList
  <2>2. s = [f \in X |-> s[f]]
    OBVIOUS
  <2> HIDE DEF s, Y
  <2> QED BY <2>1, <2>2
<1>6. samples = Joined(frames, set, s)
  <2>1. Alert!WithColumns(frames, wanted) = those
    <3>1. Alert!Range(frames) = X
      BY DEF Alert!Range, Range
    <3> HIDE DEF X
    <3>2. Alert!WithColumns(frames, wanted) = Alert!Those(frames, set)
      BY <3>1 DEF Alert!WithColumns, set
    <3> QED BY <3>2, AlertThose
  <2>2. those \in Seq(X) /\ Range(those) = X \cap set
    <3> HIDE DEF X
    <3> QED BY <1>1, ThoseType DEF X
  <2> HIDE DEF those
  <2>3. \A i \in DOMAIN those : s[those[i]] = Alert!Samples(those[i], wanted)
    BY <2>2 DEF Range
  <2> DEFINE parts == [i \in DOMAIN those |-> Alert!Samples(those[i], wanted)]
  <2>4. [i \in DOMAIN those |-> s[those[i]]] = parts
    <3> HIDE DEF s
    <3> QED BY <2>3
  <2> HIDE DEF s, parts
  <2>5. samples = Alert!FlattenSeq(parts)
    BY <2>1 DEF Alert!AllSamples, parts
  <2>6. Alert!FlattenSeq(parts) = FlattenSeq(parts)
    BY DEF Alert!FlattenSeq, FlattenSeq
  <2>7. Joined(frames, set, s) = FlattenSeq(parts)
    BY <2>4 DEF Joined, those
  <2> QED BY <2>5, <2>6, <2>7
<1>7. /\ samples \in Seq(Y)
      /\ Range(samples) = UNION {Range(s[f]) : f \in X \cap set}
      /\ Len(samples) = Total([i \in DOMAIN frames |-> size[frames[i]]])
  <2>1. \A f \in X : size[f] = IF f \in set THEN Len(s[f]) ELSE 0
    <3> HIDE DEF s
    <3> QED OBVIOUS
  <2> HIDE DEF s, Y, size, X
  <2>2. /\ Joined(frames, set, s) \in Seq(Y)
        /\ Range(Joined(frames, set, s)) = FoundIn(frames, set, s)
        /\ Len(Joined(frames, set, s)) = Total(SizesOf(frames, size))
    <3>1. frames \in Seq(X)
      BY <1>1
    <3>2. AreParts(s, size, X, Y, set)
      BY <1>5, <2>1 DEF AreParts
    <3> QED BY <3>1, <3>2, JoinedParts
  <2> HIDE DEF samples
  <2> QED BY <1>6, <2>2 DEF X, FoundIn, SizesOf
<1>8. [i \in DOMAIN frames |-> size[frames[i]]] = counts
  <2>1. \A f \in X : size[f] = Cardinality(Readable(f))
    <3>1. Cardinality({}) = 0
      BY FS_EmptySet
    <3> QED BY <1>3, <1>4, <3>1
  <2>2. \A i \in DOMAIN frames : frames[i] \in X
    BY DEF Range
  <2> HIDE DEF size
  <2> QED BY <2>1, <2>2
<1>9. {p[2] : p \in Range(samples)} = UNION {{f.columns[2][i] : i \in Readable(f)} : f \in X}
  <2>1. \A f \in X \cap set : s[f] = Alert!Samples(f, wanted)
    OBVIOUS
  <2> HIDE DEF s, samples
  <2>2. \A f \in X \cap set : {p[2] : p \in Range(s[f])} = {f.columns[2][i] : i \in Readable(f)}
    BY <1>3, <2>1
  <2>3. {p[2] : p \in Range(samples)} = UNION {{p[2] : p \in Range(s[f])} : f \in X \cap set}
    BY <1>7
  <2> HIDE DEF X
  <2>4. \A v : (\E f \in X \cap set : v \in {p[2] : p \in Range(s[f])})
               <=> (\E f \in X : v \in {f.columns[2][i] : i \in Readable(f)})
    BY <1>4, <2>2
  <2> DEFINE A == UNION {{p[2] : p \in Range(s[f])} : f \in X \cap set}
             B == UNION {{f.columns[2][i] : i \in Readable(f)} : f \in X}
  <2>5. \A v : v \in A <=> (\E f \in X \cap set : v \in {p[2] : p \in Range(s[f])})
    OBVIOUS
  <2>6. \A v : v \in B <=> (\E f \in X : v \in {f.columns[2][i] : i \in Readable(f)})
    OBVIOUS
  <2>7. A = B
    <3> HIDE DEF A, B
    <3> QED BY <2>4, <2>5, <2>6
  <2> QED BY <2>3, <2>7
<1>10. UNION {{f.columns[2][i] : i \in Readable(f)} : f \in X}
       = UNION {{frames[f].columns[2][i] : i \in Readable(frames[f])} : f \in DOMAIN frames}
  BY DEF Range
<1>11. IsList(samples)
  <2> HIDE DEF samples, Y
  <2>1. Len(samples) \in Nat /\ samples = [i \in 1..Len(samples) |-> samples[i]]
    BY <1>7
  <2> QED BY <2>1, MappedList
<1> HIDE DEF X, samples
<1> QED BY <1>7, <1>8, <1>9, <1>10, <1>11 DEF samples

\* A frame of Cloud Monitoring that has samples is one of the answer's.
LEMMA MatrixSamples ==
    ASSUME NEW frames, IsFrames(frames), NEW f \in Range(frames), IsSeries(f), Readable(f) # {}
    PROVE  \E i \in DOMAIN Alert!FramesToMatrix(frames) :
               Len(Alert!FramesToMatrix(frames)[i].samples) = Cardinality(Readable(f))
<1> DEFINE types == Alert!CloudTypes
           set == {g \in Range(frames) : Alert!HasColumns(g, types)}
           those == Those(frames, set)
<1>1. "number" \in types /\ "time" \notin types
  BY DEF Alert!CloudTypes
<1> HIDE DEF types
<1>2. frames \in Seq(Range(frames)) /\ IsList(f.fields) /\ IsList(f.columns)
      /\ \A column \in Range(f.columns) : IsList(column)
  BY DEF IsFrames, IsList
<1>3. Len(f.columns) >= 2
  BY <1>2 DEF Readable, IsList
<1>4. f \in set
  BY <1>1, <1>2, <1>3, ColumnsOfSeries
<1>5. Len(Alert!Samples(f, types)) = Cardinality(Readable(f))
  BY <1>1, <1>2, <1>3, SamplesOfSeries
<1>6. Alert!WithColumns(frames, types) = those
  <2>1. Alert!Range(frames) = Range(frames)
    BY DEF Alert!Range, Range
  <2>2. Alert!WithColumns(frames, types) = Alert!Those(frames, set)
    BY <2>1 DEF Alert!WithColumns
  <2> HIDE DEF set
  <2> QED BY <2>2, AlertThose
<1> HIDE DEF set
<1>7. Range(those) = Range(frames) \cap set
  BY <1>2, ThoseType
<1> HIDE DEF those
<1>8. PICK i \in DOMAIN those : those[i] = f
  BY <1>4, <1>7 DEF Range
<1>9. Alert!FramesToMatrix(frames) =
        [k \in DOMAIN those |-> [metric |-> Alert!Metric(those[k]), samples |-> Alert!Samples(those[k], types)]]
  BY <1>6 DEF Alert!FramesToMatrix, types
<1>10. i \in DOMAIN Alert!FramesToMatrix(frames)
       /\ Alert!FramesToMatrix(frames)[i].samples = Alert!Samples(f, types)
  BY <1>8, <1>9
<1> QED BY <1>5, <1>10

LEMMA StatisticsOf ==
    ASSUME NEW samples, IsList(samples), Range(samples) # {}
    PROVE  LET values == [i \in DOMAIN samples |-> samples[i][2]]
               all == {p[2] : p \in Range(samples)}
           IN /\ Alert!Statistics(values).count = Len(samples)
              /\ Alert!Statistics(values).min = Min(all) /\ Alert!Statistics(values).max = Max(all)
<1> DEFINE values == [i \in DOMAIN samples |-> samples[i][2]]
           all == {p[2] : p \in Range(samples)}
<1>1. samples # <<>> /\ DOMAIN samples = 1..Len(samples) /\ Len(samples) \in Nat
  BY DEF IsList, Range
<1>2. DOMAIN values = 1..Len(samples) /\ values = [i \in 1..Len(samples) |-> values[i]]
  BY <1>1
<1>3. {values[i] : i \in DOMAIN values} = all
  BY DEF Range
<1> HIDE DEF values, all
<1>4. Len(values) = Len(samples)
  BY <1>1, <1>2, MappedList
<1>5. values # <<>>
  BY <1>1, <1>2, <1>4
<1>6. Alert!Statistics(values).count = Len(values)
      /\ Alert!Statistics(values).min = Alert!Min(all) /\ Alert!Statistics(values).max = Alert!Max(all)
  BY <1>3, <1>5 DEF Alert!Statistics
<1> QED BY <1>4, <1>6, AlertMin, AlertMax DEF values, all

LEMMA CloudWatchKept ==
    ASSUME ToolsInv, pc = "done", call.tool = "query_cloudwatch",
           \A f \in Range(stored.answer.frames) : IsSeries(f)
    PROVE  LET frames == stored.answer.frames
               counts == [f \in DOMAIN frames |-> Cardinality(Readable(frames[f]))]
               all == UNION {{frames[f].columns[2][i] : i \in Readable(frames[f])} : f \in DOMAIN frames}
           IN /\ Len(results.answer.samples) = Total(counts)
              /\ all # {} => /\ results.answer.statistics.count = Total(counts)
                             /\ results.answer.statistics.min = Min(all)
                             /\ results.answer.statistics.max = Max(all)
<1> DEFINE frames == stored.answer.frames
           counts == [f \in DOMAIN frames |-> Cardinality(Readable(frames[f]))]
           all == UNION {{frames[f].columns[2][i] : i \in Readable(frames[f])} : f \in DOMAIN frames}
           samples == Alert!AllSamples(frames)
           statistics == Alert!Statistics([i \in DOMAIN samples |-> samples[i][2]])
           outcome == With(Alert!CloudWatchQuery(call), Alert!CloudWatchResult(stored.answer))
<1>1. Asking /\ ~AsksForLogs /\ call.tool \notin {"get_alert_rule", "query_pyroscope"}
  BY DEF Asking, DashboardTools, RuleWrites, AsksForLogs
<1>2. Going /\ todo = <<>> /\ \E o \in Outcomes : results = o.value /\ pc = o.end
  BY <1>1 DEF ToolsInv, AskInv
<1>3. IsFrames(frames)
  <2>1. stored.type = "cloudwatch"
    BY <1>2 DEF Going, FitsType, CloudWatchTools, PrometheusTools, SqlTools
  <2>2. PICK kind \in Calls : \E start \in kind : call = start.call /\ stored = start.stored
    BY <1>1, StartedAsk DEF ToolsInv
  <2> QED BY <2>1, <2>2, ArgumentsAssumption
<1>4. PICK o \in Replies(stored) : results = o.value /\ o.end = "done"
  BY <1>1, <1>2, EndOfCall DEF ToolsInv
<1>5. Replies(stored) = {outcome}
  BY <1>1 DEF Replies, SqlTools, PrometheusTools, CloudWatchTools
<1>6. Alert!CloudWatchResult(stored.answer).end = "done"
  <2>1. o = outcome
    BY <1>4, <1>5
  <2> QED BY <1>4, <2>1, EndOfWrapped
<1>7. results.answer.samples = samples /\ results.answer.statistics = statistics
  <2>1. Alert!CloudWatchResult(stored.answer)
        = Alert!Done([samples |-> samples, hints |-> samples = <<>>, statistics |-> statistics])
    BY <1>6, EndOf DEF Alert!CloudWatchResult
  <2> HIDE DEF samples, statistics
  <2>2. outcome.value.answer.samples = samples /\ outcome.value.answer.statistics = statistics
    BY <1>6, <2>1, EndOf DEF With
  <2> HIDE DEF outcome
  <2> QED BY <1>4, <1>5, <2>2
<1>8. IsList(samples) /\ Len(samples) = Total(counts) /\ {p[2] : p \in Range(samples)} = all
  <2> HIDE DEF frames
  <2> QED BY <1>3, CloudWatchSamples DEF frames
<1>9. ASSUME all # {}
      PROVE  statistics.count = Total(counts) /\ statistics.min = Min(all) /\ statistics.max = Max(all)
  <2> HIDE DEF samples, all, counts
  <2>1. Range(samples) # {}
    BY <1>8, <1>9
  <2> QED BY <1>8, <2>1, StatisticsOf
<1> HIDE DEF samples, statistics
<1> QED BY <1>7, <1>8, <1>9

LEMMA CloudMonitoringKept ==
    ASSUME ToolsInv, pc = "done", call.tool = "query_prometheus", Cloud, call.type # "instant",
           stored.answer.known, NEW f \in Range(stored.answer.frames), IsSeries(f), Readable(f) # {}
    PROVE  \E i \in DOMAIN results.data : Len(results.data[i].samples) = Cardinality(Readable(f))
<1> DEFINE frames == stored.answer.frames
           value == Alert!FramesToPrometheusValue(stored.answer, Alert!QueryType(call))
<1>1. Asking /\ ~AsksForLogs /\ call.tool \notin {"get_alert_rule", "query_pyroscope"}
  BY DEF Asking, DashboardTools, RuleWrites, AsksForLogs
<1>2. Going /\ todo = <<>> /\ \E o \in Outcomes : results = o.value /\ pc = o.end
  BY <1>1 DEF ToolsInv, AskInv
<1>3. IsFrames(frames)
  <2>1. PICK kind \in Calls : \E start \in kind : call = start.call /\ stored = start.stored
    BY <1>1, StartedAsk DEF ToolsInv
  <2> QED BY <2>1, ArgumentsAssumption DEF Cloud
<1>4. PICK o \in Replies(stored) : results = o.value /\ o.end = "done"
  BY <1>1, <1>2, EndOfCall DEF ToolsInv
<1>5. o = Hinted(value)
  <2>1. Replies(stored) = CloudReplies(stored)
    BY <1>1 DEF Replies, SqlTools, PrometheusTools, CloudWatchTools
  <2>2. CloudReplies(stored) = {Hinted(value)}
    BY DEF CloudReplies
  <2> QED BY <1>4, <2>1, <2>2
<1>6. value.end = "done"
  <2> HIDE DEF value
  <2> QED BY <1>4, <1>5, EndOfWrapped
<1>7. value = Alert!Done(Alert!FramesToMatrix(frames))
  <2>1. Alert!QueryType(call) # "instant"
    BY DEF Alert!QueryType
  <2> QED BY <1>6, <2>1, EndOf DEF Alert!FramesToPrometheusValue
<1>8. results.data = Alert!FramesToMatrix(frames)
  <2> HIDE DEF value
  <2> QED BY <1>4, <1>5, <1>6, <1>7, EndOf DEF Hinted
<1> QED BY <1>3, <1>8, MatrixSamples

LEMMA SamplesFollow == ToolsInv => SamplesKept
<1> SUFFICES ASSUME ToolsInv PROVE SamplesKept
  OBVIOUS
<1> QED BY CloudWatchKept, CloudMonitoringKept DEF SamplesKept

\* No sample that can be read of a frame of a time series is lost, and CloudWatch's
\* statistics are over those of all frames.
THEOREM SamplesHold == AllSpec => []SamplesKept
<1> QED BY SamplesFollow, ToolsHold, PTL

-----------------------------------------------------------------------------
(* Lists of lists *)

LEMMA TotalType == ASSUME NEW t \in Seq(Nat) PROVE Total(t) \in Nat
BY TotalAppend

LEMMA TotalJoin ==
    ASSUME NEW s \in Seq(Nat), NEW t \in Seq(Nat)
    PROVE  Total(s \o t) = Total(s) + Total(t)
<1> DEFINE S == {u \in Seq(Nat) : Total(s \o u) = Total(s) + Total(u)}
<1>1. <<>> \in S
  <2>1. s \o <<>> = s /\ <<>> \in Seq(Nat)
    OBVIOUS
  <2> QED BY <2>1, TotalEmpty, TotalType
<1>2. ASSUME NEW u \in Seq(Nat), NEW x \in Nat, u \in S PROVE Append(u, x) \in S
  <2>1. s \o Append(u, x) = Append(s \o u, x) /\ s \o u \in Seq(Nat)
    BY JoinAppend
  <2>2. Total(Append(s \o u, x)) = Total(s \o u) + x /\ Total(Append(u, x)) = Total(u) + x
    BY <2>1, TotalAppend
  <2>3. Total(s) \in Nat /\ Total(u) \in Nat /\ Total(s \o u) = Total(s) + Total(u)
    BY <1>2, TotalType
  <2>4. Append(u, x) \in Seq(Nat)
    OBVIOUS
  <2>5. Total(Append(s \o u, x)) = Total(s) + Total(Append(u, x))
    BY <2>2, <2>3
  <2>6. Total(s \o Append(u, x)) = Total(s) + Total(Append(u, x))
    BY <2>1, <2>5
  <2> QED BY <2>4, <2>6
<1>3. \A u \in Seq(Nat) : u \in S
  <2> HIDE DEF S
  <2> QED BY <1>1, <1>2, SeqInd
<1> QED BY <1>3

LEMMA SizesType ==
    ASSUME NEW X, NEW size \in [X -> Nat], NEW list \in Seq(X)
    PROVE  SizesOf(list, size) \in Seq(Nat) /\ Len(SizesOf(list, size)) = Len(list)
BY DEF SizesOf

LEMMA SizesAppend ==
    ASSUME NEW X, NEW size \in [X -> Nat], NEW list \in Seq(X), NEW x \in X
    PROVE  SizesOf(Append(list, x), size) = Append(SizesOf(list, size), size[x])
<1> DEFINE new == Append(list, x)
           n == Len(list)
           both == Append(SizesOf(list, size), size[x])
<1>1. /\ n \in Nat /\ DOMAIN new = 1..n + 1 /\ new[n + 1] = x /\ DOMAIN list = 1..n
      /\ \A i \in 1..n : new[i] = list[i]
  OBVIOUS
<1>2. /\ DOMAIN both = 1..n + 1 /\ both \in Seq(Nat) /\ both[n + 1] = size[x]
      /\ \A i \in 1..n : both[i] = SizesOf(list, size)[i]
  BY SizesType
<1>3. \A i \in 1..n : SizesOf(list, size)[i] = size[list[i]]
  BY <1>1 DEF SizesOf
<1>4. both = [i \in 1..n + 1 |-> both[i]]
  BY <1>2
<1> HIDE DEF new, n, both
<1>5. \A i \in 1..n + 1 : both[i] = size[new[i]]
  BY <1>1, <1>2, <1>3
<1> QED BY <1>1, <1>4, <1>5 DEF new, both, SizesOf

LEMMA SizesTotal ==
    ASSUME NEW X, NEW size \in [X -> Nat], NEW list \in Seq(X), NEW x \in X
    PROVE  Total(SizesOf(Append(list, x), size)) = Total(SizesOf(list, size)) + size[x]
<1> DEFINE sizes == SizesOf(list, size)
           y == size[x]
<1>1. sizes \in Seq(Nat) /\ y \in Nat
  BY SizesType
<1>2. SizesOf(Append(list, x), size) = Append(sizes, y)
  BY SizesAppend
<1> HIDE DEF sizes, y
<1>3. Total(Append(sizes, y)) = Total(sizes) + y
  BY <1>1, TotalAppend
<1> QED BY <1>2, <1>3 DEF sizes, y

LEMMA SizesJoin ==
    ASSUME NEW X, NEW size \in [X -> Nat], NEW s \in Seq(X), NEW t \in Seq(X)
    PROVE  Total(SizesOf(s \o t, size)) = Total(SizesOf(s, size)) + Total(SizesOf(t, size))
<1> DEFINE T(u) == Total(SizesOf(u, size))
           S == {u \in Seq(X) : T(s \o u) = T(s) + T(u)}
<1>0. \A u \in Seq(X) : T(u) \in Nat
  BY SizesType, TotalType
<1>1. <<>> \in S
  <2>1. s \o <<>> = s /\ <<>> \in Seq(X) /\ SizesOf(<<>>, size) = <<>>
    BY DEF SizesOf
  <2>2. T(<<>>) = 0
    BY <2>1, TotalEmpty
  <2> HIDE DEF T
  <2> QED BY <1>0, <2>1, <2>2
<1>2. ASSUME NEW u \in Seq(X), NEW x \in X, u \in S PROVE Append(u, x) \in S
  <2>1. s \o Append(u, x) = Append(s \o u, x) /\ s \o u \in Seq(X) /\ Append(u, x) \in Seq(X)
    BY JoinAppend
  <2>2. T(Append(s \o u, x)) = T(s \o u) + size[x] /\ T(Append(u, x)) = T(u) + size[x]
    <3> HIDE DEF S
    <3> QED BY <2>1, SizesTotal
  <2>3. T(s) \in Nat /\ T(u) \in Nat /\ T(s \o u) = T(s) + T(u) /\ size[x] \in Nat
    BY <1>0, <1>2
  <2> HIDE DEF T
  <2>4. T(Append(s \o u, x)) = T(s) + T(Append(u, x))
    BY <2>2, <2>3
  <2> QED BY <2>1, <2>4
<1>3. \A u \in Seq(X) : u \in S
  <2> HIDE DEF S
  <2> QED BY <1>1, <1>2, SeqInd
<1> QED BY <1>3

\* The sizes in a list of lists add up list by list.
Sums(lists, size) == [g \in DOMAIN lists |-> Total(SizesOf(lists[g], size))]
LEMMA SumsAppend ==
    ASSUME NEW X, NEW size \in [X -> Nat], NEW lists \in Seq(Seq(X)), NEW s \in Seq(X)
    PROVE  /\ Sums(Append(lists, s), size) = Append(Sums(lists, size), Total(SizesOf(s, size)))
           /\ Sums(lists, size) \in Seq(Nat)
<1> DEFINE Y == Seq(X)
           T == [u \in Y |-> Total(SizesOf(u, size))]
<1>1. T \in [Y -> Nat]
  BY SizesType, TotalType
<1>2. \A l \in Seq(Y) : Sums(l, size) = SizesOf(l, T)
  BY DEF Sums, SizesOf
<1>3. T[s] = Total(SizesOf(s, size)) /\ s \in Y /\ lists \in Seq(Y)
  OBVIOUS
<1>4. Append(lists, s) \in Seq(Y)
  OBVIOUS
<1> DEFINE total == Total(SizesOf(s, size))
           more == Append(lists, s)
<1>5. Sums(more, size) = SizesOf(more, T) /\ Sums(lists, size) = SizesOf(lists, T) /\ T[s] = total
  BY <1>2, <1>3, <1>4
<1> HIDE DEF T, Y, total
<1>6. SizesOf(more, T) = Append(SizesOf(lists, T), T[s]) /\ SizesOf(lists, T) \in Seq(Nat)
  BY <1>1, <1>3, SizesAppend, SizesType
<1> HIDE DEF more
<1>7. Sums(more, size) = Append(Sums(lists, size), total) /\ Sums(lists, size) \in Seq(Nat)
  BY <1>5, <1>6
<1> QED BY <1>7 DEF total, more

LEMMA SizesOfLists ==
    ASSUME NEW X, NEW size \in [X -> Nat], NEW lists \in Seq(Seq(X))
    PROVE  Total(SizesOf(FlattenSeq(lists), size)) = Total(Sums(lists, size))
<1> DEFINE Y == Seq(X)
           S == {u \in Seq(Y) : Total(SizesOf(FlattenSeq(u), size)) = Total(Sums(u, size))}
<1>1. <<>> \in S
  <2>1. <<>> \in Seq(Y) /\ SizesOf(<<>>, size) = <<>> /\ Sums(<<>>, size) = <<>>
    BY DEF SizesOf, Sums
  <2> QED BY <2>1, FlattenEmpty
<1>2. ASSUME NEW u \in Seq(Y), NEW s \in Y, u \in S PROVE Append(u, s) \in S
  <2>1. Total(Sums(Append(u, s), size)) = Total(Sums(u, size)) + Total(SizesOf(s, size))
    <3> DEFINE total == Total(SizesOf(s, size))
               sums == Sums(u, size)
    <3>1. total \in Nat
      BY SizesType, TotalType
    <3>2. Sums(Append(u, s), size) = Append(sums, total) /\ sums \in Seq(Nat)
      <4> HIDE DEF S
      <4> QED BY SumsAppend
    <3> HIDE DEF S, total, sums
    <3>3. Total(Append(sums, total)) = Total(sums) + total
      BY <3>1, <3>2, TotalAppend
    <3> QED BY <3>2, <3>3 DEF total, sums
  <2>2. FlattenSeq(Append(u, s)) = FlattenSeq(u) \o s /\ FlattenSeq(u) \in Seq(X)
    BY FlattenAppend, FlattenType
  <2>3. Total(SizesOf(FlattenSeq(u) \o s, size))
            = Total(SizesOf(FlattenSeq(u), size)) + Total(SizesOf(s, size))
    BY <2>2, SizesJoin
  <2>4. Append(u, s) \in Seq(Y)
    OBVIOUS
  <2> QED BY <1>2, <2>1, <2>2, <2>3, <2>4
<1>3. \A u \in Seq(Y) : u \in S
  <2> HIDE DEF S, Y
  <2> QED BY <1>1, <1>2, SeqInd
<1> QED BY <1>3

LEMMA CountAll ==
    ASSUME NEW X, NEW list \in Seq(X)
    PROVE  Total(SizesOf(list, [x \in X |-> 1])) = Len(list)
<1> DEFINE ones == [x \in X |-> 1]
           S == {u \in Seq(X) : Total(SizesOf(u, ones)) = Len(u)}
<1>0. ones \in [X -> Nat] /\ \A x \in X : ones[x] = 1
  OBVIOUS
<1> HIDE DEF ones
<1>1. <<>> \in S
  <2>1. SizesOf(<<>>, ones) = <<>> /\ <<>> \in Seq(X) /\ Len(<<>>) = 0
    BY DEF SizesOf
  <2> QED BY <2>1, TotalEmpty
<1>2. ASSUME NEW u \in Seq(X), NEW x \in X, u \in S PROVE Append(u, x) \in S
  <2>1. Total(SizesOf(Append(u, x), ones)) = Total(SizesOf(u, ones)) + ones[x]
    <3> HIDE DEF S
    <3> QED BY <1>0, SizesTotal
  <2>2. Append(u, x) \in Seq(X) /\ Len(Append(u, x)) = Len(u) + 1
    OBVIOUS
  <2> QED BY <1>0, <1>2, <2>1, <2>2
<1>3. \A u \in Seq(X) : u \in S
  <2> HIDE DEF S
  <2> QED BY <1>1, <1>2, SeqInd
<1> QED BY <1>3 DEF ones

LEMMA FlattenLength ==
    ASSUME NEW X, NEW lists \in Seq(Seq(X))
    PROVE  Len(FlattenSeq(lists)) = Total([g \in DOMAIN lists |-> Len(lists[g])])
<1> DEFINE ones == [x \in X |-> 1]
<1>1. ones \in [X -> Nat]
  OBVIOUS
<1>2. \A g \in DOMAIN lists : Total(SizesOf(lists[g], ones)) = Len(lists[g])
  <2>1. \A g \in DOMAIN lists : lists[g] \in Seq(X)
    OBVIOUS
  <2> QED BY <2>1, CountAll
<1>3. Sums(lists, ones) = [g \in DOMAIN lists |-> Len(lists[g])]
  BY <1>2 DEF Sums
<1>4. Total(SizesOf(FlattenSeq(lists), ones)) = Len(FlattenSeq(lists))
  BY FlattenType, CountAll
<1> HIDE DEF ones
<1>5. Total(SizesOf(FlattenSeq(lists), ones)) = Total(Sums(lists, ones))
  BY <1>1, SizesOfLists
<1> QED BY <1>3, <1>4, <1>5

LEMMA FlattenRange ==
    ASSUME NEW X, NEW lists \in Seq(Seq(X)), NEW x
    PROVE  x \in Range(FlattenSeq(lists)) <=> \E g \in DOMAIN lists : x \in Range(lists[g])
<1> DEFINE Y == Seq(X)
           In(u) == \E g \in DOMAIN u : x \in Range(u[g])
           S == {u \in Seq(Y) : x \in Range(FlattenSeq(u)) <=> In(u)}
<1>1. <<>> \in S
  <2>1. <<>> \in Seq(Y) /\ DOMAIN <<>> = {}
    OBVIOUS
  <2>2. x \notin Range(<<>>)
    BY <2>1 DEF Range
  <2> QED BY <2>1, <2>2, FlattenEmpty
<1>2. ASSUME NEW u \in Seq(Y), NEW s \in Y, u \in S PROVE Append(u, s) \in S
  <2> DEFINE n == Len(u)
             new == Append(u, s)
  <2>1. n \in Nat /\ DOMAIN u = 1..n /\ DOMAIN new = 1..n + 1 /\ new[n + 1] = s
        /\ (\A i \in 1..n : new[i] = u[i]) /\ new \in Seq(Y)
    OBVIOUS
  <2>2. FlattenSeq(new) = FlattenSeq(u) \o s /\ FlattenSeq(u) \in Seq(X)
    BY FlattenAppend, FlattenType
  <2>3. Range(FlattenSeq(u) \o s) = Range(FlattenSeq(u)) \cup Range(s)
    <3>1. IsList(FlattenSeq(u)) /\ IsList(s)
      BY <2>2 DEF IsList, Range
    <3> QED BY <3>1, JoinedLists
  <2>4. In(new) <=> In(u) \/ x \in Range(s)
    <3> HIDE DEF n, new
    <3>1. In(u) => In(new)
      BY <2>1
    <3>2. x \in Range(s) => In(new)
      <4>1. n + 1 \in DOMAIN new
        BY <2>1
      <4> QED BY <2>1, <4>1
    <3>3. ASSUME NEW g \in DOMAIN new, x \in Range(new[g]) PROVE In(u) \/ x \in Range(s)
      BY <2>1, <3>3
    <3> QED BY <3>1, <3>2, <3>3
  <2> HIDE DEF In
  <2> QED BY <1>2, <2>1, <2>2, <2>3, <2>4
<1>3. \A u \in Seq(Y) : u \in S
  <2> HIDE DEF S, Y
  <2> QED BY <1>1, <1>2, SeqInd
<1> QED BY <1>3

-----------------------------------------------------------------------------
(* Places of a list by value *)

\* Sets of numbers that are disjoint have as many elements together as they have in all.
LEMMA TotalOfSets ==
    ASSUME NEW C, NEW numbers \in Seq(Nat),
           \A g \in DOMAIN numbers : IsFiniteSet(C[g]) /\ Cardinality(C[g]) = numbers[g],
           \A g, h \in DOMAIN numbers : g # h => C[g] \cap C[h] = {}
    PROVE  Cardinality(UNION {C[g] : g \in DOMAIN numbers}) = Total(numbers)
<1> DEFINE n == Len(numbers)
           U(k) == UNION {C[g] : g \in 1..k}
<1>1. n \in Nat /\ DOMAIN numbers = 1..n
  OBVIOUS
<1>2. PICK f \in [0..n -> Nat] : /\ f[0] = 0
                                 /\ \A k \in 0..n - 1 : f[k + 1] = f[k] + numbers[k + 1]
                                 /\ Total(numbers) = f[n]
  BY TotalByPrefix
<1> HIDE DEF n
<1> DEFINE S == {k \in Nat : k <= n => IsFiniteSet(U(k)) /\ Cardinality(U(k)) = f[k]}
<1>3. 0 \in S
  <2>1. U(0) = {}
    OBVIOUS
  <2> QED BY <1>2, <2>1, FS_EmptySet
<1>4. ASSUME NEW k \in Nat, k \in S PROVE k + 1 \in S
  <2>1. ASSUME k + 1 <= n PROVE IsFiniteSet(U(k + 1)) /\ Cardinality(U(k + 1)) = f[k + 1]
    <3>1. k \in 0..n - 1 /\ k + 1 \in 1..n /\ k <= n /\ k \in 0..n
      BY <1>1, <2>1
    <3>2. IsFiniteSet(U(k)) /\ Cardinality(U(k)) = f[k] /\ f[k] \in Nat
      BY <1>2, <1>4, <3>1
    <3>3. IsFiniteSet(C[k + 1]) /\ Cardinality(C[k + 1]) = numbers[k + 1] /\ numbers[k + 1] \in Nat
      BY <1>1, <3>1
    <3>4. U(k + 1) = U(k) \cup C[k + 1]
      <4>1. 1..k + 1 = (1..k) \cup {k + 1}
        OBVIOUS
      <4> QED BY <4>1
    <3>5. U(k) \cap C[k + 1] = {}
      <4>1. ASSUME NEW g \in 1..k PROVE C[g] \cap C[k + 1] = {}
        <5>1. g \in DOMAIN numbers /\ k + 1 \in DOMAIN numbers /\ g # k + 1
          BY <1>1, <3>1
        <5> QED BY <5>1
      <4> QED BY <4>1
    <3>6. f[k + 1] = f[k] + numbers[k + 1]
      BY <1>2, <3>1
    <3> HIDE DEF U
    <3> DEFINE A == U(k)
               B == C[k + 1]
    <3>7. /\ IsFiniteSet(A \cup B)
          /\ Cardinality(A \cup B) = Cardinality(A) + Cardinality(B) - Cardinality(A \cap B)
      <4> HIDE DEF A, B
      <4>1. IsFiniteSet(A) /\ IsFiniteSet(B)
        BY <3>2, <3>3 DEF A, B
      <4> QED BY <4>1, FS_Union
    <3>8. Cardinality(A \cap B) = 0
      BY <3>5, FS_EmptySet
    <3>9. Cardinality(A) = f[k] /\ Cardinality(B) = numbers[k + 1] /\ U(k + 1) = A \cup B
      BY <3>2, <3>3, <3>4
    <3>10. f[k] \in Nat /\ numbers[k + 1] \in Nat
      BY <3>2, <3>3
    <3> DEFINE V == U(k + 1)
    <3>11. V = A \cup B
      BY <3>9
    <3> HIDE DEF A, B, V
    <3>12. IsFiniteSet(V)
      BY <3>7, <3>11
    <3>13. Cardinality(V) = Cardinality(A) + Cardinality(B) - Cardinality(A \cap B)
      BY <3>7, <3>11
    <3>14. Cardinality(V) = f[k + 1]
      BY <3>6, <3>8, <3>9, <3>10, <3>13
    <3> QED BY <3>12, <3>14 DEF V
  <2> HIDE DEF U
  <2> QED BY <2>1
<1>5. \A k \in Nat : k \in S
  <2> HIDE DEF S
  <2> QED BY <1>3, <1>4, NatInd
<1>6. Cardinality(U(n)) = f[n]
  BY <1>1, <1>5
<1> QED BY <1>1, <1>2, <1>6

\* What passes a test stays distinct.
LEMMA ThoseInjective ==
    ASSUME NEW X, NEW set, NEW list \in Seq(X), IsInjective(list)
    PROVE  IsInjective(Those(list, set))
<1> DEFINE S == {t \in Seq(X) : IsInjective(t) => IsInjective(Those(t, set))}
<1>1. <<>> \in S
  <2>1. <<>> \in Seq(X) /\ Those(<<>>, set) = <<>>
    BY ThoseEmpty
  <2> QED BY <2>1 DEF IsInjective
<1>2. ASSUME NEW t \in Seq(X), NEW x \in X, t \in S PROVE Append(t, x) \in S
  <2> DEFINE new == Append(t, x)
             those == Those(t, set)
             n == Len(t)
  <2>1. /\ n \in Nat /\ new \in Seq(X) /\ DOMAIN new = 1..n + 1 /\ DOMAIN t = 1..n /\ new[n + 1] = x
        /\ \A i \in 1..n : new[i] = t[i]
    OBVIOUS
  <2>2. Those(new, set) = those \o One(x, set) /\ those \in Seq(X) /\ Range(those) = Range(t) \cap set
    BY ThoseAppend, ThoseType
  <2> HIDE DEF n, those, new
  <2>3. ASSUME IsInjective(new) PROVE IsInjective(Those(new, set))
    <3>1. IsInjective(t)
      BY <2>1, <2>3 DEF IsInjective
    <3>2. IsInjective(those)
      BY <1>2, <3>1 DEF those
    <3>3. x \notin Range(t)
      <4> SUFFICES ASSUME NEW i \in 1..n, t[i] = x PROVE FALSE
        BY <2>1 DEF Range
      <4>1. new[i] = new[n + 1] /\ i \in DOMAIN new /\ n + 1 \in DOMAIN new /\ i # n + 1
        BY <2>1
      <4> QED BY <2>3, <4>1 DEF IsInjective
    <3>4. CASE x \notin set
      <4>1. One(x, set) = <<>> /\ those \o <<>> = those
        BY <2>2, <3>4 DEF One
      <4> QED BY <2>2, <3>2, <4>1
    <3>5. CASE x \in set
      <4>1. One(x, set) = <<x>>
        BY <3>5 DEF One
      <4> DEFINE u == those \o <<x>>
                 m == Len(those)
      <4>2. /\ m \in Nat /\ DOMAIN u = 1..m + 1 /\ u[m + 1] = x /\ DOMAIN those = 1..m
            /\ \A i \in 1..m : u[i] = those[i]
        BY <2>2
      <4>3. \A i \in 1..m : those[i] # x
        BY <2>2, <3>3, <4>2 DEF Range
      <4>4. Those(new, set) = u
        BY <2>2, <4>1
      <4> HIDE DEF u, m
      <4>5. IsInjective(u)
        BY <3>2, <4>2, <4>3 DEF IsInjective
      <4> QED BY <4>4, <4>5
    <3> QED BY <3>4, <3>5
  <2>4. new \in Seq(X)
    BY <2>1
  <2> QED BY <2>3, <2>4 DEF new
<1>3. \A t \in Seq(X) : t \in S
  <2> HIDE DEF S
  <2> QED BY <1>1, <1>2, SeqInd
<1> QED BY <1>3

\* Every place of a list is in one of the lists of places by value, and in no other.
LEMMA AlikeIs ==
    ASSUME NEW X, NEW values \in Seq(X)
    PROVE  LET alike == Alike(values)
               n == Len(values)
           IN /\ alike \in Seq(Seq(1..n))
              /\ \A g \in DOMAIN alike : alike[g] # <<>>
              /\ Total([g \in DOMAIN alike |-> Len(alike[g])]) = n
<1> DEFINE alike == Alike(values)
           n == Len(values)
           places == [i \in DOMAIN values |-> i]
           new == {i \in DOMAIN values : \A j \in 1..i - 1 : values[j] # values[i]}
           firsts == Those(places, new)
           class(g) == {i \in DOMAIN values : values[i] = values[firsts[g]]}
           G == DOMAIN firsts
<1>1. n \in Nat /\ DOMAIN values = 1..n /\ places \in Seq(1..n) /\ DOMAIN places = 1..n
      /\ (\A i \in 1..n : places[i] = i) /\ Len(places) = n
  OBVIOUS
<1> HIDE DEF n, places
<1>2. Range(places) = 1..n /\ IsInjective(places)
  BY <1>1 DEF Range, IsInjective
<1>3. new \subseteq 1..n
  BY <1>1
<1>4. firsts \in Seq(1..n) /\ Range(firsts) = new /\ IsInjective(firsts)
  <2> HIDE DEF new
  <2>1. firsts \in Seq(1..n) /\ Range(firsts) = Range(places) \cap new
    BY <1>1, ThoseType
  <2>2. IsInjective(firsts)
    BY <1>1, <1>2, ThoseInjective
  <2> QED BY <1>2, <1>3, <2>1, <2>2
<1>5. alike = [g \in G |-> Those(places, class(g))]
  BY DEF Alike, places
<1>6. G = 1..Len(firsts) /\ Len(firsts) \in Nat
  <2> HIDE DEF firsts
  <2> QED BY <1>4
<1>7. \A i, j \in 1..n : i \in new /\ j \in new /\ values[i] = values[j] => i = j
  BY <1>1
<1>8. \A g \in G : firsts[g] \in new
  BY <1>4 DEF Range
<1> HIDE DEF alike
<1>9. ASSUME NEW i \in 1..n PROVE \E g \in G : i \in class(g)
  <2> DEFINE same == {j \in 1..n : values[j] = values[i]}
             m == Min(same)
  <2>1. same \in SUBSET Nat /\ same # {}
    OBVIOUS
  <2>2. m \in same /\ \A j \in same : m <= j
    <3> HIDE DEF same
    <3> QED BY <2>1, MinOfPositions
  <2> HIDE DEF m
  <2>3. m \in new
    BY <1>1, <2>2
  <2>4. \E g \in G : firsts[g] = m
    BY <1>4, <2>3 DEF Range
  <2> QED BY <1>1, <2>2, <2>4
<1>10. ASSUME NEW g \in G, NEW h \in G, g # h PROVE class(g) \cap class(h) = {}
  <2>1. firsts[g] # firsts[h]
    BY <1>4, <1>10 DEF IsInjective
  <2>2. values[firsts[g]] # values[firsts[h]]
    BY <1>3, <1>7, <1>8, <2>1
  <2> QED BY <2>2
<1>11. \A g \in G : firsts[g] \in class(g) /\ class(g) \subseteq 1..n
  BY <1>1, <1>3, <1>8
<1> DEFINE C == [g \in G |-> class(g)]
<1>12. \A g \in G : C[g] = class(g)
  OBVIOUS
<1> HIDE DEF C, new
<1>13. ASSUME NEW g \in G
       PROVE  /\ Those(places, C[g]) \in Seq(1..n) /\ Those(places, C[g]) # <<>>
              /\ IsFiniteSet(C[g]) /\ Cardinality(C[g]) = Len(Those(places, C[g]))
  <2>1. Those(places, C[g]) \in Seq(1..n) /\ Range(Those(places, C[g])) = Range(places) \cap C[g]
    BY <1>1, ThoseType
  <2>2. firsts[g] \in Range(Those(places, C[g]))
    BY <1>2, <1>11, <1>12, <2>1
  <2>3. Those(places, C[g]) # <<>>
    <3>1. Range(<<>>) = {}
      BY DEF Range
    <3> QED BY <2>2, <3>1
  <2>4. {i \in DOMAIN places : places[i] \in C[g]} = C[g]
    BY <1>1, <1>11, <1>12
  <2>5. IsFiniteSet(1..n)
    BY <1>1, FS_Interval
  <2>6. IsFiniteSet(C[g])
    BY <1>11, <1>12, <2>5, FS_Subset
  <2>7. Len(Those(places, C[g])) = Cardinality({i \in DOMAIN places : places[i] \in C[g]})
    BY <1>1, CountThose
  <2> QED BY <2>1, <2>3, <2>4, <2>6, <2>7
<1>14. alike = [g \in G |-> Those(places, C[g])]
  BY <1>5, <1>12
<1>15. alike \in Seq(Seq(1..n)) /\ DOMAIN alike = G /\ \A g \in G : alike[g] = Those(places, C[g])
  BY <1>6, <1>13, <1>14
<1> DEFINE numbers == [g \in DOMAIN alike |-> Len(alike[g])]
<1>16. numbers \in Seq(Nat) /\ DOMAIN numbers = G /\ \A g \in G : numbers[g] = Len(alike[g])
  BY <1>6, <1>15
<1> HIDE DEF numbers
<1>17. /\ \A g \in DOMAIN numbers : IsFiniteSet(C[g]) /\ Cardinality(C[g]) = numbers[g]
       /\ \A g, h \in DOMAIN numbers : g # h => C[g] \cap C[h] = {}
  BY <1>10, <1>12, <1>13, <1>15, <1>16
<1>18. Cardinality(UNION {C[g] : g \in DOMAIN numbers}) = Total(numbers)
  BY <1>16, <1>17, TotalOfSets
<1>19. UNION {C[g] : g \in DOMAIN numbers} = 1..n
  <2>1. \A g \in G : C[g] \subseteq 1..n
    BY <1>11, <1>12
  <2>2. \A i \in 1..n : \E g \in G : i \in C[g]
    BY <1>9, <1>12
  <2> HIDE DEF G
  <2> QED BY <1>16, <2>1, <2>2
<1>20. Cardinality(1..n) = n
  BY <1>1, FS_Interval
<1> QED BY <1>13, <1>15, <1>18, <1>19, <1>20 DEF numbers, alike, n

-----------------------------------------------------------------------------
(* Groups and merged lines *)

LEMMA LokiThose == ASSUME NEW list, NEW set PROVE Loki!Those(list, set) = Those(list, set)
BY DEF Loki!Those, Those, Loki!FlattenSeq, FlattenSeq

LEMMA LokiAlike == ASSUME NEW values PROVE Loki!Alike(values) = Alike(values)
BY LokiThose DEF Loki!Alike, Alike

LEMMA LokiFlatten == ASSUME NEW seqs PROVE Loki!FlattenSeq(seqs) = FlattenSeq(seqs)
BY DEF Loki!FlattenSeq, FlattenSeq

LEMMA LokiRange == ASSUME NEW f PROVE Loki!Range(f) = Range(f)
BY DEF Loki!Range, Range

LEMMA ListOfLists ==
    ASSUME NEW n \in Nat, NEW f, f = [i \in 1..n |-> f[i]], \A i \in 1..n : IsList(f[i])
    PROVE  \E Y : /\ f \in Seq(Seq(Y)) /\ Len(f) = n /\ DOMAIN f = 1..n
                  /\ Y = UNION {Range(f[i]) : i \in 1..n}
<1> DEFINE Y == UNION {Range(f[i]) : i \in 1..n}
<1>1. ASSUME NEW i \in 1..n PROVE f[i] \in Seq(Y)
  <2>1. f[i] \in Seq(Range(f[i])) /\ Range(f[i]) \subseteq Y
    BY DEF IsList
  <2> HIDE DEF Y
  <2> QED BY <2>1
<1> HIDE DEF Y
<1>2. f \in Seq(Seq(Y)) /\ Len(f) = n /\ DOMAIN f = 1..n
  BY <1>1, SequenceFrom
<1> QED BY <1>2 DEF Y

LEMMA MergedLines ==
    ASSUME NEW lines, IsList(lines)
    PROVE  LET merged == Loki!Merge(lines) IN
           /\ IsList(merged)
           /\ \A k \in DOMAIN merged : /\ merged[k].occurrences \in Nat
                                       /\ merged[k].line \in Range(lines)
           /\ Total([k \in DOMAIN merged |-> merged[k].occurrences]) = Len(lines)
<1> DEFINE keys == [i \in DOMAIN lines |-> Loki!Key(lines[i])]
           alike == Alike(keys)
           n == Len(lines)
           merged == Loki!Merge(lines)
           one(k) == LET first == lines[Head(alike[k])]
                         stamps == [i \in DOMAIN alike[k] |-> lines[alike[k][i]].stamp]
                     IN [line |-> first, occurrences |-> Len(alike[k]),
                         stamps |-> Loki!SummarizeLineTimestamps(first.level, stamps)]
<1>1. n \in Nat /\ DOMAIN lines = 1..n /\ \A i \in 1..n : lines[i] \in Range(lines)
  BY DEF IsList
<1>2. merged = [k \in DOMAIN alike |-> one(k)]
  BY LokiAlike DEF Loki!Merge
<1>3. keys \in Seq(Range(keys)) /\ Len(keys) = n
  <2>1. keys = [i \in 1..n |-> keys[i]]
    BY <1>1
  <2> HIDE DEF keys, n
  <2> QED BY <1>1, <2>1, MappedList DEF IsList
<1> HIDE DEF keys
<1>4. /\ alike \in Seq(Seq(1..n))
      /\ \A g \in DOMAIN alike : alike[g] # <<>>
      /\ Total([g \in DOMAIN alike |-> Len(alike[g])]) = n
  BY <1>3, AlikeIs
<1> HIDE DEF alike, merged, n
<1>5. \A k \in DOMAIN merged : merged[k] = one(k) /\ k \in DOMAIN alike
  BY <1>2
<1>6. DOMAIN merged = DOMAIN alike /\ DOMAIN alike = 1..Len(alike) /\ Len(alike) \in Nat
  BY <1>2, <1>4
<1>7. ASSUME NEW k \in DOMAIN merged
      PROVE  /\ merged[k].occurrences = Len(alike[k]) /\ merged[k].occurrences \in Nat
             /\ merged[k].line \in Range(lines)
  <2>1. alike[k] \in Seq(1..n) /\ alike[k] # <<>>
    BY <1>4, <1>6
  <2> DEFINE l == alike[k]
  <2>2. l \in Seq(1..n) /\ l # <<>>
    BY <2>1
  <2> HIDE DEF l
  <2>3. Head(l) \in 1..n /\ Len(l) \in Nat
    BY <2>2, ElementsOf
  <2>4. merged[k] = one(k) /\ one(k).occurrences = Len(l) /\ one(k).line = lines[Head(l)]
    <3>1. merged[k] = one(k)
      BY <1>5
    <3>2. one(k).occurrences = Len(l) /\ one(k).line = lines[Head(l)]
      BY DEF l
    <3> HIDE DEF one
    <3> QED BY <3>1, <3>2
  <2> HIDE DEF one
  <2> QED BY <1>1, <2>3, <2>4 DEF l
<1>8. IsList(merged)
  <2>1. merged = [k \in 1..Len(alike) |-> merged[k]]
    BY <1>2, <1>6
  <2> QED BY <1>6, <2>1, MappedList
<1>9. [k \in DOMAIN merged |-> merged[k].occurrences] = [g \in DOMAIN alike |-> Len(alike[g])]
  BY <1>6, <1>7
<1> QED BY <1>4, <1>7, <1>8, <1>9 DEF merged, n

LEMMA GroupedLines ==
    ASSUME NEW entries, IsList(entries)
    PROVE  LET groups == Loki!GroupLogEntriesByLabels(entries) IN
           /\ groups = [g \in 1..Len(groups) |-> groups[g]] /\ Len(groups) \in Nat
           /\ DOMAIN groups = 1..Len(groups)
           /\ \A g \in DOMAIN groups :
                /\ IsList(groups[g].lines)
                /\ \A line \in Range(groups[g].lines) : \E i \in DOMAIN entries : line = entries[i].line
           /\ Total([g \in DOMAIN groups |-> Len(groups[g].lines)]) = Len(entries)
<1> DEFINE labels == [i \in DOMAIN entries |-> entries[i].labels]
           alike == Alike(labels)
           n == Len(entries)
           groups == Loki!GroupLogEntriesByLabels(entries)
           lines(g) == [i \in DOMAIN alike[g] |-> entries[alike[g][i]].line]
<1>1. n \in Nat /\ DOMAIN entries = 1..n
  BY DEF IsList
<1>2. groups = [g \in DOMAIN alike |-> [labels |-> entries[Head(alike[g])].labels, lines |-> lines(g)]]
  BY LokiAlike DEF Loki!GroupLogEntriesByLabels
<1>3. labels \in Seq(Range(labels)) /\ Len(labels) = n
  <2>1. labels = [i \in 1..n |-> labels[i]]
    BY <1>1
  <2> HIDE DEF labels, n
  <2> QED BY <1>1, <2>1, MappedList DEF IsList
<1> HIDE DEF labels
<1>4. /\ alike \in Seq(Seq(1..n))
      /\ Total([g \in DOMAIN alike |-> Len(alike[g])]) = n
  BY <1>3, AlikeIs
<1> HIDE DEF alike, groups, n
<1>5. DOMAIN groups = DOMAIN alike /\ \A g \in DOMAIN alike : groups[g].lines = lines(g)
  BY <1>2
<1>6. DOMAIN alike = 1..Len(alike) /\ Len(alike) \in Nat
  BY <1>4
<1>7. ASSUME NEW g \in DOMAIN alike
      PROVE  /\ IsList(lines(g)) /\ Len(lines(g)) = Len(alike[g])
             /\ \A line \in Range(lines(g)) : \E i \in DOMAIN entries : line = entries[i].line
  <2> DEFINE l == lines(g)
             m == Len(alike[g])
             a == alike[g]
  <2>5. a \in Seq(1..n)
    BY <1>4, <1>6
  <2>1. /\ m \in Nat /\ DOMAIN alike[g] = 1..m
        /\ \A i \in 1..m : alike[g][i] \in 1..n
    <3>1. m = Len(a)
      OBVIOUS
    <3> HIDE DEF a, m
    <3>2. m \in Nat /\ DOMAIN a = 1..m /\ \A i \in 1..m : a[i] \in 1..n
      BY <2>5, <3>1, ElementsOf
    <3> QED BY <3>2 DEF a
  <2>2. l = [i \in 1..m |-> l[i]] /\ \A i \in 1..m : l[i] = entries[alike[g][i]].line
    BY <2>1
  <2> HIDE DEF l, m
  <2>3. IsList(l) /\ Len(l) = m /\ DOMAIN l = 1..m
    BY <2>1, <2>2, MappedList
  <2>4. \A line \in Range(l) : \E i \in DOMAIN entries : line = entries[i].line
    <3> SUFFICES ASSUME NEW line \in Range(l) PROVE \E i \in DOMAIN entries : line = entries[i].line
      OBVIOUS
    <3>1. PICK i \in 1..m : line = l[i]
      BY <2>3 DEF Range
    <3>2. line = entries[alike[g][i]].line /\ alike[g][i] \in DOMAIN entries
      BY <1>1, <2>1, <2>2, <3>1
    <3> QED BY <3>2
  <2> QED BY <2>3, <2>4 DEF l, m
<1>8. groups = [g \in 1..Len(alike) |-> groups[g]]
  BY <1>2, <1>6
<1>9. Len(groups) = Len(alike)
  BY <1>6, <1>8, MappedList
<1>10. [g \in DOMAIN groups |-> Len(groups[g].lines)] = [g \in DOMAIN alike |-> Len(alike[g])]
  BY <1>5, <1>7
<1>11. Total([g \in DOMAIN groups |-> Len(groups[g].lines)]) = n
  BY <1>4, <1>10
<1>12. \A g \in DOMAIN groups :
           /\ IsList(groups[g].lines)
           /\ \A line \in Range(groups[g].lines) : \E i \in DOMAIN entries : line = entries[i].line
  <2> SUFFICES ASSUME NEW g \in DOMAIN alike
               PROVE  /\ IsList(groups[g].lines)
                      /\ \A line \in Range(groups[g].lines) : \E i \in DOMAIN entries : line = entries[i].line
    BY <1>5
  <2>1. groups[g].lines = lines(g)
    BY <1>5
  <2>2. /\ IsList(lines(g))
        /\ \A line \in Range(lines(g)) : \E i \in DOMAIN entries : line = entries[i].line
    BY <1>7
  <2> HIDE DEF lines
  <2> QED BY <2>1, <2>2
<1>13. groups = [g \in 1..Len(groups) |-> groups[g]] /\ Len(groups) \in Nat /\ DOMAIN groups = 1..Len(groups)
  BY <1>5, <1>6, <1>8, <1>9
<1> QED BY <1>11, <1>12, <1>13, Zenon DEF groups, n

\* All lines that are told, and how many they stand for.
ToldOf(groups) == FlattenSeq([g \in DOMAIN groups |-> groups[g].lines])
LEMMA OccurrencesOfAll ==
    ASSUME NEW entries, IsList(entries)
    PROVE  LET told == ToldOf(Loki!DeduplicateGroupedLines(Loki!GroupLogEntriesByLabels(entries)))
           IN /\ Total([i \in DOMAIN told |-> told[i].occurrences]) = Len(entries)
              /\ \A i \in DOMAIN told : \E j \in DOMAIN entries : told[i].line = entries[j].line
<1> DEFINE groups == Loki!GroupLogEntriesByLabels(entries)
           merged == Loki!DeduplicateGroupedLines(groups)
           n == Len(groups)
           lists == [g \in DOMAIN merged |-> merged[g].lines]
           told == ToldOf(merged)
<1>1. /\ groups = [g \in 1..n |-> groups[g]] /\ n \in Nat /\ DOMAIN groups = 1..n
      /\ \A g \in 1..n :
           /\ IsList(groups[g].lines)
           /\ \A line \in Range(groups[g].lines) : \E i \in DOMAIN entries : line = entries[i].line
      /\ Total([g \in 1..n |-> Len(groups[g].lines)]) = Len(entries)
  BY GroupedLines
<1>2. merged = [g \in DOMAIN groups |->
                  [labels |-> groups[g].labels, lines |-> Loki!Merge(groups[g].lines)]]
  BY DEF Loki!DeduplicateGroupedLines
<1> HIDE DEF groups, n, merged
<1>3. DOMAIN merged = 1..n /\ \A g \in 1..n : merged[g].lines = Loki!Merge(groups[g].lines)
  BY <1>1, <1>2
<1>4. DOMAIN lists = 1..n /\ (\A g \in 1..n : lists[g] = Loki!Merge(groups[g].lines))
      /\ lists = [g \in 1..n |-> lists[g]]
  BY <1>3
<1>5. told = FlattenSeq(lists)
  BY DEF ToldOf
<1> HIDE DEF lists, told
<1>6. ASSUME NEW g \in 1..n
      PROVE  /\ IsList(lists[g])
             /\ \A k \in DOMAIN lists[g] : /\ lists[g][k].occurrences \in Nat
                                           /\ lists[g][k].line \in Range(groups[g].lines)
             /\ Total([k \in DOMAIN lists[g] |-> lists[g][k].occurrences]) = Len(groups[g].lines)
  <2>1. IsList(groups[g].lines)
    BY <1>1
  <2> QED BY <1>4, <2>1, MergedLines
<1>7. PICK Y : /\ lists \in Seq(Seq(Y)) /\ Y = UNION {Range(lists[g]) : g \in 1..n}
  BY <1>1, <1>4, <1>6, ListOfLists
<1> DEFINE size == [r \in Y |-> r.occurrences]
<1>8. ASSUME NEW r \in Y PROVE r.occurrences \in Nat
  <2>1. PICK g \in 1..n : r \in Range(lists[g])
    BY <1>7
  <2>2. PICK k \in DOMAIN lists[g] : r = lists[g][k]
    BY <2>1 DEF Range
  <2> QED BY <1>6, <2>2
<1>9. size \in [Y -> Nat] /\ \A r \in Y : size[r] = r.occurrences
  BY <1>8
<1> HIDE DEF size
<1>10. ASSUME NEW t \in Seq(Y) PROVE SizesOf(t, size) = [i \in DOMAIN t |-> t[i].occurrences]
  <2>1. \A i \in DOMAIN t : size[t[i]] = t[i].occurrences
    BY <1>9
  <2> QED BY <2>1 DEF SizesOf
<1>11. told \in Seq(Y)
  BY <1>5, <1>7, FlattenType
<1>12. Sums(lists, size) = [g \in 1..n |-> Len(groups[g].lines)]
  <2>1. ASSUME NEW g \in 1..n PROVE Total(SizesOf(lists[g], size)) = Len(groups[g].lines)
    <3>1. lists[g] \in Seq(Y)
      <4> DEFINE W == Seq(Y)
      <4>1. lists \in Seq(W)
        BY <1>7
      <4> HIDE DEF W
      <4>2. lists[g] \in W
        BY <1>4, <4>1, ElementsOf
      <4> QED BY <4>2 DEF W
    <3> QED BY <1>6, <1>10, <3>1
  <2> QED BY <1>4, <2>1 DEF Sums
<1>13. Total(SizesOf(told, size)) = Len(entries)
  BY <1>1, <1>5, <1>7, <1>9, <1>12, SizesOfLists
<1>14. Total([i \in DOMAIN told |-> told[i].occurrences]) = Len(entries)
  BY <1>10, <1>11, <1>13
<1>15. ASSUME NEW i \in DOMAIN told PROVE \E j \in DOMAIN entries : told[i].line = entries[j].line
  <2>1. told[i] \in Range(FlattenSeq(lists))
    BY <1>5 DEF Range
  <2>2. PICK g \in 1..n : told[i] \in Range(lists[g])
    BY <1>4, <1>7, <2>1, FlattenRange
  <2>3. PICK k \in DOMAIN lists[g] : told[i] = lists[g][k]
    BY <2>2 DEF Range
  <2>4. told[i].line \in Range(groups[g].lines)
    BY <1>6, <2>3
  <2> QED BY <1>1, <2>4
<1> QED BY <1>14, <1>15 DEF told, merged, groups

-----------------------------------------------------------------------------
(* The latest lines of a log *)

\* As many are among the first as there may be when any is not.
LEMMA FirstOnes ==
    ASSUME NEW S, IsFiniteSet(S), NEW R, IsOrder(S, R), NEW m \in Nat,
           NEW x \in S, RankIn(S, R, x) >= m
    PROVE  Cardinality({y \in S : RankIn(S, R, y) < m}) >= m
<1> DEFINE F == {y \in S : RankIn(S, R, y) < m}
           T == 0..m - 1
           f == [y \in F |-> RankIn(S, R, y)]
           n == Cardinality(S)
<1>1. n \in Nat
  BY FS_CardinalityType
<1> HIDE DEF n
<1>2. /\ \A y \in S : RankIn(S, R, y) \in 0..n - 1
      /\ \A k \in 0..n - 1 : \E y \in S : RankIn(S, R, y) = k
  BY Ranks DEF n
<1>3. m <= n - 1
  BY <1>1, <1>2
<1>4. f \in [F -> T] /\ \A y \in F : f[y] = RankIn(S, R, y)
  BY <1>1, <1>2
<1>5. \A k \in T : \E y \in F : f[y] = k
  <2> TAKE k \in T
  <2>1. k \in 0..n - 1 /\ k < m
    BY <1>1, <1>3
  <2> QED BY <1>2, <2>1
<1>6. IsFiniteSet(F)
  BY FS_Subset
<1>7. Cardinality(T) = m
  BY FS_Interval
<1> HIDE DEF F, T, f
<1>8. f \in Surjection(F, T)
  BY <1>4, <1>5 DEF Surjection
<1>9. Cardinality(T) <= Cardinality(F)
  BY <1>6, <1>8, FS_Surjection
<1>10. Cardinality(F) \in Nat
  BY <1>6, FS_CardinalityType
<1> QED BY <1>7, <1>9, <1>10 DEF F

LEMMA ImageOfList ==
    ASSUME NEW n \in Nat, NEW f, f = [i \in 1..n |-> f[i]]
    PROVE  LET T == {f[i] : i \in 1..n} IN IsFiniteSet(T) /\ Cardinality(T) <= n
<1> DEFINE T == {f[i] : i \in 1..n}
<1>1. f \in Surjection(1..n, T)
  BY DEF Surjection
<1>2. IsFiniteSet(1..n) /\ Cardinality(1..n) = n
  BY FS_Interval
<1> HIDE DEF T
<1>3. IsFiniteSet(T) /\ Cardinality(T) <= Cardinality(1..n)
  BY <1>1, <1>2, FS_Surjection
<1> QED BY <1>2, <1>3 DEF T

-----------------------------------------------------------------------------
(* The lines that are returned *)

\* Totals of lists of which one is never above the other.
LEMMA TotalBelow ==
    ASSUME NEW a \in Seq(Nat), NEW b \in Seq(Nat), Len(a) = Len(b),
           \A i \in DOMAIN a : a[i] <= b[i]
    PROVE  Total(a) <= Total(b)
<1> DEFINE n == Len(a)
<1>1. n \in Nat /\ DOMAIN a = 1..n /\ \A i \in 1..n : a[i] \in Nat /\ b[i] \in Nat
  OBVIOUS
<1>2. PICK f \in [0..n -> Nat] : /\ f[0] = 0
                                 /\ \A k \in 0..n - 1 : f[k + 1] = f[k] + a[k + 1]
                                 /\ Total(a) = f[n]
  BY TotalByPrefix
<1>3. PICK g \in [0..n -> Nat] : /\ g[0] = 0
                                 /\ \A k \in 0..n - 1 : g[k + 1] = g[k] + b[k + 1]
                                 /\ Total(b) = g[n]
  BY TotalByPrefix
<1> HIDE DEF n
<1> DEFINE S == {k \in Nat : k <= n => f[k] <= g[k]}
<1>4. 0 \in S
  BY <1>2, <1>3
<1>5. ASSUME NEW k \in Nat, k \in S PROVE k + 1 \in S
  <2>1. ASSUME k + 1 <= n PROVE f[k + 1] <= g[k + 1]
    <3>1. k \in 0..n - 1 /\ k + 1 \in 1..n /\ k \in 0..n /\ f[k] <= g[k]
      BY <1>1, <1>5, <2>1
    <3>2. a[k + 1] <= b[k + 1] /\ a[k + 1] \in Nat /\ b[k + 1] \in Nat
      BY <1>1, <3>1
    <3>3. f[k] \in Nat /\ g[k] \in Nat
      BY <1>2, <1>3, <3>1
    <3>4. f[k + 1] = f[k] + a[k + 1] /\ g[k + 1] = g[k] + b[k + 1]
      BY <1>2, <1>3, <3>1
    <3> QED BY <3>1, <3>2, <3>3, <3>4
  <2> QED BY <2>1
<1>6. \A k \in Nat : k \in S
  <2> HIDE DEF S
  <2> QED BY <1>4, <1>5, NatInd
<1> QED BY <1>1, <1>2, <1>3, <1>6

\* Streams: lists of lines, as Loki holds and as it returns them.
Log(streams) ==
    /\ Len(streams) \in Nat /\ streams = [i \in 1..Len(streams) |-> streams[i]]
    /\ \A i \in 1..Len(streams) : IsList(streams[i].lines)
LinesOf(streams) == [i \in 1..Len(streams) |-> streams[i].lines]
LinesIn(streams) == Total([i \in 1..Len(streams) |-> Len(streams[i].lines)])
Has(streams, i, raw) == i \in 1..Len(streams) /\ raw \in Range(streams[i].lines)

LEMMA LogLines ==
    ASSUME NEW streams, Log(streams)
    PROVE  /\ \E Y : LinesOf(streams) \in Seq(Seq(Y))
           /\ IsList(FlattenSeq(LinesOf(streams)))
           /\ Len(FlattenSeq(LinesOf(streams))) = LinesIn(streams)
           /\ LinesIn(streams) \in Nat
           /\ \A raw : raw \in Range(FlattenSeq(LinesOf(streams))) <=> \E i : Has(streams, i, raw)
           /\ DOMAIN streams = 1..Len(streams)
<1> DEFINE n == Len(streams)
           lists == LinesOf(streams)
<1>1. n \in Nat /\ DOMAIN streams = 1..n
  BY DEF Log
<1>2. lists = [i \in 1..n |-> lists[i]] /\ \A i \in 1..n : lists[i] = streams[i].lines /\ IsList(lists[i])
  BY DEF Log, LinesOf
<1> HIDE DEF n, lists
<1>3. PICK Y : lists \in Seq(Seq(Y)) /\ DOMAIN lists = 1..n
  BY <1>1, <1>2, ListOfLists
<1>4. FlattenSeq(lists) \in Seq(Y)
  BY <1>3, FlattenType
<1>5. IsList(FlattenSeq(lists)) /\ Len(FlattenSeq(lists)) \in Nat
  <2> DEFINE all == FlattenSeq(lists)
  <2>1. all \in Seq(Y)
    BY <1>4
  <2> HIDE DEF all
  <2>2. IsList(all) /\ Len(all) \in Nat
    BY <2>1 DEF IsList, Range
  <2> QED BY <2>2 DEF all
<1>6. Len(FlattenSeq(lists)) = Total([i \in DOMAIN lists |-> Len(lists[i])])
  BY <1>3, FlattenLength
<1>7. [i \in DOMAIN lists |-> Len(lists[i])] = [i \in 1..n |-> Len(streams[i].lines)]
  BY <1>2, <1>3
<1>8. ASSUME NEW raw PROVE raw \in Range(FlattenSeq(lists)) <=> \E i : Has(streams, i, raw)
  <2>1. raw \in Range(FlattenSeq(lists)) <=> \E i \in DOMAIN lists : raw \in Range(lists[i])
    BY <1>3, FlattenRange
  <2>2. (\E i \in DOMAIN lists : raw \in Range(lists[i])) <=> \E i : Has(streams, i, raw)
    BY <1>2, <1>3 DEF Has, n
  <2> QED BY <2>1, <2>2
<1>9. Len(FlattenSeq(lists)) = LinesIn(streams)
  BY <1>6, <1>7 DEF LinesIn, n
<1> QED BY <1>1, <1>3, <1>5, <1>8, <1>9 DEF lists, n

\* What Loki sends of the lines of a stream.
TimesOf(streams) ==
    UNION {{streams[i].lines[j].time : j \in DOMAIN streams[i].lines} : i \in DOMAIN streams}
RankOf(streams, request, t) ==
    Cardinality({x \in TimesOf(streams) : IF request.newest THEN x > t ELSE x < t})
ChosenOf(streams, request, lines) ==
    Those(lines, {l \in Range(lines) : \/ request.limit = Loki!NoLimit
                                       \/ RankOf(streams, request, l.time) < request.limit})
SentOf(streams, request, lines) ==
    IF request.newest THEN Reverse(ChosenOf(streams, request, lines))
    ELSE ChosenOf(streams, request, lines)
LEMMA AnswerIs ==
    ASSUME NEW streams, NEW request
    PROVE  Loki!Answer(streams, request) =
               [i \in DOMAIN streams |->
                   [streams[i] EXCEPT !.lines = SentOf(streams, request, @)]]
<1> DEFINE Rank(t) == RankOf(streams, request, t)
           chosen(lines) == {l \in Range(lines) : \/ request.limit = Loki!NoLimit
                                                 \/ Rank(l.time) < request.limit}
<1>1. Loki!Answer(streams, request) =
          [i \in DOMAIN streams |->
              [streams[i] EXCEPT !.lines =
                  IF request.newest THEN Reverse(Loki!Those(@, chosen(@))) ELSE Loki!Those(@, chosen(@))]]
  BY DEF Loki!Answer, RankOf, TimesOf, Loki!Reverse, Reverse, Loki!Range, Range,
         Loki!Cardinality, Cardinality
<1> HIDE DEF Rank
<1>2. \A lines : (IF request.newest THEN Reverse(Loki!Those(lines, chosen(lines)))
                 ELSE Loki!Those(lines, chosen(lines))) = SentOf(streams, request, lines)
  BY LokiThose DEF SentOf, ChosenOf, Rank
<1> HIDE DEF chosen
<1> QED BY <1>1, <1>2

LEMMA ReversedList ==
    ASSUME NEW X, NEW list \in Seq(X)
    PROVE  /\ IsList(Reverse(list)) /\ Len(Reverse(list)) = Len(list)
           /\ Range(Reverse(list)) = Range(list)
<1> DEFINE n == Len(list)
           r == Reverse(list)
<1>1. n \in Nat /\ DOMAIN list = 1..n
  OBVIOUS
<1>2. r = [i \in 1..n |-> r[i]] /\ \A i \in 1..n : r[i] = list[n - i + 1]
  BY DEF Reverse
<1> HIDE DEF r, n
<1>3. IsList(r) /\ Len(r) = n /\ DOMAIN r = 1..n
  BY <1>1, <1>2, MappedList
<1>4. \A i \in 1..n : n - i + 1 \in 1..n /\ n - (n - i + 1) + 1 = i
  BY <1>1
<1>5. ASSUME NEW i \in 1..n PROVE r[i] \in Range(list) /\ list[i] \in Range(r)
  <2>1. r[i] = list[n - i + 1] /\ r[n - i + 1] = list[i] /\ n - i + 1 \in 1..n
    BY <1>2, <1>4
  <2> QED BY <1>1, <1>3, <2>1 DEF Range
<1>6. Range(r) = Range(list)
  BY <1>1, <1>3, <1>5 DEF Range
<1> QED BY <1>3, <1>6 DEF r, n

LEMMA SentLines ==
    ASSUME NEW streams, NEW request, NEW lines, IsList(lines)
    PROVE  LET sent == SentOf(streams, request, lines)
               chosen(l) == \/ request.limit = Loki!NoLimit
                            \/ RankOf(streams, request, l.time) < request.limit
           IN /\ IsList(sent) /\ Len(sent) \in Nat /\ Len(lines) \in Nat /\ Len(sent) <= Len(lines)
              /\ \A l : l \in Range(sent) <=> l \in Range(lines) /\ chosen(l)
              /\ (\A l \in Range(lines) : chosen(l)) => Len(sent) = Len(lines)
<1> DEFINE X == Range(lines)
           n == Len(lines)
           chosen(l) == \/ request.limit = Loki!NoLimit
                        \/ RankOf(streams, request, l.time) < request.limit
           set == {l \in X : chosen(l)}
           c == ChosenOf(streams, request, lines)
           sent == SentOf(streams, request, lines)
<1>1. lines \in Seq(X) /\ n \in Nat /\ DOMAIN lines = 1..n
  BY DEF IsList
<1>2. c = Those(lines, set)
  BY DEF ChosenOf
<1>3. \A l : l \in set <=> l \in X /\ chosen(l)
  OBVIOUS
<1> HIDE DEF set, c, n, chosen
<1>4. c \in Seq(X) /\ Range(c) = X \cap set /\ Len(c) = Cardinality({i \in 1..n : lines[i] \in set})
  BY <1>1, <1>2, ThoseType, CountThose
<1>5. IsFiniteSet(1..n) /\ Cardinality(1..n) = n
  BY <1>1, FS_Interval
<1>6. Len(c) <= n
  <2>1. {i \in 1..n : lines[i] \in set} \in SUBSET (1..n)
    OBVIOUS
  <2>2. /\ IsFiniteSet({i \in 1..n : lines[i] \in set})
        /\ Cardinality({i \in 1..n : lines[i] \in set}) <= n
    BY <1>5, <2>1, FS_Subset
  <2> QED BY <1>4, <2>2
<1>7. ASSUME \A l \in X : chosen(l) PROVE Len(c) = n
  <2>1. {i \in 1..n : lines[i] \in set} = 1..n
    <3>1. \A i \in 1..n : lines[i] \in X
      BY <1>1, ElementsOf
    <3> HIDE DEF X
    <3> QED BY <1>3, <1>7, <3>1
  <2> QED BY <1>4, <1>5, <2>1
<1>8. IsList(c) /\ Len(c) \in Nat
  <2> HIDE DEF X
  <2> QED BY <1>4, ListOf, ElementsOf
<1>9. IsList(sent) /\ Len(sent) = Len(c) /\ Range(sent) = Range(c)
  <2>1. CASE request.newest
    <3>1. sent = Reverse(c)
      BY <2>1 DEF SentOf, c
    <3> QED BY <1>4, <3>1, ReversedList
  <2>2. CASE ~request.newest
    <3>1. sent = c
      BY <2>2 DEF SentOf, c
    <3> QED BY <1>8, <3>1
  <2> QED BY <2>1, <2>2
<1> HIDE DEF sent, X
<1>10. \A l : l \in Range(sent) <=> l \in X /\ chosen(l)
  BY <1>3, <1>4, <1>9
<1> QED BY <1>1, <1>6, <1>7, <1>8, <1>9, <1>10 DEF sent, X, n, chosen

\* The streams are returned with as many lines as were asked for, or all of them.
IsTimed(streams) ==
    \A i \in 1..Len(streams) :
        "lines" \in DOMAIN streams[i] /\ \A l \in Range(streams[i].lines) : l.time \in Int
LEMMA AnswerCounts ==
    ASSUME NEW streams, Log(streams), IsTimed(streams), NEW request, request.limit \in Nat
    PROVE  LET sent == Loki!Answer(streams, request) IN
           /\ Log(sent) /\ Len(sent) = Len(streams)
           /\ \A i \in 1..Len(streams) : \A raw \in Range(sent[i].lines) :
                raw \in Range(streams[i].lines)
           /\ \A i \in 1..Len(streams) : "labels" \in DOMAIN streams[i] =>
                sent[i].labels = streams[i].labels
           /\ LinesIn(sent) <= LinesIn(streams)
           /\ request.limit = Loki!NoLimit => LinesIn(sent) = LinesIn(streams)
           /\ LinesIn(sent) = LinesIn(streams) \/ LinesIn(sent) >= request.limit
<1> DEFINE n == Len(streams)
           sent == Loki!Answer(streams, request)
           part(i) == SentOf(streams, request, streams[i].lines)
           times == TimesOf(streams)
           limit == request.limit
           chosen(l) == \/ limit = Loki!NoLimit
                        \/ RankOf(streams, request, l.time) < limit
<1>1. n \in Nat /\ streams = [i \in 1..n |-> streams[i]] /\ DOMAIN streams = 1..n
      /\ \A i \in 1..n : IsList(streams[i].lines) /\ "lines" \in DOMAIN streams[i]
  BY DEF Log, IsTimed
<1>2. sent = [i \in 1..n |-> [streams[i] EXCEPT !.lines = part(i)]]
  BY <1>1, AnswerIs
<1> HIDE DEF sent, n, part
<1>3. /\ sent = [i \in 1..n |-> sent[i]] /\ DOMAIN sent = 1..n
      /\ \A i \in 1..n : /\ sent[i].lines = part(i)
                         /\ "labels" \in DOMAIN streams[i] => sent[i].labels = streams[i].labels
  BY <1>1, <1>2
<1>4. Len(sent) = n
  BY <1>1, <1>3, MappedList
<1> HIDE DEF chosen
<1>5. ASSUME NEW i \in 1..n
      PROVE  /\ IsList(part(i)) /\ Len(part(i)) \in Nat /\ Len(streams[i].lines) \in Nat
             /\ Len(part(i)) <= Len(streams[i].lines)
             /\ \A l : l \in Range(part(i)) <=> l \in Range(streams[i].lines) /\ chosen(l)
             /\ (\A l \in Range(streams[i].lines) : chosen(l)) => Len(part(i)) = Len(streams[i].lines)
  BY <1>1, SentLines DEF part, chosen
<1>6. Log(sent)
  BY <1>1, <1>3, <1>4, <1>5 DEF Log
<1> DEFINE a == [i \in 1..n |-> Len(part(i))]
           b == [i \in 1..n |-> Len(streams[i].lines)]
<1>7. a \in Seq(Nat) /\ b \in Seq(Nat) /\ Len(a) = n /\ Len(b) = n /\ DOMAIN a = 1..n
  <2>1. /\ a = [i \in 1..n |-> a[i]] /\ b = [i \in 1..n |-> b[i]]
        /\ \A i \in 1..n : a[i] \in Nat /\ b[i] \in Nat
    BY <1>5
  <2> HIDE DEF a, b
  <2> QED BY <1>1, <2>1, SequenceFrom
<1>8. LinesIn(sent) = Total(a) /\ LinesIn(streams) = Total(b)
  <2>1. [i \in 1..n |-> Len(sent[i].lines)] = a
    BY <1>3
  <2> HIDE DEF a
  <2> QED BY <1>4, <2>1 DEF LinesIn, n
<1>9. LinesIn(sent) <= LinesIn(streams)
  <2>1. \A i \in 1..n : a[i] <= b[i]
    BY <1>5
  <2> HIDE DEF a, b
  <2> QED BY <1>7, <1>8, <2>1, TotalBelow
<1>10. ASSUME \A i \in 1..n : \A l \in Range(streams[i].lines) : chosen(l)
       PROVE  LinesIn(sent) = LinesIn(streams)
  <2>1. a = b
    BY <1>5, <1>10
  <2> HIDE DEF a, b
  <2> QED BY <1>8, <2>1
<1>11. limit = Loki!NoLimit => LinesIn(sent) = LinesIn(streams)
  BY <1>10 DEF chosen
<1>12. ASSUME NEW i \in 1..n, NEW l \in Range(streams[i].lines), ~chosen(l)
       PROVE  LinesIn(sent) >= limit
  <2> DEFINE all == FlattenSeq(LinesOf(streams))
             raw == FlattenSeq(LinesOf(sent))
             R == {p \in times \X times : IF request.newest THEN p[1] > p[2] ELSE p[1] < p[2]}
             first == {t \in times : RankIn(times, R, t) < limit}
             m == Len(all)
             stamps == [k \in 1..m |-> all[k].time]
             N == Len(raw)
             sentStamps == [k \in 1..N |-> raw[k].time]
  <2>1. /\ IsList(all) /\ m \in Nat /\ DOMAIN all = 1..m
        /\ \A x : x \in Range(all) <=> \E j : Has(streams, j, x)
    BY LogLines DEF IsList
  <2>2. /\ IsList(raw) /\ N \in Nat /\ DOMAIN raw = 1..N /\ N = LinesIn(sent)
        /\ \A x : x \in Range(raw) <=> \E j : Has(sent, j, x)
    BY <1>6, LogLines DEF IsList
  <2> HIDE DEF all, raw, m, N
  <2>3. \A t : t \in times <=> \E j : \E x : Has(streams, j, x) /\ t = x.time
    BY <1>1 DEF TimesOf, Has, Range, n
  <2>4. \A t \in times : t \in Int
    BY <2>3 DEF Has, IsTimed
  <2>5. times = {stamps[k] : k \in 1..m}
    <3>1. ASSUME NEW t \in times PROVE \E k \in 1..m : stamps[k] = t
      <4>1. PICK x : (\E j : Has(streams, j, x)) /\ t = x.time
        BY <2>3
      <4>2. x \in Range(all)
        BY <2>1, <4>1
      <4> QED BY <2>1, <4>1, <4>2 DEF Range
    <3>2. ASSUME NEW k \in 1..m PROVE stamps[k] \in times
      <4>1. all[k] \in Range(all)
        BY <2>1 DEF Range
      <4> QED BY <2>1, <2>3, <4>1
    <3> HIDE DEF stamps, times
    <3> QED BY <3>1, <3>2
  <2>6. IsFiniteSet(times)
    <3>1. stamps = [k \in 1..m |-> stamps[k]]
      OBVIOUS
    <3> HIDE DEF stamps, times
    <3> QED BY <2>1, <2>5, <3>1, ImageOfList
  <2> HIDE DEF times
  <2>7. \A x, y \in times : <<x, y>> \in R <=> IF request.newest THEN x > y ELSE x < y
    OBVIOUS
  <2> HIDE DEF R
  <2>8. IsOrder(times, R)
    BY <2>4, <2>7 DEF IsOrder
  <2>9. \A t \in times : RankOf(streams, request, t) = RankIn(times, R, t)
    <3> TAKE t \in times
    <3>1. {x \in times : IF request.newest THEN x > t ELSE x < t} = Before(times, R, t)
      BY <2>7 DEF Before
    <3> QED BY <3>1 DEF RankOf, RankIn, times
  <2>10. l.time \in times /\ RankOf(streams, request, l.time) >= limit /\ limit # Loki!NoLimit
    <3>1. Has(streams, i, l)
      BY DEF Has, n
    <3>2. l.time \in times
      BY <2>3, <3>1
    <3>3. RankIn(times, R, l.time) \in Int
      <4>1. RankIn(times, R, l.time) \in 0..Cardinality(times) - 1
        BY <2>6, <2>8, <3>2, Ranks
      <4> QED BY <4>1
    <3> QED BY <1>12, <2>9, <3>2, <3>3 DEF chosen
  <2>11. Cardinality(first) >= limit
    <3>1. RankIn(times, R, l.time) >= limit
      BY <2>9, <2>10
    <3> QED BY <2>6, <2>8, <2>10, <3>1, FirstOnes
  <2>12. ASSUME NEW t \in first PROVE \E k \in 1..N : sentStamps[k] = t
    <3>1. PICK j, x : Has(streams, j, x) /\ t = x.time
      BY <2>3
    <3>2. chosen(x)
      BY <2>9, <2>12, <3>1 DEF chosen
    <3>3. Has(sent, j, x)
      BY <1>3, <1>4, <1>5, <3>1, <3>2 DEF Has, n
    <3>4. x \in Range(raw)
      BY <2>2, <3>3
    <3> QED BY <2>2, <3>1, <3>4 DEF Range
  <2>13. Cardinality({sentStamps[k] : k \in 1..N}) <= N /\ IsFiniteSet({sentStamps[k] : k \in 1..N})
    <3>1. sentStamps = [k \in 1..N |-> sentStamps[k]]
      OBVIOUS
    <3> HIDE DEF sentStamps
    <3> QED BY <2>2, <3>1, ImageOfList
  <2> DEFINE all2 == {sentStamps[k] : k \in 1..N}
  <2>14. first \in SUBSET all2
    <3> HIDE DEF first, sentStamps
    <3> QED BY <2>12
  <2>15. IsFiniteSet(all2) /\ Cardinality(all2) <= N
    BY <2>13
  <2> HIDE DEF all2, first
  <2>16. Cardinality(first) <= Cardinality(all2) /\ IsFiniteSet(first)
    BY <2>14, <2>15, FS_Subset
  <2>17. Cardinality(first) \in Nat /\ Cardinality(all2) \in Nat
    BY <2>15, <2>16, FS_CardinalityType
  <2> QED BY <2>2, <2>11, <2>15, <2>16, <2>17
<1>13. LinesIn(sent) = LinesIn(streams) \/ LinesIn(sent) >= limit
  BY <1>10, <1>12
<1>14. \A i \in 1..n : \A raw \in Range(sent[i].lines) : raw \in Range(streams[i].lines)
  BY <1>3, <1>5
<1> QED BY <1>3, <1>4, <1>6, <1>9, <1>11, <1>13, <1>14 DEF sent, n

LEMMA EntriesAre ==
    ASSUME NEW streams, Log(streams)
    PROVE  LET entries == Loki!Entries(streams) IN
           /\ IsList(entries) /\ Len(entries) = LinesIn(streams)
           /\ \A x : x \in Range(entries) <=>
                  \E i, raw : /\ Has(streams, i, raw)
                              /\ x = Loki!NormalizeLogEntry(streams[i].labels, raw)
<1> DEFINE n == Len(streams)
           read(i) == [j \in DOMAIN streams[i].lines |->
                          Loki!NormalizeLogEntry(streams[i].labels, streams[i].lines[j])]
           lists == [i \in 1..n |-> read(i)]
           entries == Loki!Entries(streams)
<1>1. n \in Nat /\ DOMAIN streams = 1..n /\ \A i \in 1..n : IsList(streams[i].lines)
  BY LogLines DEF Log
<1>2. entries = FlattenSeq(lists)
  BY <1>1, LokiFlatten DEF Loki!Entries
<1> HIDE DEF n, entries
<1>3. ASSUME NEW i \in 1..n
      PROVE  /\ IsList(read(i)) /\ Len(read(i)) = Len(streams[i].lines)
             /\ \A x : x \in Range(read(i)) <=>
                    \E raw \in Range(streams[i].lines) :
                        x = Loki!NormalizeLogEntry(streams[i].labels, raw)
  <2> DEFINE l == streams[i].lines
             r == read(i)
             m == Len(l)
             entry(raw) == Loki!NormalizeLogEntry(streams[i].labels, raw)
  <2>1. IsList(l)
    BY <1>1
  <2>2. r = [j \in DOMAIN l |-> entry(l[j])]
    OBVIOUS
  <2>3. m \in Nat /\ DOMAIN l = 1..m
    <3> HIDE DEF l
    <3> QED BY <2>1, ElementsOf DEF IsList
  <2> HIDE DEF l, r, m, entry
  <2>4. r = [j \in 1..m |-> r[j]] /\ \A j \in 1..m : r[j] = entry(l[j])
    BY <2>2, <2>3
  <2>5. IsList(r) /\ Len(r) = m /\ DOMAIN r = 1..m
    BY <2>3, <2>4, MappedList
  <2>6. \A x : x \in Range(r) <=> \E raw \in Range(l) : x = entry(raw)
    BY <2>3, <2>4, <2>5 DEF Range
  <2> QED BY <2>5, <2>6 DEF r, m, entry, l
<1>4. lists = [i \in 1..n |-> lists[i]] /\ \A i \in 1..n : lists[i] = read(i) /\ IsList(lists[i])
  BY <1>3
<1> HIDE DEF read
<1>5. [i \in 1..n |-> Len(lists[i])] = [i \in 1..n |-> Len(streams[i].lines)]
  BY <1>3
<1> HIDE DEF lists
<1>6. PICK Y : lists \in Seq(Seq(Y)) /\ DOMAIN lists = 1..n
  BY <1>1, <1>4, ListOfLists
<1>7. entries \in Seq(Y)
  BY <1>2, <1>6, FlattenType
<1>8. IsList(entries)
  BY <1>7, ListOf
<1>9. Len(entries) = LinesIn(streams)
  <2>1. Len(entries) = Total([i \in 1..n |-> Len(lists[i])])
    BY <1>2, <1>6, FlattenLength
  <2> QED BY <1>5, <2>1 DEF LinesIn, n
<1>10. ASSUME NEW x
       PROVE  x \in Range(entries) <=>
                  \E i, raw : /\ Has(streams, i, raw)
                              /\ x = Loki!NormalizeLogEntry(streams[i].labels, raw)
  <2>1. x \in Range(entries) <=> \E i \in 1..n : x \in Range(read(i))
    BY <1>2, <1>4, <1>6, FlattenRange
  <2>2. (\E i \in 1..n : x \in Range(read(i))) <=>
            \E i \in 1..n : \E raw \in Range(streams[i].lines) :
                x = Loki!NormalizeLogEntry(streams[i].labels, raw)
    BY <1>3
  <2> QED BY <2>1, <2>2 DEF Has, n
<1> QED BY <1>8, <1>9, <1>10 DEF entries

\* An entry has a line that can be given a template.
HasLine(entry) ==
    "line" \in DOMAIN entry /\ {"level", "message", "path", "extra"} \subseteq DOMAIN entry.line
LEMMA EntriesHaveLines ==
    ASSUME NEW labels, NEW raw PROVE HasLine(Loki!NormalizeLogEntry(labels, raw))
<1> DEFINE line == Loki!Line(raw)
           read == [line EXCEPT !.stamp = IF @ = 0 THEN raw.time ELSE @,
                                !.level = Loki!FirstText(<<@, raw.detected>>), !.extra = raw.meta]
<1>1. {"level", "message", "path", "extra"} \subseteq DOMAIN line
  BY DEF Loki!Line
<1> HIDE DEF line
<1>2. DOMAIN read = DOMAIN line
  OBVIOUS
<1>3. DOMAIN Loki!NormalizeLogEntry(labels, raw) = {"labels", "line"}
      /\ Loki!NormalizeLogEntry(labels, raw).line = read
  BY DEF Loki!NormalizeLogEntry, line
<1> HIDE DEF read
<1> QED BY <1>1, <1>2, <1>3 DEF HasLine

LEMMA TemplatesKeep ==
    ASSUME NEW entries, IsList(entries), \A i \in DOMAIN entries : HasLine(entries[i]), NEW drain
    PROVE  LET now == Loki!ApplyTemplateClustering(entries, drain) IN
           /\ IsList(now) /\ Len(now) = Len(entries) /\ DOMAIN now = DOMAIN entries
           /\ \A i \in DOMAIN entries :
                /\ now[i].line.level = entries[i].line.level
                /\ \/ now[i].line = entries[i].line
                   \/ /\ drain.ok /\ Loki!ShouldTemplateCluster(entries[i].line)
                      /\ now[i].line.message = drain.of[entries[i].line.message].template
<1> DEFINE n == Len(entries)
           now == Loki!ApplyTemplateClustering(entries, drain)
<1>1. n \in Nat /\ DOMAIN entries = 1..n
  BY ElementsOf DEF IsList
<1>2. /\ now = [i \in DOMAIN entries |-> now[i]]
      /\ \A i \in DOMAIN entries :
           \/ now[i] = entries[i]
           \/ /\ drain.ok /\ Loki!ShouldTemplateCluster(entries[i].line)
              /\ LET reply == drain.of[entries[i].line.message] IN
                 now[i] = [entries[i] EXCEPT !.line.message = reply.template, !.line.path = Loki!NoText,
                                             !.line.extra = @ \cup {reply.id}]
  BY DEF Loki!ApplyTemplateClustering
<1> HIDE DEF now, n
<1>3. IsList(now) /\ Len(now) = n /\ DOMAIN now = 1..n
  BY <1>1, <1>2, MappedList
<1>4. ASSUME NEW i \in DOMAIN entries, now[i] # entries[i]
      PROVE  /\ now[i].line.level = entries[i].line.level
             /\ drain.ok /\ Loki!ShouldTemplateCluster(entries[i].line)
             /\ now[i].line.message = drain.of[entries[i].line.message].template
  <2> DEFINE e == entries[i]
             reply == drain.of[entries[i].line.message]
  <2>1. HasLine(e) /\ drain.ok /\ Loki!ShouldTemplateCluster(e.line)
        /\ now[i] = [e EXCEPT !.line.message = reply.template, !.line.path = Loki!NoText,
                              !.line.extra = @ \cup {reply.id}]
    BY <1>2, <1>4
  <2>2. /\ HasLine(e)
        /\ now[i] = [e EXCEPT !.line.message = reply.template, !.line.path = Loki!NoText,
                              !.line.extra = @ \cup {reply.id}]
    BY <2>1
  <2> HIDE DEF e, reply
  <2>3. now[i].line.level = e.line.level /\ now[i].line.message = reply.template
    BY <2>2 DEF HasLine
  <2> QED BY <2>1, <2>3 DEF e, reply
<1> QED BY <1>1, <1>3, <1>4 DEF now, n

LEMMA LimitOfLogs ==
    ASSUME NEW requested \in Int, NEW max \in Nat \ {0}
    PROVE  Loki!EnforceLogLimit(requested, max) \in Nat
BY DEF Loki!EnforceLogLimit, Loki!Smaller, Loki!DefaultLimit

LEMMA RequestOfLogs ==
    ASSUME NEW c, NEW max, Loki!EnforceLogLimit(c.limit, max) \in Nat
    PROVE  LET limit == Loki!Request(c, max).limit IN
           \/ limit = Loki!NoLimit
           \/ limit = Loki!EnforceLogLimit(c.limit, max) + 1
BY DEF Loki!Request, Loki!Asked

LEMMA LogIsLog ==
    ASSUME NEW log, IsLog(log)
    PROVE  /\ Log(log.streams) /\ IsTimed(log.streams)
           /\ \A i \in 1..Len(log.streams) : "labels" \in DOMAIN log.streams[i]
<1> DEFINE streams == log.streams
           n == Len(streams)
<1>1. IsList(streams)
  BY DEF IsLog
<1>2. \A stream \in Range(streams) :
         /\ "lines" \in DOMAIN stream /\ "labels" \in DOMAIN stream /\ IsList(stream.lines)
         /\ \A line \in Range(stream.lines) : line.time \in Int
  BY DEF IsLog
<1> HIDE DEF streams
<1>3. n \in Nat /\ DOMAIN streams = 1..n /\ streams = [i \in 1..n |-> streams[i]]
      /\ \A i \in 1..n : streams[i] \in Range(streams)
  <2> DEFINE X == Range(streams)
  <2>1. streams \in Seq(X)
    BY <1>1 DEF IsList
  <2> HIDE DEF X
  <2> QED BY <2>1, ElementsOf DEF X
<1> QED BY <1>2, <1>3 DEF Log, IsTimed, streams

\* The level of a line tells whether it may be given a template.
LEMMA SeriousStay ==
    ASSUME NEW line, Loki!ShouldTemplateCluster(line)
    PROVE  Loki!ClassifyLogLevel(line.level) \notin {"warn", "error"}
BY DEF Loki!ShouldTemplateCluster

LEMMA QueryAccounted ==
    ASSUME NEW c, c.limit \in Int, NEW log, IsLog(log), NEW drain
    PROVE  LET limit == Loki!EnforceLogLimit(c.limit, log.max)
               lines == LinesIn(log.streams)
               r == Loki!QueryLokiLogs(c, log, drain)
               told == ToldOf(r.data)
           IN /\ Total([i \in DOMAIN told |-> told[i].occurrences]) = Least(limit, lines)
              /\ r.truncated <=> lines > limit
              /\ \A i \in DOMAIN told : \E entry \in Range(Loki!Entries(log.streams)) :
                   /\ told[i].line.level = entry.line.level
                   /\ \/ told[i].line = entry.line
                      \/ /\ drain.ok /\ Loki!ShouldTemplateCluster(entry.line)
                         /\ told[i].line.message = drain.of[entry.line.message].template
<1> DEFINE limit == Loki!EnforceLogLimit(c.limit, log.max)
           streams == log.streams
           request == Loki!Request(c, log.max)
           sent == Loki!Answer(streams, request)
           plain == Loki!Entries(sent)
           entries == Loki!ApplyTemplateClustering(plain, drain)
           n == Len(entries)
           few == Loki!Smaller(limit, n)
           kept == SubSeq(entries, 1, few)
           groups == Loki!DeduplicateGroupedLines(Loki!GroupLogEntriesByLabels(kept))
           r == Loki!QueryLokiLogs(c, log, drain)
           told == ToldOf(r.data)
           W == LinesIn(streams)
           N == LinesIn(sent)
<1>1. r.data = groups /\ (r.truncated <=> n > limit)
  <2> HIDE DEF groups, limit, n
  <2> QED BY DEF Loki!QueryLokiLogs, groups, limit, n
<1>2. limit \in Nat
  BY LimitOfLogs DEF IsLog
<1>3. request.limit \in Nat /\ (request.limit = Loki!NoLimit \/ request.limit = limit + 1)
  <2>1. request.limit = Loki!NoLimit \/ request.limit = limit + 1
    BY <1>2, RequestOfLogs
  <2> HIDE DEF request, limit
  <2> QED BY <1>2, <2>1 DEF Loki!NoLimit
<1>4. Log(streams) /\ IsTimed(streams) /\ \A i \in 1..Len(streams) : "labels" \in DOMAIN streams[i]
  BY LogIsLog
<1> HIDE DEF limit, request, streams, r
<1>5. /\ Log(sent) /\ Len(sent) = Len(streams)
      /\ \A i \in 1..Len(streams) : \A raw \in Range(sent[i].lines) :
           raw \in Range(streams[i].lines)
      /\ \A i \in 1..Len(streams) : sent[i].labels = streams[i].labels
      /\ N <= W
      /\ request.limit = Loki!NoLimit => N = W
      /\ N = W \/ N >= request.limit
  BY <1>3, <1>4, AnswerCounts
<1>6. N \in Nat /\ W \in Nat
  BY <1>4, <1>5, LogLines
<1> HIDE DEF sent, W, N
<1>7. /\ IsList(plain) /\ Len(plain) = N
      /\ \A x : x \in Range(plain) <=>
             \E i, raw : /\ Has(sent, i, raw)
                         /\ x = Loki!NormalizeLogEntry(sent[i].labels, raw)
  BY <1>5, EntriesAre DEF N
<1>8. \A x : x \in Range(Loki!Entries(streams)) <=>
             \E i, raw : /\ Has(streams, i, raw)
                         /\ x = Loki!NormalizeLogEntry(streams[i].labels, raw)
  BY <1>4, EntriesAre
<1> HIDE DEF plain
<1>9. ASSUME NEW k \in DOMAIN plain PROVE HasLine(plain[k]) /\ plain[k] \in Range(Loki!Entries(streams))
  <2>1. plain[k] \in Range(plain)
    BY DEF Range
  <2>2. PICK i, raw : Has(sent, i, raw) /\ plain[k] = Loki!NormalizeLogEntry(sent[i].labels, raw)
    BY <1>7, <2>1
  <2>3. Has(streams, i, raw) /\ sent[i].labels = streams[i].labels
    BY <1>5, <2>2 DEF Has
  <2> QED BY <1>8, <2>2, <2>3, EntriesHaveLines
<1>10. /\ IsList(entries) /\ n = N /\ DOMAIN entries = DOMAIN plain
       /\ \A i \in DOMAIN plain :
            /\ entries[i].line.level = plain[i].line.level
            /\ \/ entries[i].line = plain[i].line
               \/ /\ drain.ok /\ Loki!ShouldTemplateCluster(plain[i].line)
                  /\ entries[i].line.message = drain.of[plain[i].line.message].template
  BY <1>7, <1>9, TemplatesKeep
<1> HIDE DEF entries, n
<1>11. few \in 0..n /\ few = Least(limit, n)
  BY <1>2, <1>6, <1>10 DEF Loki!Smaller, Least
<1> HIDE DEF few
<1>12. IsList(kept) /\ Len(kept) = few /\ \A j \in DOMAIN kept : j \in DOMAIN entries /\ kept[j] = entries[j]
  <2> DEFINE X == Range(entries)
  <2>1. entries \in Seq(X) /\ n = Len(entries)
    BY <1>10 DEF IsList, n
  <2> HIDE DEF X
  <2>2. n \in Nat /\ DOMAIN entries = 1..n
    BY <2>1
  <2>3. kept \in Seq(X) /\ Len(kept) = few /\ \A j \in 1..few : kept[j] = entries[j]
    BY <1>11, <2>1, <2>2
  <2> HIDE DEF kept
  <2>4. DOMAIN kept = 1..few
    BY <2>3, ElementsOf
  <2> QED BY <1>11, <2>2, <2>3, <2>4, ListOf
<1> HIDE DEF kept
<1>13. /\ Total([i \in DOMAIN told |-> told[i].occurrences]) = few
       /\ \A i \in DOMAIN told : \E j \in DOMAIN kept : told[i].line = kept[j].line
  <2>1. told = ToldOf(groups)
    BY <1>1
  <2> HIDE DEF told
  <2> QED BY <1>12, <2>1, OccurrencesOfAll
<1> HIDE DEF told
<1>14. few = Least(limit, W) /\ (n > limit <=> W > limit)
  <2>1. N = W \/ (N >= limit + 1 /\ N <= W)
    BY <1>3, <1>5
  <2> QED BY <1>2, <1>6, <1>10, <1>11, <2>1 DEF Least
<1>15. ASSUME NEW i \in DOMAIN told
       PROVE  \E entry \in Range(Loki!Entries(streams)) :
                   /\ told[i].line.level = entry.line.level
                   /\ \/ told[i].line = entry.line
                      \/ /\ drain.ok /\ Loki!ShouldTemplateCluster(entry.line)
                         /\ told[i].line.message = drain.of[entry.line.message].template
  <2>1. PICK j \in DOMAIN kept : told[i].line = kept[j].line
    BY <1>13
  <2>2. j \in DOMAIN plain /\ told[i].line = entries[j].line
    BY <1>10, <1>12, <2>1
  <2>3. plain[j] \in Range(Loki!Entries(streams))
    BY <1>9, <2>2
  <2> QED BY <1>10, <2>2, <2>3
<1> QED BY <1>1, <1>13, <1>14, <1>15 DEF limit, W, streams, r, told

LEMMA LogsFollow == ToolsInv => LogsAccounted
<1> SUFFICES ASSUME ToolsInv, call.tool = "query_loki_logs", pc = "done", ~stored.metric
             PROVE  LogsAccounted
  BY DEF LogsAccounted
<1> DEFINE drain == [ok |-> "drain" \in DOMAIN fetched, of |-> stored.drain]
           r == Loki!QueryLokiLogs(call, stored, drain)
           limit == Loki!EnforceLogLimit(call.limit, stored.max)
           lines == LinesIn(stored.streams)
           told == ToldOf(results.data)
<1>1. Asking /\ AsksForLogs /\ call.tool \notin {"get_alert_rule", "query_pyroscope"}
  BY DEF Asking, DashboardTools, RuleWrites, AsksForLogs
<1>2. Going /\ todo = <<>> /\ \E o \in Outcomes : results = o.value /\ pc = o.end
  BY <1>1 DEF ToolsInv, AskInv
<1>3. IsLog(stored) /\ call.limit \in Int
  <2>1. PICK kind \in Calls : \E start \in kind : call = start.call /\ stored = start.stored
    BY <1>1, StartedAsk DEF ToolsInv
  <2> QED BY <2>1, ArgumentsAssumption
<1>4. PICK o \in Replies(stored) : results = o.value /\ o.end = "done"
  BY <1>1, <1>2, EndOfCall DEF ToolsInv
<1>5. Replies(stored) = {Alert!Done(Logs(stored))}
  BY <1>1 DEF Replies, SqlTools, PrometheusTools, CloudWatchTools
<1>6. Logs(stored) = r
  BY DEF Logs
<1> HIDE DEF r
<1>7. results = r
  BY <1>4, <1>5, <1>6, EndOf
<1>8. /\ Total([i \in DOMAIN told |-> told[i].occurrences]) = Least(limit, lines)
      /\ results.truncated <=> lines > limit
      /\ \A i \in DOMAIN told : \E entry \in Range(Loki!Entries(stored.streams)) :
           /\ told[i].line.level = entry.line.level
           /\ \/ told[i].line = entry.line
              \/ /\ drain.ok /\ Loki!ShouldTemplateCluster(entry.line)
                 /\ told[i].line.message = drain.of[entry.line.message].template
  <2> DEFINE of == ToldOf(r.data)
  <2>1. /\ Total([i \in DOMAIN of |-> of[i].occurrences]) = Least(limit, lines)
        /\ r.truncated <=> lines > limit
        /\ \A i \in DOMAIN of : \E entry \in Range(Loki!Entries(stored.streams)) :
             /\ of[i].line.level = entry.line.level
             /\ \/ of[i].line = entry.line
                \/ /\ drain.ok /\ Loki!ShouldTemplateCluster(entry.line)
                   /\ of[i].line.message = drain.of[entry.line.message].template
    <3> HIDE DEF drain
    <3> QED BY <1>3, QueryAccounted, Zenon DEF r
  <2>2. of = told /\ r.truncated = results.truncated
    BY <1>7
  <2> HIDE DEF of, told, limit, lines, drain
  <2> QED BY <2>1, <2>2, Zenon
<1>9. told = FlattenSeq([g \in DOMAIN results.data |-> results.data[g].lines])
  BY DEF ToldOf
<1>10. lines = Total([i \in DOMAIN stored.streams |-> Len(stored.streams[i].lines)])
  BY <1>3, LogIsLog, LogLines DEF LinesIn
<1>11. drain.of = stored.drain /\ (drain.ok => "drain" \notin errors)
  BY <1>2 DEF Going, Splits
<1> HIDE DEF drain, told, lines, limit
<1>12. \A line \in {told[i].line : i \in DOMAIN told} :
          \E entry \in Range(Loki!Entries(stored.streams)) :
              /\ line.level = entry.line.level
              /\ \/ line = entry.line
                 \/ /\ "drain" \notin errors
                    /\ Loki!ClassifyLogLevel(entry.line.level) \notin {"warn", "error"}
                    /\ line.message = stored.drain[entry.line.message].template
  BY <1>8, <1>11, SeriousStay
<1> QED BY <1>8, <1>9, <1>10, <1>12 DEF LogsAccounted, limit

\* Merging by template and by label hides no line: the occurrences that are told add
\* up to the lines of the log or to the limit, the answer is marked as cut exactly
\* when there are more, and serious lines stay as they were logged, as do all when their
\* templates could not be had.
THEOREM LogsHold == AllSpec => []LogsAccounted
BY LogsFollow, ToolsHold, PTL
=============================================================================
