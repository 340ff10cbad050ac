--------------------------- MODULE DatasourceTools ---------------------------
(***************************************************************************)
(* One call of a tool that asks a datasource, or that reads and writes the  *)
(* alert rules of Grafana: its requests one by one, each of which may fail, *)
(* and the answer made of what they returned.  A call takes the variables   *)
(* of GrafanaTools.  For these tools `stored` is what the datasource holds, *)
(* or Grafana's rules, and `fetched` what each request has returned.        *)
(***************************************************************************)
EXTENDS GrafanaTools

CONSTANTS
    Now, Hour, DefaultRows, MaxRows, MaxDocs, MaxRules, Globs,
    Missing   \* an argument left out

ASSUME WindowAssumption == Hour \in Nat \ {0} /\ Now \in Nat /\ Now > Hour
ASSUME RowsAssumption ==
    DefaultRows \in Nat \ {0} /\ MaxRows \in Nat \ {0} /\ MaxRules \in Nat \ {0}

Loki == INSTANCE LokiLogs
Sql == INSTANCE SqlQueries
Alert == INSTANCE AlertRules

-----------------------------------------------------------------------------
(* Arguments and answers *)

\* Parts of a query as a caller writes them: a condition on the time comes only of
\* a macro.
IsQuery(query) ==
    /\ IsList(query)
    /\ \A p \in Range(query) :
         /\ p.kind # "between"
         /\ Sql!IsLimit(p) => p \in Sql!LimitParts

IsRules(rules) ==
    /\ IsList(rules)
    /\ \A r \in Range(rules) : {"uid", "rule", "state"} \subseteq DOMAIN r /\ "data" \in DOMAIN r.rule

IsRuleData(data) == IsList(data) /\ \A q \in Range(data) : {"ref", "source", "range"} \subseteq DOMAIN q

\* Frames: fields, and columns that may be fewer or of different lengths.
IsFrames(frames) ==
    IsList(frames) /\ \A f \in Range(frames) :
        IsList(f.fields) /\ IsList(f.columns) /\ \A column \in Range(f.columns) : IsList(column)

\* A log: streams of lines, of which at most so many are returned.
IsLog(log) ==
    /\ log.max \in Nat \ {0}
    /\ IsList(log.streams)
    /\ \A stream \in Range(log.streams) :
         /\ {"labels", "lines"} \subseteq DOMAIN stream /\ IsList(stream.lines)
         /\ \A line \in Range(stream.lines) : line.time \in Int

SqlTools == {"query_clickhouse", "list_clickhouse_tables", "describe_clickhouse_table"}
RuleTools == {"create", "update", "delete", "get_alert_rule", "list_alert_rules"}

\* Numbers and lists as Go's decoders leave them, here and in what a datasource or
\* Grafana answers.
ASSUME ArgumentsAssumption ==
    \A kind \in Calls : \A start \in kind :
        LET arguments == start.call
            tool == arguments.tool
        IN /\ "start" \in DOMAIN arguments => arguments.start \in Nat /\ arguments.end \in Nat
           /\ tool \in {"list_prometheus_metric_names", "query_clickhouse", "search_logs",
                       "list_alert_rules"} => arguments.limit \in Int
           /\ tool = "query_loki_logs" /\ ~start.stored.metric =>
                arguments.limit \in Int /\ IsLog(start.stored)
           /\ tool = "list_prometheus_metric_names" =>
                arguments.page \in Int /\ IsList(start.stored.names)
           /\ tool = "query_clickhouse" =>
                IsQuery(arguments.query) /\ \A n \in DOMAIN arguments.vars : IsQuery(arguments.vars[n])
           /\ tool \in SqlTools \cup {"search_logs"} /\ start.stored.type = "clickhouse" =>
                start.stored.rows \in Nat /\ (tool = "search_logs" => IsQuery(arguments.pattern))
           /\ tool \in RuleTools => "rules" \in DOMAIN start.stored /\ IsRules(start.stored.rules)
           /\ \/ tool = "query_cloudwatch" /\ start.stored.type = "cloudwatch"
              \/ tool = "query_prometheus" /\ start.stored.type = "stackdriver"
              => IsFrames(start.stored.answer.frames)
           /\ tool \in {"create", "update"} =>
                /\ "data" \in DOMAIN arguments.rule
                /\ arguments.rule.data = Missing \/ IsRuleData(arguments.rule.data)

-----------------------------------------------------------------------------
(* What a tool accepts and asks for *)

PrometheusTools == {"query_prometheus", "query_prometheus_histogram",
                    "list_prometheus_metric_metadata", "list_prometheus_metric_names",
                    "list_prometheus_label_names", "list_prometheus_label_values"}
CloudWatchTools == {"query_cloudwatch", "list_cloudwatch_namespaces",
                    "list_cloudwatch_metrics", "list_cloudwatch_dimensions"}
PyroscopeTools == {"query_pyroscope", "list_pyroscope_labels"}
RuleWrites == {"create", "update", "delete"}

AsksForLogs ==
    call.tool = "query_loki_logs" \/ (call.tool = "search_logs" /\ stored.type = "loki")
Cloud == stored.type = "stackdriver"

\* Clients of three kinds check the type of their datasource, Loki's, Prometheus'
\* and Pyroscope's do not.
FitsType ==
    CASE call.tool \in SqlTools -> stored.type = "clickhouse"
      [] call.tool \in CloudWatchTools -> stored.type = "cloudwatch"
      [] call.tool = "query_elasticsearch" -> stored.type = "elasticsearch"
      [] call.tool = "search_logs" -> stored.type \in {"loki", "clickhouse"}
      [] call.tool = "list_alert_rules" ->
            stored.type = "grafana" \/ Alert!IsRulerDatasource(stored.type)
      [] OTHER -> TRUE

Accepted ==
    CASE call.tool = "query_prometheus" -> Alert!AcceptsQuery(call)
      [] call.tool = "query_prometheus_histogram" -> Alert!AcceptsHistogram(call)
      [] call.tool = "query_pyroscope" ->
            /\ Alert!WantsProfile(call) \/ Alert!WantsMetrics(call)
            /\ Alert!ValidateTimeRange(Alert!PyroscopeWindow(call))
      [] call.tool = "list_pyroscope_labels" ->
            Alert!ValidateTimeRange(Alert!PyroscopeWindow(call))
      [] call.tool = "describe_clickhouse_table" -> call.table # ""
      [] call.tool = "list_alert_rules" -> Alert!AcceptsList(call)
      [] OTHER -> TRUE

\* The lines that are sent to the Drain3 service for their templates.
Templated ==
    \E entry \in Range(Loki!Entries(Loki!Answer(stored.streams,
                                                Loki!Request(call, stored.max)))) :
        Loki!ShouldTemplateCluster(entry.line)

Requests ==
    CASE AsksForLogs /\ ~stored.metric /\ Templated -> <<"query", "drain">>
      [] call.tool = "query_pyroscope" ->
            (IF Alert!WantsProfile(call) THEN <<"profile">> ELSE <<>>) \o
            (IF Alert!WantsMetrics(call) THEN <<"metrics">> ELSE <<>>)
      [] call.tool = "get_alert_rule" -> <<"rule", "state">>
      [] OTHER -> <<"query">>

Begin ==
    /\ pc = "called"
    /\ call.tool \notin DashboardTools \cup RuleWrites
    /\ FitsType /\ Accepted
    /\ pc' = "asking"
    /\ todo' = Requests
    /\ fetched' = <<>>
    /\ UNCHANGED <<call, stored, results, errors, others>>

-----------------------------------------------------------------------------
(* Requests *)

RuleAt(uid) == Alert!PositionOf(stored.rules, uid)

\* Can a request be answered?
Answers(request) ==
    /\ request = "profile" => ~Alert!ProfileFails(stored.profile)
    /\ request = "rule" => RuleAt(call.uid) # 0

\* The state of a rule is found among the rules of the folder and group that it
\* had when it was read.
Returned(request) ==
    CASE request = "rule" -> stored.rules[RuleAt(call.uid)]
      [] request = "state" ->
            LET rule == fetched["rule"].rule IN
            Alert!FindRuleInResponse(
                Alert!ServerRules(stored.rules, [folder |-> rule.folder, group |-> rule.group,
                                                 limit |-> 0]), call.uid)
      [] OTHER -> stored

Ask ==
    /\ pc = "asking"
    /\ todo # <<>>
    /\ Answers(Head(todo))
    /\ fetched' = Over(Only(Head(todo), Returned(Head(todo))), fetched)
    /\ todo' = Tail(todo)
    /\ UNCHANGED <<call, stored, pc, results, errors, others>>

\* Mutant of Spared: the first part that fails ends a query of both.
SparedAside(request) == request \in {"drain", "state"}

\* Failures that a call outlives: without templates lines stay as they are, a rule
\* is shown without its state, one of two parts is better than none.
Spared(request) ==
    \/ request \in {"drain", "state"}
    \/ call.tool = "query_pyroscope" /\ call.type \in {"", "both"}

AskFails ==
    /\ pc = "asking"
    /\ todo # <<>>
    /\ errors' = errors \cup {Head(todo)}
    /\ todo' = Tail(todo)
    /\ pc' = IF Spared(Head(todo)) THEN "asking" ELSE "failed"
    /\ UNCHANGED <<call, stored, fetched, results, others>>

-----------------------------------------------------------------------------
(* Answers *)

WindowOf ==
    CASE AsksForLogs -> Loki!Window(call)
      [] ~AsksForLogs /\ call.tool \in {"query_clickhouse", "search_logs"} -> Sql!TimeRange(call)
      [] call.tool = "query_prometheus" ->
            LET window == Alert!PrometheusWindow(call) IN
            IF Cloud THEN Alert!CloudWindow(window) ELSE window
      [] call.tool = "query_prometheus_histogram" ->
            Alert!PrometheusWindow(Alert!HistogramCall(call))
      [] call.tool \in {"list_prometheus_label_names", "list_prometheus_label_values",
                        "list_loki_labels"} ->
            IF Cloud THEN Alert!LastHour(call) ELSE Alert!Window(call.start, call.end)
      [] call.tool = "query_cloudwatch" -> Alert!LastHour(call)
      [] call.tool \in PyroscopeTools -> Alert!PyroscopeWindow(call)
      [] OTHER -> Alert!Window(Now, Now)

Logs(found) ==
    LET drain == [ok |-> "drain" \in DOMAIN fetched, of |-> found.drain] IN
    IF found.metric THEN Loki!QueryLokiMetrics(found.samples)
    ELSE IF call.tool = "search_logs" THEN Loki!SearchLogsInLoki(call, found, drain)
    ELSE Loki!QueryLokiLogs(call, found, drain)

\* An answer with the query that it answers, and values with hints if there are none.
With(query, outcome) ==
    IF outcome.end # "done" THEN outcome
    ELSE Alert!Done([answer |-> outcome.value, query |-> query])
Hinted(outcome) ==
    IF outcome.end # "done" THEN outcome
    ELSE Alert!Done([data |-> outcome.value,
                     hints |-> Alert!IsPrometheusResultEmpty(outcome.value)])

\* Label lists of Cloud Monitoring come in Go's order of a map.
CloudReplies(found) ==
    CASE call.tool = "query_prometheus" ->
            {Hinted(Alert!FramesToPrometheusValue(found.answer, Alert!QueryType(call)))}
      [] call.tool = "query_prometheus_histogram" ->
            {Alert!FramesToPrometheusValue(found.answer, "range")}
      [] call.tool = "list_prometheus_metric_metadata" ->
            {Alert!Done(Alert!CloudMetricMetadata(found.names, call.metric, call.limit))}
      [] call.tool = "list_prometheus_metric_names" ->
            {Alert!Page(Alert!Named(found.names, call.regex), call.limit, call.page)}
      [] call.tool = "list_prometheus_label_values" /\ call.label = "__name__" ->
            {Alert!Limited(Alert!CloudMetricNames(found.names, call.matches), call.limit)}
      [] OTHER ->
            LET names == IF call.tool = "list_prometheus_label_names"
                         THEN Alert!ExtractLabelNamesFromFrames(found.answer)
                         ELSE Alert!ExtractLabelValuesFromFrames(found.answer, call.label)
            IN {Alert!Limited(order, call.limit) : order \in SetToSeqs(names)}

\* Prometheus itself answers with values and lists of names.
PrometheusReplies(found) ==
    CASE call.tool = "list_prometheus_metric_names" ->
            {Alert!Page(Alert!Named(found.names, call.regex), call.limit, call.page)}
      [] call.tool \in {"list_prometheus_label_names", "list_prometheus_label_values"} ->
            {Alert!Limited(found.names, call.limit)}
      [] call.tool = "query_prometheus" -> {Hinted(Alert!Done(found.value))}
      [] OTHER -> {Alert!Done(found.value)}

\* What was fetched of a profile and of metrics.
Parts ==
    LET Metrics(found) == [series |-> Alert!BuildSeriesResponse(found.series),
                           step |-> Alert!Step(call, WindowOf)]
    IN [part \in DOMAIN fetched |->
           IF part = "profile" THEN fetched[part].profile ELSE Metrics(fetched[part])]

Replies(found) ==
    CASE AsksForLogs -> {Alert!Done(Logs(found))}
      [] call.tool = "search_logs" /\ stored.type = "clickhouse" ->
            {Alert!Done(Sql!QueryClickHouse(Sql!SearchQuery(call), found.rows))}
      [] call.tool = "query_clickhouse" -> {Alert!Done(Sql!QueryClickHouse(call, found.rows))}
      [] call.tool \in SqlTools \ {"query_clickhouse"} ->
            {Alert!Done(Sql!QueryClickHouse(Sql!SystemQuery(call), found.rows))}
      [] call.tool \in PrometheusTools ->
            IF Cloud THEN CloudReplies(found) ELSE PrometheusReplies(found)
      [] call.tool = "query_cloudwatch" -> {With(Alert!CloudWatchQuery(call), Alert!CloudWatchResult(found.answer))}
      [] call.tool \in CloudWatchTools \ {"query_cloudwatch"} ->
            LET resource == Alert!CloudWatchResource(call) IN
            {With(resource, Alert!Done(found.resources[resource.of]))}
      [] call.tool = "query_elasticsearch" ->
            LET query == Alert!BuildElasticsearchQuery(call) IN
            {With(query, Alert!Documents(found.answer, query.size))}
      [] call.tool = "list_alert_rules" ->
            {IF found.type = "grafana" THEN Alert!ListGrafanaRules(call, found.rules)
             ELSE Alert!ListDatasourceAlertRules(call, found.rules)}
      [] call.tool = "manage_routing" -> {Alert!ManageRouting(call, found.points)}
      [] OTHER -> {Alert!Done(found.labels)}

NothingLeft == call.tool = "query_pyroscope" /\ DOMAIN fetched = {}

Outcomes ==
    CASE NothingLeft -> {Alert!Error}
      [] call.tool = "query_pyroscope" /\ ~NothingLeft -> {Alert!Done(Parts)}
      [] call.tool = "get_alert_rule" ->
            {Alert!Done(Alert!MergeRuleDetail(
                fetched["rule"],
                IF "state" \in DOMAIN fetched THEN fetched["state"] ELSE Alert!NoRuntime))}
      [] OTHER -> Replies(fetched["query"])

Reply ==
    /\ pc = "asking"
    /\ todo = <<>>
    /\ \E outcome \in Outcomes :
         /\ results' = outcome.value
         /\ pc' = outcome.end
    /\ UNCHANGED <<call, stored, fetched, todo, errors, others>>

-----------------------------------------------------------------------------
(* Alert rules *)

\* Others delete a rule, or move one to the group of another where its state is as
\* the other's, while a call reads them.
OtherEdits ==
    /\ call.tool = "get_alert_rule"
    /\ pc = "asking"
    /\ others < MaxOthers
    /\ others' = others + 1
    /\ \E i \in DOMAIN stored.rules :
         \/ stored' = [stored EXCEPT !.rules = RemoveAt(@, i)]
         \/ \E j \in DOMAIN stored.rules \ {i} :
              stored' = [stored EXCEPT !.rules[i].rule.group = stored.rules[j].rule.group,
                                       !.rules[i].state = stored.rules[j].state]
    /\ UNCHANGED <<call, fetched, pc, todo, results, errors>>

\* One request with the whole rule; its answer may be lost.
Write ==
    LET uid == IF call.uid = "" THEN "assigned" ELSE call.uid
        rule == [uid |-> uid, rule |-> Alert!ToRule(call), state |-> "inactive"] IN
    /\ pc = "called"
    /\ call.tool \in {"create", "update"}
    /\ Alert!ValidateRule(call)
    /\ call.tool = "create" <=> RuleAt(uid) = 0
    /\ stored' = [stored EXCEPT !.rules =
                    IF call.tool = "create" THEN Append(@, rule)
                    ELSE [i \in DOMAIN @ |-> IF @[i].uid = uid THEN rule ELSE @[i]]]
    /\ pc' \in {"done", "failed"}
    /\ UNCHANGED <<call, fetched, todo, results, errors, others>>

Delete ==
    /\ pc = "called"
    /\ call.tool = "delete"
    /\ call.uid # ""
    /\ stored' = [stored EXCEPT !.rules = Those(@, {r \in Range(@) : r.uid # call.uid})]
    /\ pc' \in {"done", "failed"}
    /\ UNCHANGED <<call, fetched, todo, results, errors, others>>

AllNext ==
    \/ Next
    \/ Begin \/ Ask \/ AskFails \/ Reply \/ Write \/ Delete
    \/ OtherEdits

AllSpec == Init /\ [][AllNext]_vars
=============================================================================
