------------------------------ MODULE MCTools ------------------------------
(* Calls of the datasource and alerting tools beside those of MCGrafanaTools. *)
EXTENDS MCGrafanaTools, DatasourceToolsProps

Calling(calls, sources) == {[call |-> c, stored |-> s] : c \in calls, s \in sources}
Times == {0, 4, 8}

-----------------------------------------------------------------------------
(* Loki *)
NoDoc == Loki!NotJson
Docs == {NoDoc,
         [NoDoc EXCEPT !.level = "error", !.message = "m1", !.exception = TRUE, !.origin = "f1"],
         [NoDoc EXCEPT !.level = "error", !.message = "m1", !.exception = TRUE, !.origin = "f2"],
         [NoDoc EXCEPT !.level = "info", !.message = "m1", !.stamp = 13],
         [NoDoc EXCEPT !.level = "info", !.message = "m2", !.stamp = 20],
         [NoDoc EXCEPT !.level = "warn", !.message = "m2"]}
Raw(doc, time) == [text |-> "t", time |-> time, doc |-> doc, detected |-> "info", meta |-> {}]
Stream(file, docs, first) ==
    [labels |-> [app |-> "a", filename |-> file],
     lines |-> [i \in DOMAIN docs |-> Raw(docs[i], first + 2 * i)]]
Drain == [m1 |-> [template |-> "m*", id |-> "1"], m2 |-> [template |-> "m*", id |-> "1"],
          t |-> [template |-> "", id |-> ""]]
LokiSources ==
    {[type |-> "loki", metric |-> FALSE, streams |-> <<Stream("f", a, 10), Stream("g", b, 9)>>,
      max |-> 3, drain |-> Drain] : a \in BoundedSeq(Docs, 2), b \in BoundedSeq(Docs, 1)}
    \cup {[type |-> "loki", metric |-> FALSE, streams |-> <<Stream("f", a, 10)>>, max |-> 2,
           drain |-> Drain] : a \in {<<d, d, e>> : d \in Docs, e \in Docs}}
MetricSource ==
    [type |-> "loki", metric |-> TRUE, drain |-> Drain,
     samples |-> <<[name |-> "s", points |-> <<[readable |-> TRUE], [readable |-> FALSE]>>]>>]
LogCall(limit, type, direction, start, end) ==
    [tool |-> "query_loki_logs", limit |-> limit, type |-> type, direction |-> direction,
     start |-> start, end |-> end]
LogCalls == {LogCall(limit, type, direction, 0, 0) :
                limit \in {0, 1, 5}, type \in {"", "instant"}, direction \in {"", "forward"}}
LokiCalls ==
    Calling(LogCalls, LokiSources)
    \cup Calling({LogCall(1, type, "", start, end) :
                    type \in {"", "instant"}, start \in Times, end \in Times}, {MetricSource})
    \cup Calling({[LogCall(1, "", "", 4, 8) EXCEPT !.tool = "search_logs"]}, LokiSources)
    \cup Calling({[tool |-> "list_loki_labels", start |-> 0, end |-> 0]},
                 {[type |-> "loki", labels |-> <<"app">>]})

-----------------------------------------------------------------------------
(* ClickHouse *)
Parts1 == {Sql!Text("a"), Sql!Var("v"), Sql!Macro("timeFilter", ""), Sql!Macro("from", "Time"),
           Sql!Macro("to", ""), Sql!Macro("interval", ""), Sql!Macro("interval", "_ms"),
           Sql!Limit("query", 3, Sql!None), Sql!Limit("query", 9, Sql!None),
           Sql!Limit("group", 9, Sql!None), Sql!Limit("query", 2, 9)}
SqlSources == {[type |-> type, rows |-> rows] : type \in {"clickhouse", "loki"}, rows \in {0, 9}}
SqlCalls ==
    Calling({[tool |-> "query_clickhouse", query |-> query, limit |-> limit, start |-> start,
              end |-> end, vars |-> [v |-> <<Sql!Text("b")>>]] :
                query \in BoundedSeq(Parts1, 2), limit \in {0, 3, 9},
                start \in {0, 4}, end \in {0, 8}},
            {s \in SqlSources : s.type = "clickhouse"})
    \cup Calling({[tool |-> tool, database |-> database, table |-> table] :
                    tool \in {"list_clickhouse_tables", "describe_clickhouse_table"},
                    database \in {"", "d"}, table \in {"", "t"}}, SqlSources)
    \cup Calling({[tool |-> "search_logs", pattern |-> pattern, limit |-> limit,
                   start |-> 0, end |-> 0] :
                    pattern \in {<<Sql!Text("a")>>, <<Sql!Limit("pattern", 9, Sql!None)>>},
                    limit \in {0, 9}}, {[type |-> "clickhouse", rows |-> 9],
                                        [type |-> "prometheus", rows |-> 0]})

-----------------------------------------------------------------------------
(* Metrics *)
Frame(columns, labels) ==
    [name |-> "m", fields |-> <<[type |-> "time", labels |-> <<>>],
                                [type |-> "number", labels |-> labels]>>, columns |-> columns]
Frames == {Frame(<<<<1, 2>>, <<5, 3>>>>, [job |-> "a", zone |-> "z"]),
           Frame(<<<<1, 2>>, <<4, -1>>>>, [job |-> "b"]),
           Frame(<<<<1, 2>>, <<7>>>>, <<>>), Frame(<<>>, <<>>)}
FrameAnswers == {[known |-> TRUE, error |-> error, frames |-> frames] :
                    error \in BOOLEAN, frames \in BoundedSeq(Frames, 2)}
                \cup {[known |-> FALSE, error |-> FALSE, frames |-> <<>>]}
Names == <<"up", "http_a", "http_b">>
MCGlobs == [http |-> {"http_a", "http_b"}]
MetricSources ==
    {[type |-> "stackdriver", answer |-> answer, names |-> Names] : answer \in FrameAnswers}
    \cup {[type |-> "prometheus", names |-> Names, value |-> <<"value">>]}
Matcher(name, type, value) == [name |-> name, type |-> type, value |-> value]
Matches == {<<>>, << <<Matcher("job", "=", "a"), Matcher("__name__", "=", "up")>> >>,
            << <<Matcher("__name__", "=~", "http")>> >>}
MetricCalls ==
    Calling({[tool |-> "query_prometheus", type |-> type, start |-> start, end |-> end,
              step |-> step] :
                type \in {"", "instant"}, start \in Times, end \in Times, step \in 0..1} \cup
            {[tool |-> "query_prometheus_histogram", percentile |-> p, start |-> 0, end |-> 4,
              step |-> 0] : p \in {50, 101}} \cup
            {[tool |-> "list_prometheus_metric_metadata", metric |-> metric, limit |-> limit] :
                metric \in {"", "up"}, limit \in 0..1} \cup
            {[tool |-> "list_prometheus_label_names", matches |-> matches, limit |-> limit,
              start |-> 0, end |-> 4] : matches \in Matches, limit \in {-1, 0, 1}} \cup
            {[tool |-> "list_prometheus_label_values", label |-> label, matches |-> matches,
              limit |-> limit, start |-> start, end |-> 0] :
                label \in {"job", "__name__"}, matches \in Matches, limit \in {0, 1},
                start \in {0, 4}}, MetricSources)
    \cup Calling({[tool |-> "list_prometheus_metric_names", regex |-> regex, limit |-> limit,
                   page |-> page] :
                    regex \in {"", "http"}, limit \in {-1, 0, 1, 2}, page \in -1..3},
                 {s \in MetricSources : s.type = "prometheus"})
    \cup Calling({[tool |-> "query_cloudwatch", start |-> start, end |-> end, statistic |-> "",
                   period |-> 0, region |-> ""] : start \in Times, end \in Times},
                 {[type |-> "cloudwatch", answer |-> answer] : answer \in FrameAnswers})
    \cup Calling({[tool |-> tool, region |-> "r", accountId |-> ""] :
                    tool \in CloudWatchTools \ {"query_cloudwatch"}},
                 {[type |-> type, resources |-> [r \in {"namespaces", "metrics", "dimension-keys"}
                                                 |-> <<r>>]] : type \in {"cloudwatch", "loki"}})

-----------------------------------------------------------------------------
(* Profiles and documents *)
OtherCalls ==
    Calling({[tool |-> tool, type |-> type, start |-> start, end |-> end, step |-> 0] :
                tool \in PyroscopeTools, type \in {"", "both", "profile", "metrics", "bad"},
                start \in Times, end \in Times},
            {[type |-> "pyroscope", profile |-> profile, series |-> <<<<>>, <<1>>>>,
              labels |-> <<"job">>] : profile \in {"", "flame"}})
    \cup Calling({[tool |-> "query_elasticsearch", query |-> "q", json |-> FALSE, limit |-> limit,
                   start |-> 0, end |-> 4] : limit \in {0, 1, 9}},
                 {[type |-> "elasticsearch", answer |-> [responses |-> responses]] :
                    responses \in {<<>>, <<[error |-> TRUE, hits |-> <<>>]>>,
                                   <<[error |-> FALSE, hits |-> <<"d", "e", "f", "g">>]>>}})

-----------------------------------------------------------------------------
(* Alert rules *)
Query(ref, source) == [ref |-> ref, source |-> source, range |-> <<>>]
Datas == {<<>>} \cup {<<Query(a, "d"), Query(b, "__expr__")>> :
                        a \in {<<>>, <<0>>, <<1>>}, b \in {<<>>, <<0>>, <<1>>}}
RuleOf(group, data, labels, record) ==
    [title |-> "t", group |-> group, folder |-> "d", condition |-> "A", noData |-> "OK",
     execErr |-> "OK", for |-> "5m", data |-> data, labels |-> labels, record |-> record]
NoRec == Alert!NoRecord
RuleIn(uid, group, state) ==
    [uid |-> uid, rule |-> RuleOf(group, <<Query(<<0>>, "d")>>, [team |-> uid], NoRec),
     state |-> state]
R1 == RuleIn("r1", "g1", "firing")
R2 == RuleIn("r2", "g1", "inactive")
R3 == RuleIn("r3", "g2", "pending")
Grafana == [type |-> "grafana", rules |-> <<R1, R2, R3>>, points |-> <<"p1", "p2">>]
Recording == [R3 EXCEPT !.rule.record = [from |-> "A", metric |-> "m"]]
Selectors == {<<>>, << <<Matcher("team", "!=", "r1")>> >>, << <<Matcher("team", "=", "r3")>> >>,
              << <<Matcher("team", "=", "r1")>>, <<Matcher("team", "bad", "")>> >>}
AlertCalls ==
    Calling({[tool |-> tool, uid |-> uid, org |-> org, rule |-> rule] :
                tool \in {"create", "update"}, uid \in {"", "r1", "r9"}, org \in 0..1,
                rule \in {RuleOf("g1", data, <<>>, NoRec) : data \in Datas}
                         \cup {RuleOf("", <<>>, <<>>, NoRec),
                                RuleOf("g1", <<>>, <<>>, [from |-> "", metric |-> "m"])}} \cup
            {[tool |-> tool, uid |-> uid] :
                tool \in {"delete", "get_alert_rule"}, uid \in {"r2", "r9"}} \cup
            {[tool |-> "manage_routing", operation |-> operation, name |-> name, limit |-> 1] :
                operation \in {"get_contact_points", "get_contact_point", "get_time_intervals"},
                name \in {"", "p2"}}, {Grafana})
    \cup Calling({[tool |-> "list_alert_rules", folder |-> "", group |-> group, search |-> "",
                   limit |-> limit, matchers |-> <<>>, selectors |-> selectors] :
                    group \in {"", "g1"}, limit \in {-1, 0, 1, 2, 5}, selectors \in Selectors},
                 {Grafana, [Grafana EXCEPT !.rules = @ \o <<RuleIn("r4", "g2", "firing")>>],
                  [type |-> "loki", rules |-> <<R1, Recording>>],
                  [type |-> "loki", rules |-> <<Recording, R1>>],
                  [type |-> "tempo", rules |-> <<>>]})

MCAllCalls == MCCalls \cup {LokiCalls, SqlCalls, MetricCalls, OtherCalls, AlertCalls}
=============================================================================
