------------------------ MODULE DatasourceToolsProps ------------------------
(* What callers of the datasource and alerting tools may rely on. *)
EXTENDS DatasourceTools, GrafanaToolsProps

Total(numbers) == FoldLeft(LAMBDA a, b : a + b, 0, numbers)
Least(a, b) == IF a < b THEN a ELSE b

-----------------------------------------------------------------------------
(* Logs and SQL *)

\* Merging by template and by label hides no line: the occurrences add up to the
\* lines of the log or to the limit, the answer is marked as cut exactly when
\* there are more, and lines at warn or error stay as they were logged while any
\* other stands for itself or for its own template, and all for themselves when the
\* templates could not be had.
LogsAccounted ==
    call.tool = "query_loki_logs" /\ pc = "done" /\ ~stored.metric =>
        LET limit == Loki!EnforceLogLimit(call.limit, stored.max)
            lines == Total([i \in DOMAIN stored.streams |-> Len(stored.streams[i].lines)])
            told == FlattenSeq([g \in DOMAIN results.data |-> results.data[g].lines])
            Serious(line) == Loki!ClassifyLogLevel(line.level) \in {"warn", "error"}
        IN /\ Total([i \in DOMAIN told |-> told[i].occurrences]) = Least(limit, lines)
           /\ results.truncated <=> lines > limit
           /\ \A line \in {told[i].line : i \in DOMAIN told} :
                \E entry \in Range(Loki!Entries(stored.streams)) :
                    /\ line.level = entry.line.level
                    /\ \/ line = entry.line
                       \/ /\ "drain" \notin errors
                          /\ ~Serious(entry.line)
                          /\ line.message = stored.drain[entry.line.message].template

\* A query whose own LIMIT, if any, is at its end and has one number returns no
\* more rows than the maximum, or than the caller's limit when it has none of its
\* own; its macros speak of the window that is sent along.
NoLimitIn(parts) == \A p \in parts : ~Sql!IsLimit(p)
SqlBounded ==
    pc = "done" /\ call.tool \in SqlTools \cup {"search_logs"} /\ stored.type = "clickhouse" =>
        LET query == results.query
            limits == {query[i] : i \in {j \in DOMAIN query : Sql!IsLimit(query[j])}}
        IN /\ (\A l \in limits : l.of = "query" /\ l.second = Sql!None) =>
                results.rowCount <= MaxRows
           /\ call.tool = "query_clickhouse" /\ NoLimitIn(Range(call.query) \cup UNION {Range(call.vars[n]) : n \in DOMAIN call.vars}) =>
                results.rowCount <= IF call.limit > 0 THEN call.limit ELSE DefaultRows
           /\ \A p \in Range(query) :
                p.kind = "between" => p.from = results.range.from /\ p.to = results.range.to

-----------------------------------------------------------------------------
(* Failures *)

Answered == call.tool \notin DashboardTools \cup RuleWrites /\ fetched # Unset

\* A query for a profile and metrics is answered with the parts that could be had.
PartsTold ==
    Answered /\ call.tool = "query_pyroscope" =>
        /\ pc = "done" =>
             /\ DOMAIN results # {}
             /\ DOMAIN results \cap errors = {}
             /\ call.type \in {"", "both"} => DOMAIN results \cup errors = {"profile", "metrics"}
        /\ pc = "failed" => DOMAIN fetched = {}

\* Other calls are done in spite of a failed request only when that was for
\* templates or for the state of a rule, and do not fail over one of those alone.
\* This the code only logs: the caller is not told (what is left of the answer then,
\* LogsAccounted and DetailOfOneRule say).
OnlyAsidesMissing ==
    Answered /\ call.tool # "query_pyroscope" =>
        /\ pc = "done" => errors \subseteq {"drain", "state"}
        /\ pc = "failed" => errors \notin {{"drain"}, {"state"}}

\* An error in the body of an answer makes a query of CloudWatch or Cloud Monitoring
\* fail, so that no empty result stands for it.  The lists of label names and values
\* of Cloud Monitoring do not look at it and are not spoken of here.
MetricQueryTools == {"query_prometheus", "query_prometheus_histogram"}
BodyErrorsFail ==
    pc = "done" /\ (call.tool = "query_cloudwatch" \/ (call.tool \in MetricQueryTools /\ Cloud)) =>
        ~(stored.answer.known /\ stored.answer.error)

\* A goroutine panics, which nothing recovers, only for a negative limit or page
\* or for a column of values that is shorter than its times.
PanicsExplained ==
    pc = "panicked" =>
        \/ /\ call.tool \in {"list_prometheus_label_names", "list_prometheus_label_values"}
           /\ call.limit < 0
        \/ call.tool = "list_prometheus_metric_names" /\ (call.limit < 0 \/ call.page < 0)
        \/ /\ call.tool = "query_prometheus" /\ call.type = "instant"
           /\ \E f \in Range(stored.answer.frames) :
                /\ Alert!HasColumns(f, Alert!CloudTypes)
                /\ Len(f.columns[Alert!LastField(f, Alert!CloudTypes)])
                     < Len(f.columns[Alert!LastField(f, {"time"})])

\* A failure costs what could not be had and nothing else: one panel, one of two
\* parts, both of these told to the caller, what a request on the side would have
\* added, not told, or else the whole call, with an error.  Only known arguments and
\* answers crash a call.
FailuresContained ==
    OneOutcomePerPanel /\ PartsTold /\ OnlyAsidesMissing /\ BodyErrorsFail /\ PanicsExplained

-----------------------------------------------------------------------------
(* Metrics *)

\* A frame of a time series, as Grafana's datasources answer: one column of times and
\* one of numbers.
IsSeries(frame) ==
    Len(frame.fields) = 2 /\ frame.fields[1].type = "time" /\ frame.fields[2].type = "number"

\* The samples of such a frame that can be read.
Readable(frame) ==
    IF Len(frame.columns) < 2 THEN {}
    ELSE {i \in 1..Least(Len(frame.columns[1]), Len(frame.columns[2])) :
            frame.columns[1][i] # Alert!Unreadable /\ frame.columns[2][i] # Alert!Unreadable}

\* No sample of a time series that can be read is lost on the way from Grafana's
\* frames, and CloudWatch's statistics are over the samples of all frames.
SamplesKept ==
    pc = "done" =>
        /\ call.tool = "query_cloudwatch" /\ (\A f \in Range(stored.answer.frames) : IsSeries(f)) =>
             LET frames == stored.answer.frames
                 counts == [f \in DOMAIN frames |-> Cardinality(Readable(frames[f]))]
                 Values(f) == {frames[f].columns[2][i] : i \in Readable(frames[f])}
                 all == UNION {Values(f) : f \in DOMAIN frames}
             IN /\ Len(results.answer.samples) = Total(counts)
                /\ all # {} => /\ results.answer.statistics.count = Total(counts)
                               /\ results.answer.statistics.min = Min(all)
                               /\ results.answer.statistics.max = Max(all)
        /\ call.tool = "query_prometheus" /\ Cloud /\ call.type # "instant"
             /\ stored.answer.known =>
                \A f \in Range(stored.answer.frames) :
                    IsSeries(f) /\ Readable(f) # {} => \E i \in DOMAIN results.data :
                        Len(results.data[i].samples) = Cardinality(Readable(f))

\* A window is never sent with its end before its start by Pyroscope's tools and by
\* queries of Cloud Monitoring, nor by the others when the caller states both times
\* in order or neither.  One end alone, earlier than an hour ago, gives the others a
\* window that ends before it starts.
WindowForward ==
    pc = "asking" /\ "start" \in DOMAIN call =>
        \/ WindowOf.from <= WindowOf.to
        \/ /\ call.tool \notin PyroscopeTools
           /\ ~(Cloud /\ call.tool = "query_prometheus")
           /\ \/ call.start > call.end
              \/ call.start = 0 /\ call.end < Now - Hour

-----------------------------------------------------------------------------
(* Alert rules *)

\* The detail of a rule is made of two reads between which others edit, move and
\* delete rules: its state is that of the same rule or missing.  It is there when
\* nobody interfered and no read failed, and missing when the second read failed.
DetailOfOneRule ==
    call.tool = "get_alert_rule" /\ pc = "done" =>
        /\ results.config.uid = call.uid
        /\ results.of = call.uid
        /\ "state" \in errors => results.state = ""
        /\ others = 0 /\ errors = {} =>
             \E r \in Range(stored.rules) :
                r.uid = call.uid /\ results.state = Alert!NormalizeState(r.state)

\* A list of rules is the beginning of the rules that match, no longer than its
\* limit.  It is all of them up to the maximum, if the caller states no limit or
\* the rules of the folder and group are within it, with those that record and
\* those with other labels: Grafana counts these before the tool leaves them out.
ListComplete ==
    call.tool = "list_alert_rules" /\ pc = "done" =>
        LET counted == Those(stored.rules, {r \in Range(stored.rules) :
                            /\ call.folder \in {"", r.rule.folder}
                            /\ call.group \in {"", r.rule.group}})
            all == Those(counted, {r \in Range(counted) :
                      /\ stored.type = "grafana" \/ r.rule.record = Alert!NoRecord
                      /\ \A i \in DOMAIN call.selectors :
                            Alert!Matches(call.selectors[i], r.rule.labels)})
        IN /\ [i \in DOMAIN results |-> results[i].uid]
                = [i \in DOMAIN results |-> all[i].uid]
           /\ Len(results) <= IF call.limit = 0 THEN MaxRules ELSE Least(call.limit, MaxRules)
           /\ call.limit = 0 \/ Len(counted) <= Least(call.limit, MaxRules) =>
                Len(results) = Least(Len(all), MaxRules)
=============================================================================
