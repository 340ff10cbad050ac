--------------------------- MODULE MetricQueries ---------------------------
(***************************************************************************)
(* The tools that ask for metrics, profiles and documents: Prometheus and   *)
(* Cloud Monitoring, CloudWatch, Pyroscope and Elasticsearch.  What each    *)
(* sends for the caller's arguments, and what it makes of the answer.       *)
(***************************************************************************)
EXTENDS Lists, FiniteSetsExt

CONSTANTS
    Now,       \* the time of the call
    Hour,      \* the length of a window nobody states
    MaxDocs,   \* MaxElasticsearchLimit
    Globs,     \* what a pattern stands for: a function to sets of names
    Missing    \* an argument that the caller leaves out

\* How a call ends: with an answer, with an error, or as its goroutine panics.
Done(value) == [end |-> "done", value |-> value]
Error == [end |-> "failed", value |-> <<>>]
Panic == [end |-> "panicked", value |-> <<>>]

NoTime == 0 \* the zero time: the caller states none
Unreadable == -1 \* a value that is not a number

Given(time, default) == IF time = NoTime THEN default ELSE time
Window(from, to) == [from |-> from, to |-> to]
At(number, default) == IF number = 0 THEN default ELSE number

-----------------------------------------------------------------------------
(* Windows *)

\* query_prometheus: an instant query looks at its end only.
QueryType(call) == IF call.type = "" THEN "range" ELSE call.type
AcceptsQuery(call) ==
    /\ call.end # NoTime
    /\ QueryType(call) = "range" => call.step # 0 /\ call.start # NoTime
PrometheusWindow(call) ==
    Window(IF QueryType(call) = "range" THEN call.start ELSE NoTime, call.end)

HistogramCall(call) ==
    [type |-> "range", start |-> Given(call.start, Now - Hour), end |-> Given(call.end, Now),
     step |-> At(call.step, 60)]
AcceptsHistogram(call) == call.percentile \in 0..100

\* Mutant of CloudWindow: only a time that is missing is replaced.
CloudWindowUnordered(window) ==
    LET start == Given(window.from, window.to) IN Window(start, Given(window.to, start))

\* Cloud Monitoring needs a start that is not after the end.
CloudWindow(window) ==
    LET start == Given(window.from, window.to)
        end == IF window.to = NoTime \/ window.to < start THEN start ELSE window.to
    IN Window(start, end)

LastHour(call) == Window(Given(call.start, Now - Hour), Given(call.end, Now))

\* Pyroscope's tools count the hour back from the end and refuse an empty window.
PyroscopeWindow(call) ==
    LET end == Given(call.end, Now) IN Window(Given(call.start, end - Hour), end)
ValidateTimeRange(window) == window.from < window.to

-----------------------------------------------------------------------------
(* Frames: fields of a type, with labels, and columns of values *)

LastField(frame, types) ==
    Max({0} \cup {i \in DOMAIN frame.fields : frame.fields[i].type \in types})

HasColumns(frame, types) ==
    LET time == LastField(frame, {"time"})
        value == LastField(frame, types)
    IN time # 0 /\ value # 0 /\ Len(frame.columns) >= Max({time, value})

\* The samples of a frame whose time and value can be read.
Samples(frame, types) ==
    LET times == frame.columns[LastField(frame, {"time"})]
        values == frame.columns[LastField(frame, types)]
        pairs == [i \in 1..Min({Len(times), Len(values)}) |-> <<times[i], values[i]>>]
    IN Those(pairs, {p \in Range(pairs) : p[1] # Unreadable /\ p[2] # Unreadable})

\* The frames that have columns of times and values.
WithColumns(frames, types) == Those(frames, {f \in Range(frames) : HasColumns(f, types)})

CloudTypes == {"number", "float64", "int64"}
Metric(frame) == <<frame.name, frame.fields[LastField(frame, CloudTypes)].labels>>

FramesToMatrix(frames) ==
    LET readable == WithColumns(frames, CloudTypes) IN
    [i \in DOMAIN readable |-> [metric |-> Metric(readable[i]),
                                samples |-> Samples(readable[i], CloudTypes)]]

\* The last sample of each frame; a column of values shorter than that of times
\* is read beyond its end.
FramesToVector(frames) ==
    LET Times(f) == f.columns[LastField(f, {"time"})]
        Values(f) == f.columns[LastField(f, CloudTypes)]
        timed == {f \in Range(frames) : /\ HasColumns(f, CloudTypes)
                                        /\ Times(f) # <<>> /\ Values(f) # <<>>
                                        /\ Last(Times(f)) # Unreadable}
        valued == Those(frames, {f \in timed : Values(f)[Len(Times(f))] # Unreadable})
    IN IF \E f \in timed : Len(Values(f)) < Len(Times(f)) THEN Panic
       ELSE Done([i \in DOMAIN valued |->
               [metric |-> Metric(valued[i]),
                samples |-> << <<Last(Times(valued[i])),
                                 Values(valued[i])[Len(Times(valued[i]))]>> >>]])

\* What Grafana answers to a query: the result of refId A, an error in it, frames.
FramesToPrometheusValue(answer, type) ==
    CASE ~answer.known -> Done(<<>>)
      [] answer.known /\ answer.error -> Error
      [] answer.known /\ ~answer.error /\ type = "instant" -> FramesToVector(answer.frames)
      [] OTHER -> Done(FramesToMatrix(answer.frames))

IsPrometheusResultEmpty(value) == value = <<>>

-----------------------------------------------------------------------------
(* Names of metrics and labels *)

\* Does a selector match labels?  A label that is missing is an empty text.
ValidSelector(selector) == \A i \in DOMAIN selector : selector[i].type \in {"=", "!=", "=~", "!~"}
Matches(selector, labels) ==
    \A i \in DOMAIN selector :
        LET m == selector[i]
            value == IF m.name \in DOMAIN labels THEN labels[m.name] ELSE ""
            same == IF m.type \in {"=", "!="} THEN value = m.value ELSE value \in Globs[m.value]
        IN IF m.type \in {"=", "=~"} THEN same ELSE ~same

\* Of all matchers of a caller, Cloud Monitoring uses the first exact name.
ExtractNameMatcher(matches) ==
    LET exact == SelectSeq(FlattenSeq(matches),
                           LAMBDA m : m.name = "__name__" /\ m.type \in {"", "="})
    IN IF exact = <<>> THEN "" ELSE Head(exact).value

MatchesSimpleFilter(name, filter) ==
    filter = "" \/ name = filter \/ (filter \in DOMAIN Globs /\ name \in Globs[filter])

CloudMetricNames(descriptors, matches) ==
    SelectSeq(descriptors, LAMBDA d : MatchesSimpleFilter(d, ExtractNameMatcher(matches)))

\* Errors of the query itself are not looked at: what has no frames has no labels.
LabelsOf(answer) ==
    IF ~answer.known THEN <<>>
    ELSE FlattenSeq([i \in DOMAIN answer.frames |->
            [j \in DOMAIN answer.frames[i].fields |-> answer.frames[i].fields[j].labels]])
ExtractLabelNamesFromFrames(answer) ==
    UNION {DOMAIN LabelsOf(answer)[i] : i \in DOMAIN LabelsOf(answer)}
ExtractLabelValuesFromFrames(answer, label) ==
    {LabelsOf(answer)[i][label] :
        i \in {j \in DOMAIN LabelsOf(answer) : label \in DOMAIN LabelsOf(answer)[j]}}

CloudMetricMetadata(descriptors, metric, limit) ==
    LET chosen == SelectSeq(descriptors, LAMBDA d : metric = "" \/ d = metric) IN
    SubSeq(chosen, 1, IF limit > 0 THEN Min({limit, Len(chosen)}) ELSE Len(chosen))

\* The first names up to a limit.  A negative one is out of the bounds of a slice.
Limited(names, limit) ==
    LET most == At(limit, 100) IN
    CASE Len(names) <= most -> Done(names)
      [] Len(names) > most /\ most < 0 -> Panic
      [] OTHER -> Done(SubSeq(names, 1, most))

\* The names that a regular expression matches.
Named(names, regex) ==
    IF regex = "" THEN names ELSE Those(names, Globs[regex])

\* list_prometheus_metric_names: one page of the names that match.
Page(names, limit, number) ==
    LET size == At(limit, 10)
        start == (At(number, 1) - 1) * size
        end == start + size
        last == Min({end, Len(names)})
    IN CASE start >= Len(names) -> Done(<<>>)
         [] start < Len(names) /\ (start < 0 \/ last < start) -> Panic
         [] OTHER -> Done(SubSeq(names, start + 1, last))

-----------------------------------------------------------------------------
(* CloudWatch *)

CloudWatchQuery(call) ==
    [statistic |-> IF call.statistic = "" THEN "Average" ELSE call.statistic,
     period |-> IF call.period <= 0 THEN 300 ELSE call.period,
     region |-> IF call.region = "" THEN "default" ELSE call.region]

Statistics(values) ==
    IF values = <<>> THEN <<>>
    ELSE LET All == {values[i] : i \in DOMAIN values} IN
         [sum |-> FoldLeft(LAMBDA a, b : a + b, 0, values), min |-> Min(All),
          max |-> Max(All), count |-> Len(values)]

\* The samples of all frames, one after the other.
AllSamples(frames) ==
    LET readable == WithColumns(frames, {"number"}) IN
    FlattenSeq([i \in DOMAIN readable |-> Samples(readable[i], {"number"})])

\* Mutant of CloudWatchResult: the statistics of the last frame.
CloudWatchResultLastFrame(answer) ==
    LET frames == WithColumns(answer.frames, {"number"})
        samples == AllSamples(answer.frames)
        last == IF frames = <<>> THEN <<>> ELSE Samples(Last(frames), {"number"})
    IN IF answer.known /\ answer.error THEN Error
       ELSE Done([samples |-> samples, hints |-> samples = <<>>,
                  statistics |-> Statistics([i \in DOMAIN last |-> last[i][2]])])

\* All samples and statistics over them.
CloudWatchResult(answer) ==
    LET samples == AllSamples(answer.frames) IN
    IF answer.known /\ answer.error THEN Error
    ELSE Done([samples |-> samples, hints |-> samples = <<>>,
               statistics |-> Statistics([i \in DOMAIN samples |-> samples[i][2]])])

\* The resources of CloudWatch are asked for by what the caller states.
CloudWatchResource(call) ==
    [of |-> CASE call.tool = "list_cloudwatch_namespaces" -> "namespaces"
              [] call.tool = "list_cloudwatch_metrics" -> "metrics"
              [] OTHER -> "dimension-keys",
     params |-> {p \in {"region", "accountId"} : call[p] # ""} \cup
                (IF call.tool = "list_cloudwatch_namespaces" THEN {} ELSE {"namespace"}) \cup
                (IF call.tool = "list_cloudwatch_dimensions" THEN {"metricName"} ELSE {})]

-----------------------------------------------------------------------------
(* Pyroscope *)

WantsProfile(call) == call.type \in {"", "both", "profile"}
WantsMetrics(call) == call.type \in {"", "both", "metrics"}
Step(call, window) ==
    IF call.step > 0 THEN call.step ELSE Max({15, (window.to - window.from) \div 50})

\* Series without points are left out.
BuildSeriesResponse(series) == SelectSeq(series, LAMBDA s : s # <<>>)

\* Render takes an empty body or an empty profile for an error.
ProfileFails(profile) == profile \in {"", "empty profile"}

-----------------------------------------------------------------------------
(* Elasticsearch *)

DocsLimit(limit) == IF limit <= 0 THEN Min({10, MaxDocs}) ELSE Min({limit, MaxDocs})

\* A query that is a JSON object is used as it is, any other text is Lucene's.
BuildElasticsearchQuery(call) ==
    LET range == [gte |-> call.start, lte |-> call.end] IN
    [size |-> DocsLimit(call.limit), newestFirst |-> TRUE,
     must |-> (IF call.start # NoTime \/ call.end # NoTime THEN <<range>> ELSE <<>>) \o
              (IF call.query = "" THEN <<>>
               ELSE <<IF call.json THEN call.query ELSE <<"query_string", call.query>> >>)]

\* Only the first response counts, as only one query was sent.  The hits are as
\* many as Elasticsearch has, up to the size that was asked for.
Documents(answer, size) ==
    IF answer.responses = <<>> \/ Head(answer.responses).error THEN Error
    ELSE LET hits == Head(answer.responses).hits IN Done(SubSeq(hits, 1, Min({size, Len(hits)})))
=============================================================================
