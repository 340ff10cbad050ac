------------------------------ MODULE LokiLogs ------------------------------
(***************************************************************************)
(* query_loki_logs and the other Loki tools as functions of the arguments   *)
(* and of what Loki and the Drain3 service answer: log lines are read into  *)
(* a common shape, frequent ones replaced by their template, cut to the     *)
(* limit, grouped by labels and merged with their like.                     *)
(***************************************************************************)
EXTENDS Lists

CONSTANTS
    Now,   \* the time of the call
    Hour   \* the length of a window nobody states

NoText == ""
FirstText(texts) ==
    LET there == Those(texts, Range(texts) \ {NoText}) IN
    IF there = <<>> THEN NoText ELSE Head(there)

-----------------------------------------------------------------------------
(* The request *)

DefaultLimit == 2 \* DefaultLokiLogLimit, in the proportion of the bounds

Smaller(a, b) == IF a < b THEN a ELSE b

\* max: the configured maximum, or the default one if that is not positive.
EnforceLogLimit(requested, max) ==
    IF requested <= 0 THEN Smaller(DefaultLimit, max) ELSE Smaller(requested, max)

\* An instant query looks at its end, or else at its start.
NoTime == 0
Given(time, default) == IF time = NoTime THEN default ELSE time
Window(call) ==
    IF call.type = "instant"
    THEN LET at == Given(call.end, Given(call.start, Now)) IN [from |-> at, to |-> at]
    ELSE [from |-> Given(call.start, Now - Hour), to |-> Given(call.end, Now)]

\* Mutant of Asked: no line more than the limit.
AskedOnly(limit) == limit

\* One line more than the limit tells whether there are more.
Asked(limit) == limit + 1

\* An instant query is sent without a limit and a direction.
NoLimit == 0
Request(call, max) ==
    [endpoint |-> IF call.type = "instant" THEN "query" ELSE "query_range",
     limit |-> IF call.type = "instant" THEN NoLimit
               ELSE Asked(EnforceLogLimit(call.limit, max)),
     newest |-> call.type = "instant" \/ call.direction # "forward",
     window |-> Window(call)]

\* Loki, which holds a stream in order of time: the first lines of the log in the
\* direction asked for, by stream.
Answer(streams, request) ==
    LET times == UNION {{streams[i].lines[j].time : j \in DOMAIN streams[i].lines} :
                            i \in DOMAIN streams}
        Rank(t) == Cardinality({x \in times : IF request.newest THEN x > t ELSE x < t})
        Chosen(lines) == Those(lines, {l \in Range(lines) : \/ request.limit = NoLimit
                                                           \/ Rank(l.time) < request.limit})
        Sent(lines) == IF request.newest THEN Reverse(Chosen(lines)) ELSE Chosen(lines)
    IN [i \in DOMAIN streams |-> [streams[i] EXCEPT !.lines = Sent(@)]]

-----------------------------------------------------------------------------
(* Reading a line *)

NotJson == [level |-> NoText, message |-> NoText, type |-> NoText, error |-> NoText,
            exception |-> FALSE, route |-> NoText, origin |-> NoText, project |-> NoText,
            stamp |-> 0]

\* The path named by the message, else by the stack trace of an exception.
Path(doc) ==
    LET origin == IF doc.level = "error" /\ doc.exception THEN doc.origin ELSE NoText IN
    FirstText(<<IF doc.message = NoText THEN NoText ELSE doc.route, origin, doc.project>>)

Blank(doc) ==
    /\ FirstText(<<doc.level, doc.message, doc.type, doc.error>>) = NoText
    /\ doc.stamp = 0

Line(raw) ==
    LET doc == IF Blank(raw.doc) THEN [NotJson EXCEPT !.message = raw.text] ELSE raw.doc IN
    [level |-> doc.level, message |-> doc.message, path |-> Path(doc), type |-> doc.type,
     error |-> doc.error, stamp |-> doc.stamp, extra |-> {}]

\* The line's own timestamp and level come before those that Loki knows.
NormalizeLogEntry(labels, raw) ==
    LET line == Line(raw) IN
    [labels |-> Restrict(labels, DOMAIN labels \ {"filename", "stream"}),
     line |-> [line EXCEPT !.stamp = IF @ = 0 THEN raw.time ELSE @,
                           !.level = FirstText(<<@, raw.detected>>), !.extra = raw.meta]]

Entries(streams) ==
    FlattenSeq([i \in DOMAIN streams |->
        [j \in DOMAIN streams[i].lines |->
            NormalizeLogEntry(streams[i].labels, streams[i].lines[j])]])

-----------------------------------------------------------------------------
(* Templates *)

ClassifyLogLevel(level) ==
    CASE level \in {"error", "info", "debug"} -> level
      [] level \in {"warn", "warning"} -> "warn"
      [] OTHER -> "unknown"

ShouldTemplateCluster(line) ==
    ClassifyLogLevel(line.level) \in {"info", "debug", "unknown"} /\ line.message # NoText

\* The service returns one result for each message, or the entries stay as they are.
ApplyTemplateClustering(entries, drain) ==
    [i \in DOMAIN entries |->
        IF ~drain.ok \/ ~ShouldTemplateCluster(entries[i].line) THEN entries[i]
        ELSE LET reply == drain.of[entries[i].line.message] IN
             IF reply.template = NoText THEN entries[i]
             ELSE [entries[i] EXCEPT !.line.message = reply.template, !.line.path = NoText,
                                     !.line.extra = @ \cup {reply.id}]]

-----------------------------------------------------------------------------
(* Groups *)

Key(line) ==
    <<line.level, line.message>> \o
    (IF line.level = "error" THEN <<line.path, line.type, line.error>> ELSE <<>>)

GroupLogEntriesByLabels(entries) ==
    LET alike == Alike([i \in DOMAIN entries |-> entries[i].labels]) IN
    [g \in DOMAIN alike |->
        [labels |-> entries[Head(alike[g])].labels,
         lines |-> [i \in DOMAIN alike[g] |-> entries[alike[g][i]].line]]]

\* Timestamps are compared as text: a whole second, which is written without a
\* fraction, comes after its fractions.
AsText(stamp) == IF stamp % 10 = 0 THEN stamp + 10 ELSE stamp

SummarizeLineTimestamps(level, stamps) ==
    IF level \notin {"info", "debug"} \/ Len(stamps) <= 1 THEN stamps
    ELSE LET All == {stamps[i] : i \in DOMAIN stamps}
             start == CHOOSE s \in All : \A x \in All : AsText(s) <= AsText(x)
             end == CHOOSE s \in All : \A x \in All : AsText(s) >= AsText(x)
         IN IF start = end THEN <<start>> ELSE <<start, end>>

\* Lines that have one key become one, the first of them.
Merge(lines) ==
    LET alike == Alike([i \in DOMAIN lines |-> Key(lines[i])]) IN
    [k \in DOMAIN alike |->
        LET first == lines[Head(alike[k])]
            stamps == [i \in DOMAIN alike[k] |-> lines[alike[k][i]].stamp]
        IN [line |-> first, occurrences |-> Len(alike[k]),
            stamps |-> SummarizeLineTimestamps(first.level, stamps)]]

DeduplicateGroupedLines(groups) ==
    [g \in DOMAIN groups |-> [labels |-> groups[g].labels, lines |-> Merge(groups[g].lines)]]

CountGroupedLines(groups) == FoldLeft(LAMBDA n, g : n + Len(g.lines), 0, groups)

QueryLokiLogs(call, loki, drain) ==
    LET limit == EnforceLogLimit(call.limit, loki.max)
        entries == ApplyTemplateClustering(
                      Entries(Answer(loki.streams, Request(call, loki.max))), drain)
        kept == SubSeq(entries, 1, Smaller(limit, Len(entries)))
        groups == DeduplicateGroupedLines(GroupLogEntriesByLabels(kept))
    IN [data |-> groups, returned |-> CountGroupedLines(groups), max |-> limit,
        truncated |-> Len(entries) > limit, hints |-> entries = <<>>]

\* Metrics: samples that can be read, series that have one, without a limit.
QueryLokiMetrics(samples) ==
    LET Readable(points) == Those(points, {p \in Range(points) : p.readable})
        series == [i \in DOMAIN samples |-> [samples[i] EXCEPT !.points = Readable(@)]]
    IN Those(series, {s \in Range(series) : s.points # <<>>})

\* search_logs lists the merged lines, each with the first of its timestamps.
SearchLogsInLoki(call, loki, drain) ==
    LET found == QueryLokiLogs(call, loki, drain).data IN
    FlattenSeq([g \in DOMAIN found |-> [i \in DOMAIN found[g].lines |->
        [stamp |-> Head(found[g].lines[i].stamps), labels |-> found[g].labels,
         line |-> found[g].lines[i].line]]])
=============================================================================
