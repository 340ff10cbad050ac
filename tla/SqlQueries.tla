----------------------------- MODULE SqlQueries -----------------------------
(***************************************************************************)
(* query_clickhouse and the tools built on it.  A query is a sequence of    *)
(* parts: text, macros, variables, limits and patterns to search for.       *)
(***************************************************************************)
EXTENDS Integers, Sequences, SequencesExt, FiniteSetsExt

CONSTANTS
    DefaultRows, \* DefaultClickHouseLimit
    MaxRows,     \* MaxClickHouseLimit
    Now,         \* the time of the call
    Hour         \* the length of a window nobody states

NoTime == 0

Text(x) == [kind |-> "text", text |-> x]
Number(n) == [kind |-> "number", value |-> n]
\* $__name, followed by rest: $__fromTime is from with Time after it.
Macro(name, rest) == [kind |-> "macro", name |-> name, rest |-> rest]
Var(name) == [kind |-> "var", name |-> name]
\* LIMIT first, or LIMIT first, second; of the query, by group or in a subquery.
Limit(of, first, second) == [kind |-> "limit", of |-> of, first |-> first, second |-> second]
None == 0 \* no second number
LimitParts ==
    [kind : {"limit"}, of : {"query", "group", "subquery", "pattern"}, first : Nat, second : Nat]

-----------------------------------------------------------------------------
\* Where a time range starts and ends; what the caller leaves out has a default.
TimeRange(call) ==
    [from |-> IF call.start = NoTime THEN Now - Hour ELSE call.start,
     to |-> IF call.end = NoTime THEN Now ELSE call.end]

Interval(range) == IF range.to - range.from < 1 THEN 1 ELSE range.to - range.from
Between(range) == [kind |-> "between", from |-> range.from, to |-> range.to]

After(part, rest) == IF rest = "" THEN <<part>> ELSE <<part, Text(rest)>>

\* Text that begins with the name of a macro is taken for it.
SubstituteMacro(part, range) ==
    IF part.kind # "macro" THEN <<part>>
    ELSE CASE part.name = "timeFilter" /\ part.rest = "" -> <<Between(range)>>
           [] part.name = "from" -> After(Number(range.from), part.rest)
           [] part.name = "to" -> After(Number(range.to), part.rest)
           [] part.name = "interval" -> IF part.rest = "_ms" THEN <<Number(1000 * Interval(range))>>
                                        ELSE After(Number(Interval(range)), part.rest)
           [] OTHER -> <<part>>

SubstituteClickHouseMacros(query, range) ==
    FlattenSeq([i \in DOMAIN query |-> SubstituteMacro(query[i], range)])

SubstituteVariables(query, values) ==
    FlattenSeq([i \in DOMAIN query |->
        IF query[i].kind = "var" /\ query[i].name \in DOMAIN values
        THEN values[query[i].name] ELSE <<query[i]>>])

IsLimit(part) == part.kind = "limit"

\* Mutant of EnforceClickHouseLimit: a limit of the query is left as it is.
KeepClickHouseLimit(query, requested) ==
    LET limit == Min({MaxRows, IF requested <= 0 THEN DefaultRows ELSE requested}) IN
    IF \E i \in DOMAIN query : IsLimit(query[i]) THEN query
    ELSE Append(query, Limit("query", limit, None))

\* Wherever LIMIT and a number are found, the number is lowered to the maximum;
\* where they are not, a limit is appended.
EnforceClickHouseLimit(query, requested) ==
    LET limit == Min({MaxRows, IF requested <= 0 THEN DefaultRows ELSE requested}) IN
    IF \E i \in DOMAIN query : IsLimit(query[i])
    THEN [i \in DOMAIN query |-> IF IsLimit(query[i])
                                 THEN [query[i] EXCEPT !.first = Min({@, MaxRows})] ELSE query[i]]
    ELSE Append(query, Limit("query", limit, None))

ProcessedQuery(call) ==
    EnforceClickHouseLimit(
        SubstituteVariables(SubstituteClickHouseMacros(call.query, TimeRange(call)), call.vars),
        call.limit)

\* ClickHouse: as many of the rows as the limits of the query itself let through.
Rows(query, rows) ==
    LET limits == {IF query[i].second = None THEN query[i].first ELSE query[i].second :
                      i \in {j \in DOMAIN query : IsLimit(query[j]) /\ query[j].of = "query"}}
    IN Min(limits \cup {rows})

QueryClickHouse(call, rows) ==
    LET query == ProcessedQuery(call) IN
    [query |-> query, range |-> TimeRange(call), rowCount |-> Rows(query, rows),
     hints |-> Rows(query, rows) = 0]

-----------------------------------------------------------------------------
(* Tools with queries of their own *)

\* list_clickhouse_tables and describe_clickhouse_table ask the system tables.
SystemQuery(call) ==
    LET names == IF call.tool = "describe_clickhouse_table"
                 THEN <<IF call.database = "" THEN "default" ELSE call.database, call.table>>
                 ELSE IF call.database = "" THEN <<>> ELSE <<call.database>>
        limit == IF call.tool = "list_clickhouse_tables" THEN <<Limit("query", MaxRows, None)>>
                 ELSE <<>>
    IN [query |-> [i \in DOMAIN names |-> Text(names[i])] \o limit, limit |-> MaxRows,
        start |-> NoTime, end |-> NoTime, vars |-> <<>>]

\* search_logs: the pattern is a part of the query like any other.
EnforceSearchLogsLimit(requested) ==
    Min({MaxRows, IF requested <= 0 THEN DefaultRows ELSE requested})
SearchQuery(call) ==
    [query |-> call.pattern \o <<Macro("timeFilter", ""),
                                 Limit("query", EnforceSearchLogsLimit(call.limit), None)>>,
     limit |-> EnforceSearchLogsLimit(call.limit), start |-> call.start, end |-> call.end,
     vars |-> <<>>]
=============================================================================
