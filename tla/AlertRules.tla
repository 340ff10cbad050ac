----------------------------- MODULE AlertRules -----------------------------
(***************************************************************************)
(* alerting_manage_rules and alerting_manage_routing as functions: the rule *)
(* that a caller's arguments make, the detail that two reads of Grafana are *)
(* merged into, and lists that Grafana and the tool both filter and cut.    *)
(***************************************************************************)
EXTENDS MetricQueries

CONSTANT MaxRules \* maxRulesLimit, also the default

-----------------------------------------------------------------------------
(* Writing a rule *)

\* Letters as numbers: 0 is <<0>> or A, 26 is <<0, 0>> or AA.
IndexToRefID[i \in Nat] ==
    IF i < 26 THEN <<i>> ELSE Append(IndexToRefID[i \div 26 - 1], i % 26)

NoRange == <<>>
Expression == "__expr__"

\* A query that states no refId is given the letter of its position, whether or not
\* another query has it.
ConvertAlertQueries(data) ==
    [i \in DOMAIN data |->
        [data[i] EXCEPT !.ref = IF @ = <<>> THEN IndexToRefID[i - 1] ELSE @,
                        !.range = IF @ = NoRange /\ data[i].source # Expression
                                  THEN <<600, 0>> ELSE @]]

NoRecord == [from |-> "none", metric |-> "none"]
ValidateRule(call) ==
    /\ \A field \in {"title", "group", "folder", "condition", "noData", "execErr", "for"} :
           call.rule[field] # ""
    /\ call.rule.data # Missing
    /\ call.org > 0
    /\ call.rule.record # NoRecord => call.rule.record.from # "" /\ call.rule.record.metric # ""
    /\ call.tool = "update" => call.uid # ""

\* The whole rule: what the caller leaves out is not what the rule had before.
ToRule(call) == [call.rule EXCEPT !.data = ConvertAlertQueries(@)]

-----------------------------------------------------------------------------
(* Reading a rule *)

NormalizeState(state) == IF state = "inactive" THEN "normal" ELSE state

ExtractQuerySummaries(data) ==
    [i \in DOMAIN data |-> [ref |-> data[i].ref, source |-> data[i].source]]

NoRuntime == [uid |-> "", state |-> ""]

\* Mutant of FindRuleInResponse: the only rule of the group is taken.
FindAnyRule(rules, uid) ==
    IF rules = <<>> THEN NoRuntime ELSE [uid |-> Head(rules).uid, state |-> Head(rules).state]

\* The position of the first rule with a UID, or 0.
PositionOf(rules, uid) == SelectInSeq(rules, LAMBDA r : r.uid = uid)

FindRuleInResponse(rules, uid) ==
    LET first == PositionOf(rules, uid) IN
    IF first = 0 THEN NoRuntime ELSE [uid |-> uid, state |-> rules[first].state]

\* The configuration as it was read first, the state as it was read after.
MergeRuleDetail(config, runtime) ==
    [config |-> [config EXCEPT !.rule.data = ExtractQuerySummaries(@)],
     of |-> IF runtime = NoRuntime THEN config.uid ELSE runtime.uid,
     state |-> IF runtime = NoRuntime THEN "" ELSE NormalizeState(runtime.state)]

-----------------------------------------------------------------------------
(* Lists *)

\* The rules that Grafana lists: whole groups, until the limit is reached.
ServerRules(rules, opts) ==
    LET chosen == Those(rules, {r \in Range(rules) : /\ opts.folder \in {"", r.rule.folder}
                                                     /\ opts.group \in {"", r.rule.group}})
        GroupOf(r) == <<r.rule.folder, r.rule.group>>
        \* rules of the group of rule i, up to rule i
        InGroup(i) == Cardinality({j \in 1..i : \A k \in j..i : GroupOf(chosen[k]) = GroupOf(chosen[i])})
    IN IF opts.limit = 0 THEN chosen
       ELSE SubSeq(chosen, 1, Max({0} \cup {i \in DOMAIN chosen : i - InGroup(i) < opts.limit}))

\* buildGetRulesOpts and queryValues: a limit of 0 is not sent.
BuildGetRulesOpts(call) ==
    [folder |-> call.folder, group |-> call.group, limit |-> Min({call.limit, MaxRules})]
AcceptsList(call) ==
    /\ call.limit >= 0
    /\ ~(call.folder # "" /\ call.search # "")
    /\ ValidSelector(call.matchers)

FilterSummaryByLabels(rules, selectors) ==
    Those(rules, {r \in Range(rules) :
                    \A i \in DOMAIN selectors : Matches(selectors[i], r.rule.labels)})

\* Mutant of ApplyRuleLimit: what Grafana limits is not cut again.
ApplyNoRuleLimit(rules, limit) == rules

ApplyRuleLimit(rules, limit) ==
    SubSeq(rules, 1, Min({Len(rules), IF limit = 0 THEN MaxRules ELSE Min({limit, MaxRules})}))

ConvertRulesResponseToSummary(rules) ==
    [i \in DOMAIN rules |-> [rules[i] EXCEPT !.state = NormalizeState(@)]]

\* A selector is looked at when those before it match a rule.
MeetsInvalid(rules, selectors) ==
    \E r \in DOMAIN rules, i \in DOMAIN selectors :
        /\ \A j \in 1..i - 1 : Matches(selectors[j], rules[r].rule.labels)
        /\ ~ValidSelector(selectors[i])

ListRules(call, listed) ==
    IF MeetsInvalid(listed, call.selectors) THEN Error
    ELSE Done(ApplyRuleLimit(FilterSummaryByLabels(listed, call.selectors), call.limit))

ListGrafanaRules(call, rules) ==
    ListRules(call, ConvertRulesResponseToSummary(ServerRules(rules, BuildGetRulesOpts(call))))

\* Rules of a Prometheus or Loki datasource; those that record are left out.
IsRulerDatasource(type) == type \in {"prometheus", "loki"}
ListDatasourceAlertRules(call, rules) ==
    LET listed == ConvertRulesResponseToSummary(ServerRules(rules, BuildGetRulesOpts(call))) IN
    ListRules(call, Those(listed, {r \in Range(listed) : r.rule.record = NoRecord}))

\* Contact points of Grafana, or receivers of an Alertmanager.
Receivers(call, points) ==
    LET named == SelectSeq(points, LAMBDA p : call.name \in {"", p}) IN
    SubSeq(named, 1, Min({Len(named), At(call.limit, 100)}))
ManageRouting(call, points) ==
    CASE call.operation = "get_contact_points" -> Done(Receivers(call, points))
      [] call.operation = "get_contact_point" ->
           IF Contains(points, call.name) THEN Done(<<call.name>>) ELSE Error
      [] OTHER -> Done(points)
=============================================================================
