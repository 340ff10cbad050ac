------------------------- MODULE GrafanaToolsProps -------------------------
(* What callers of the dashboard tools may rely on. *)
EXTENDS GrafanaTools

-----------------------------------------------------------------------------
(* update_dashboard *)

\* The value at a path without indices at its end, or Error.
ValueAt(doc, path) ==
    LET obj == Last(Levels(doc, path))
        key == Last(path).key
    IN IF obj # Error /\ key \in DOMAIN Of(obj) THEN Of(obj)[key] ELSE Error

\* An operation that can change the array at a path or shift it elsewhere.
Concerns(op, path) ==
    LET target == IF RemovesElement(op) THEN ArrayOf(op.path)
                  ELSE Append(Front(op.path), Field(Last(op.path).key))
        n == IF Len(target) < Len(path) THEN Len(target) ELSE Len(path)
    IN /\ \A i \in 1..n - 1 : target[i] = path[i]
       /\ target[n].key = path[n].key
       /\ n < Len(target) => n = Len(path)

\* Is the array only shrunk and added to, by indices it had at the start?
OnlyListed(ops, path, length) ==
    \A i \in DOMAIN ops : Concerns(ops[i], path) =>
        \/ /\ RemovesElement(ops[i])
           /\ ArrayOf(ops[i].path) = path
           /\ Last(ops[i].path).index < length
        \/ /\ ops[i].op # "remove"
           /\ ops[i].path = Append(Front(path), End(Last(path).key))

Listed(ops, path) ==
    {Last(ops[i].path).index + 1 :
        i \in {j \in DOMAIN ops : RemovesElement(ops[j]) /\ ArrayOf(ops[j].path) = path}}

Added(ops, path) ==
    LET adds == ElementsAt(ops, {i \in DOMAIN ops : ops[i].op # "remove" /\ Concerns(ops[i], path)})
    IN [i \in DOMAIN adds |-> adds[i].value]

Kept(seq, listed) == ElementsAt(seq, DOMAIN seq \ listed)

\* Removals mean the elements at the indices that the caller saw: an array that
\* is only removed from and added to loses the listed elements, keeps all others
\* in their order and has what was added at its end.  And unless the caller
\* gives a folder, a dashboard that nobody moved meanwhile stays in its own.
ArrayPaths == {<<Field("panels")>>, <<Field("tags")>>,
               <<Elem("panels", 0), Field("targets")>>,
               <<Elem("panels", 1), Field("targets")>>}
SavesWhatWasAsked ==
    Save =>
        /\ \A path \in ArrayPaths :
             LET old == ValueAt(fetched.doc, path)
                 new == ValueAt(stored'.doc, path)
             IN (Kind(old) = "array" /\ OnlyListed(call.ops, path, Len(Of(old)))) =>
                  new = Arr(Kept(Of(old), Listed(call.ops, path)) \o Added(call.ops, path))
        /\ (call.folder = NoFolder /\ fetched.folder = stored.folder) =>
             stored'.folder = stored.folder
PatchKeepsRest == [][SavesWhatWasAsked]_vars

-----------------------------------------------------------------------------
(* run_panel_query and get_dashboard_panel_queries *)

\* Each panel that was asked for has a result or an error when the call ends, and
\* not both unless it was asked for twice: one failure hides no other panel.
OneOutcomePerPanel ==
    call.tool = "run_panel_query" /\ pc = "done" =>
        /\ DOMAIN results \cup errors = Range(call.ids)
        /\ IsInjective(call.ids) => DOMAIN results \cap errors = {}

\* A query goes to a datasource in the language of that datasource, if the types
\* that the dashboard and the caller state are right and a caller who names a
\* datasource also states its type.
OfItsType(ds) == ds.uid \in DOMAIN TypeOf /\ TypeOf[ds.uid] = ds.type
StatedRight(ds) == IsVariableReference(ds.uid) \/ ds.type = "" \/ OfItsType(ds)
RoutedByType ==
    call.tool = "run_panel_query" /\ fetched # Unset =>
        \A id \in DOMAIN results :
            LET panel == FindPanelByID(fetched.panels, id) IN
            (/\ StatedRight(RunDatasource(panel, panel.targets[call.index + 1]))
             /\ call.uid # Empty => (call.type # "" /\ OfItsType(call)))
            => OfItsType(results[id])

\* Values without references: Go's order of a map cannot matter.
PlainValues(values) == \A n \in DOMAIN values : Plain(values[n])

\* When no value holds a reference, every ${x}, $x and [[x]] of a known variable
\* is replaced by its value once, in whichever order the variables come.
SubstitutedOnce ==
    call.tool = "run_panel_query" /\ fetched # Unset =>
        LET values == RunVariables(fetched.variables, call.vars) IN
        PlainValues(values) =>
            \A id \in DOMAIN results :
                results[id].query = ReplaceRefs(
                    FindPanelByID(fetched.panels, id).targets[call.index + 1].query,
                    {"braces", "simple", "brackets"}, values)

\* Two tools, one query: what get_dashboard_panel_queries shows of the first
\* query of a panel is what run_panel_query sends with the same values, if
\* every variable has one plain current value, no option is used and the UID of
\* the datasource is a name or one reference, with no text around it.
OneValue(variable) ==
    /\ Len(variable.current) = 1
    /\ Head(variable.current) # Empty
    /\ Plain(Head(variable.current))
NoOption(text) == \A i \in DOMAIN text : text[i][1] # "option"
NameOrReference(uid) == Plain(uid) \/ Len(uid) = 1
ShowsWhatRuns ==
    call.tool = "get_dashboard_panel_queries" /\ pc = "done" =>
        LET panel == FindPanelByID(fetched.panels, call.id)
            run == [index |-> 0, vars |-> call.vars, uid |-> Empty, type |-> ""]
            values == RunVariables(fetched.variables, call.vars)
            order == SetToSeq(DOMAIN values)
            sent == PanelQuery(fetched, run, call.id, TypeOf, order)
        IN (/\ \A v \in fetched.variables : OneValue(v)
            /\ PlainValues(call.vars)
            /\ sent # Unset
            /\ NameOrReference(RunDatasource(panel, panel.targets[1]).uid)
            /\ panel.targets[1].query # Empty
            /\ NoOption(panel.targets[1].query)) =>
             /\ results[call.id][1].query = sent.query
             /\ results[call.id][1].uid = sent.uid
=============================================================================
