---------------------------- MODULE PanelQueries ----------------------------
(***************************************************************************)
(* Queries of dashboard panels and the template variables in them          *)
(* (skuld-mcp-grafana/tools/run_panel_query.go, dashboard_helpers.go).     *)
(*                                                                         *)
(* A text is a sequence of pieces <<form, name>>: a literal, or a          *)
(* reference ${name}, ${name:option}, $name or [[name]].  Pieces do not    *)
(* run into each other: what precedes and follows a $name is no letter.    *)
(***************************************************************************)
EXTENDS Lists

CONSTANT Unset  \* no value: a variable without, or a missing datasource

Empty == <<>>
Lit(name) == <<"literal", name>>
Refers(piece) == piece[1] # "literal"
Plain(text) == \A i \in DOMAIN text : ~Refers(text[i])
AllValues == << <<"simple", "__all">> >>  \* "$__all"
AllText == << Lit("All") >>

-----------------------------------------------------------------------------
(* Panels *)

\* Panels in the order of the dashboard, those within a row after it.
CollectAllPanels(panels) ==
    FlattenSeq([i \in DOMAIN panels |-> <<panels[i]>> \o panels[i].nested])

HasPanel(panels, id) == \E p \in Range(CollectAllPanels(panels)) : p.id = id
FindPanelByID(panels, id) ==
    LET all == CollectAllPanels(panels) IN all[SelectInSeq(all, LAMBDA p : p.id = id)]

-----------------------------------------------------------------------------
(* Values of variables *)

\* What run_panel_query takes: the first current value, unless it is all of
\* them, or else its text.
RunValue(variable) ==
    LET value == IF variable.current = <<>> \/ Head(variable.current) = AllValues
                 THEN Unset ELSE Head(variable.current)
    IN IF value \in {Unset, Empty} /\ variable.text \notin {Empty, AllText}
       THEN variable.text ELSE value

\* What get_dashboard_panel_queries takes: all current values, or the default.
PreviewValue(variable) ==
    LET current == FlattenSeq([i \in DOMAIN variable.current |->
                       IF i = 1 THEN variable.current[i]
                                ELSE <<Lit(",")>> \o variable.current[i]])
    IN CASE current # Empty -> current
         [] current = Empty /\ variable.default # Empty -> variable.default
         [] OTHER -> Unset

\* Values by name; the caller's come before the dashboard's.
Effective(variables, overrides, ValueOf(_)) ==
    LET own == [n \in {v.name : v \in {w \in variables : ValueOf(w) # Unset}} |->
                    ValueOf(CHOOSE v \in variables : v.name = n)]
    IN Over(overrides, own)

\* Mutant of RunVariables: the values of the dashboard come first.
RunVariablesIgnored(variables, overrides) ==
    Over(Effective(variables, <<>>, RunValue), overrides)

RunVariables(variables, overrides) == Effective(variables, overrides, RunValue)
PreviewVariables(variables, overrides) == Effective(variables, overrides, PreviewValue)

-----------------------------------------------------------------------------
(* Substitution *)

ReplaceRefs(text, forms, values) ==
    FlattenSeq([i \in DOMAIN text |->
        IF text[i][1] \in forms /\ text[i][2] \in DOMAIN values
        THEN values[text[i][2]] ELSE <<text[i]>>])

\* Mutant of SubstituteTemplateVariables: [[name]] is forgotten.
SubstituteDollars(text, values, order) ==
    FoldLeft(LAMBDA q, n : ReplaceRefs(q, {"braces", "simple"}, Restrict(values, {n})),
             text, order)

\* One variable, one form after the other.
SubstituteOne(text, values, n) ==
    LET Replaced(q, form) == ReplaceRefs(q, {form}, Restrict(values, {n})) IN
    Replaced(Replaced(Replaced(text, "braces"), "brackets"), "simple")

\* One variable after the other, in the order in which Go iterates over the map.
SubstituteTemplateVariables(text, values, order) ==
    FoldLeft(LAMBDA q, n : SubstituteOne(q, values, n), text, order)

\* The forms with delimiters in one pass each, $name for one variable after the
\* other in between.
SubstituteSimple(text, values, order) ==
    FoldLeft(LAMBDA q, n : ReplaceRefs(q, {"simple"}, Restrict(values, {n})), text, order)
SubstituteVariables(text, values, order) ==
    LET braced == ReplaceRefs(text, {"braces", "option"}, values) IN
    ReplaceRefs(SubstituteSimple(braced, values, order), {"brackets"}, values)

Orders(values) == SetToSeqs(DOMAIN values)

-----------------------------------------------------------------------------
(* get_dashboard_panel_queries *)

\* Each half of the datasource is the target's or else the panel's.
PreviewDatasource(panel, target) ==
    [uid |-> IF target.ds.uid # Empty THEN target.ds.uid ELSE panel.ds.uid,
     type |-> IF target.ds.type # "" THEN target.ds.type ELSE panel.ds.type]

\* The queries of a panel, targets without a query left out.
ExtractPanelQueries(panel, values, order) ==
    LET targets == Those(panel.targets, {t \in Range(panel.targets) : t.query # Empty}) IN
    [i \in DOMAIN targets |->
        LET ds == PreviewDatasource(panel, targets[i]) IN
        [uid |-> SubstituteVariables(ds.uid, values, order),
         type |-> ds.type,
         query |-> SubstituteVariables(targets[i].query, values, order)]]

-----------------------------------------------------------------------------
(* run_panel_query *)

Supported == {"prometheus", "loki", "clickhouse", "cloudwatch"}

\* The target's datasource as a whole, or the panel's.
RunDatasource(panel, target) == IF target.ds.uid # Empty THEN target.ds ELSE panel.ds

CanExtract(panel, index) ==
    /\ index + 1 \in DOMAIN panel.targets
    /\ LET target == panel.targets[index + 1]
           ds == RunDatasource(panel, target)
       IN ds.uid # Empty /\ (target.query # Empty \/ ds.type = "cloudwatch")

\* A datasource whose UID begins with a reference is resolved unless the caller
\* names one; then its type is looked up.  Text after the reference or an option
\* in it would have to be part of the variable's name.
IsVariableReference(uid) == uid # Empty /\ Refers(Head(uid))
ResolveReference(ds, values) ==
    LET ref == Head(ds.uid) IN
    CASE ~IsVariableReference(ds.uid) -> ds
      [] IsVariableReference(ds.uid) /\ Len(ds.uid) = 1 /\ ref[1] # "option"
           /\ ref[2] \in DOMAIN values -> [uid |-> values[ref[2]], type |-> ""]
      [] OTHER -> Unset

\* Mutant of ResolveDatasource: the type of the reference is kept.
ResolveKeepsType(ds, call, values) ==
    CASE call.uid # Empty -> [uid |-> call.uid,
                              type |-> IF call.type # "" THEN call.type ELSE ds.type]
      [] call.uid = Empty /\ ResolveReference(ds, values) # Unset ->
           [uid |-> ResolveReference(ds, values).uid, type |-> ds.type]
      [] OTHER -> Unset

ResolveDatasource(ds, call, values) ==
    IF call.uid # Empty
    THEN [uid |-> call.uid, type |-> IF call.type # "" THEN call.type ELSE ds.type]
    ELSE ResolveReference(ds, values)

\* typeOf is what Grafana knows of its datasources.
LookUpType(ds, typeOf) ==
    CASE ds = Unset -> Unset
      [] ds # Unset /\ (ds.type # "" \/ ds.uid = Empty) -> ds
      [] OTHER -> IF ds.uid \in DOMAIN typeOf
                  THEN [uid |-> ds.uid, type |-> typeOf[ds.uid]] ELSE Unset

\* The query that is sent and where to, or Unset.
PanelQuery(board, call, id, typeOf, order) ==
    LET panel == FindPanelByID(board.panels, id)
        target == panel.targets[call.index + 1]
        values == RunVariables(board.variables, call.vars)
        ds == LookUpType(ResolveDatasource(RunDatasource(panel, target), call, values),
                         typeOf)
    IN IF /\ HasPanel(board.panels, id)
          /\ CanExtract(panel, call.index)
          /\ ds # Unset
          /\ ds.type \in Supported
       THEN [uid |-> ds.uid, type |-> ds.type,
             query |-> SubstituteTemplateVariables(target.query, values, order)]
       ELSE Unset
=============================================================================
