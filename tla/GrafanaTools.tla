---------------------------- MODULE GrafanaTools ----------------------------
(***************************************************************************)
(* One call of a dashboard tool: update_dashboard, run_panel_query or      *)
(* get_dashboard_panel_queries.  Each fetches the dashboard from Grafana,  *)
(* where other users change it meanwhile, and works on what it fetched.    *)
(***************************************************************************)
EXTENDS DashboardPatches, PanelQueries

DashboardTools == {"update_dashboard", "run_panel_query", "get_dashboard_panel_queries"}

CONSTANTS
    Calls,     \* calls with what they meet, [call, stored], by kind: a set of sets
    Others,    \* dashboards as other users save them
    TypeOf,    \* types of Grafana's datasources, by UID
    MaxOthers  \* bound: saves by other users

\* Arguments and dashboards as Go's decoders leave them: what is missing is an
\* empty text or list.  Names of variables are unique in a dashboard, and a panel
\* in a row has none inside.
Pieces == {"literal", "braces", "option", "simple", "brackets"} \X STRING
Texts == Seq(Pieces)
DatasourceRefs == [uid : Texts, type : STRING]
PanelTargets == [ds : DatasourceRefs, query : Texts]
PanelsWith(nested) ==
    [id : Int, ds : DatasourceRefs, targets : Seq(PanelTargets), nested : nested]
TemplateVariables == [name : STRING, current : Seq(Texts), text : Texts, default : Texts]

IsValues(values) == IsFiniteSet(DOMAIN values) /\ values \in [DOMAIN values -> Texts]
IsDashboard(board) ==
    /\ board.panels \in Seq(PanelsWith(Seq(PanelsWith({<<>>}))))
    /\ board.variables \subseteq TemplateVariables
    /\ IsFiniteSet(board.variables)
    /\ \A v, w \in board.variables : v.name = w.name => v = w

ASSUME UnsetAssumption == Unset \notin Texts

\* The arrays of a document and of the objects in them are lists.
IsField(json) == Kind(json) = "array" => json = Arr(Of(json)) /\ IsList(Of(json))
HasLists(obj) == \A key \in DOMAIN Of(obj) : IsField(Of(obj)[key])
IsDocument(doc) ==
    /\ doc # Error
    /\ HasLists(doc)
    /\ \A key \in DOMAIN Of(doc) : Kind(Of(doc)[key]) = "array" =>
         \A json \in Range(Of(Of(doc)[key])) : Kind(json) = "object" => HasLists(json)
\* Keys are strings: the second set adds none, it names three that proofs cite.
Keys == STRING \cup {"panels", "tags", "targets"}
Segments == [key : Keys, index : Nat \cup {NoIndex}, append : BOOLEAN]

ASSUME OthersAssumption == \A new \in Others : IsDocument(new.doc)

ASSUME CallsAssumption ==
    \A kind \in Calls : \A start \in kind :
        /\ start.call.tool = "update_dashboard" =>
             /\ IsList(start.call.ops)
             /\ \A op \in Range(start.call.ops) : op.path \in Seq(Segments)
             /\ IsDocument(start.stored.doc)
        /\ start.call.tool = "run_panel_query" =>
             /\ start.call.ids \in Seq(Int)
             /\ start.call.index \in Int
        /\ start.call.tool \in {"run_panel_query", "get_dashboard_panel_queries"} =>
             /\ IsValues(start.call.vars)
             /\ IsDashboard(start.stored)

VARIABLES
    call,      \* the arguments
    stored,    \* what Grafana stores: the dashboard, or what else the call is about
    fetched,   \* the dashboard as the call has fetched it, or Unset
    pc,
    todo,      \* panels that run_panel_query has yet to run
    results,   \* what a query of each panel returned: where it was sent
    errors,    \* panels whose query failed
    others     \* saves by other users

vars == <<call, stored, fetched, pc, todo, results, errors, others>>

NoFolder == ""

Init ==
    /\ \E kind \in Calls : \E start \in kind :
         call = start.call /\ stored = start.stored
    /\ fetched = Unset
    /\ pc = "called"
    /\ todo = <<>>
    /\ results = <<>>
    /\ errors = {}
    /\ others = 0

\* Another user saves the dashboard or moves it.
OtherSaves(new) ==
    /\ call.tool = "update_dashboard"
    /\ pc \in {"called", "fetched"}
    /\ others < MaxOthers
    /\ others' = others + 1
    /\ stored' = new
    /\ UNCHANGED <<call, fetched, pc, todo, results, errors>>

\* Arguments that no dashboard can satisfy, or Grafana does not answer.  Calls of
\* other tools fail so before their first request.
Fail ==
    /\ pc \in {"called", "fetched"}
    /\ pc' = "failed"
    /\ UNCHANGED <<call, stored, fetched, todo, results, errors, others>>

Fetch ==
    /\ pc = "called"
    /\ call.tool \in DashboardTools
    /\ call.tool = "run_panel_query" => call.ids # <<>>
    /\ call.tool = "update_dashboard" => call.ops # <<>> /\ ~DuplicateRemove(call.ops)
    /\ fetched' = stored
    /\ pc' = "fetched"
    /\ todo' = IF call.tool = "run_panel_query" THEN call.ids ELSE <<>>
    /\ UNCHANGED <<call, stored, results, errors, others>>

\* The patched dashboard overwrites whatever Grafana has by now.  It stays in
\* its folder unless the caller gives one.  The answer may be lost.
Save ==
    LET doc == Patched(fetched.doc, call.ops) IN
    /\ pc = "fetched"
    /\ call.tool = "update_dashboard"
    /\ doc # Error
    /\ stored' = [doc |-> doc,
                 folder |-> IF call.folder = NoFolder THEN fetched.folder ELSE call.folder]
    /\ pc' \in {"done", "failed"}
    /\ UNCHANGED <<call, fetched, todo, results, errors, others>>

\* The next panel; its query may also fail where it is sent.
RunPanel ==
    LET id == Head(todo)
        values == RunVariables(fetched.variables, call.vars)
    IN
    /\ pc = "fetched"
    /\ todo # <<>>
    /\ todo' = Tail(todo)
    /\ \/ \E order \in Orders(values) :
            LET query == PanelQuery(fetched, call, id, TypeOf, order) IN
            /\ query # Unset
            /\ results' = Over(Only(id, query), results)
            /\ UNCHANGED errors
       \/ errors' = errors \cup {id} /\ UNCHANGED results
    /\ UNCHANGED <<call, stored, fetched, pc, others>>

RunPanels ==
    /\ pc = "fetched"
    /\ call.tool = "run_panel_query"
    /\ todo = <<>>
    /\ pc' = "done"
    /\ UNCHANGED <<call, stored, fetched, todo, results, errors, others>>

\* The queries of one panel, with the values of the variables put in.
Preview ==
    LET values == PreviewVariables(fetched.variables, call.vars) IN
    /\ pc = "fetched"
    /\ call.tool = "get_dashboard_panel_queries"
    /\ HasPanel(fetched.panels, call.id)
    /\ \E order \in Orders(values) :
         results' = Only(call.id, ExtractPanelQueries(FindPanelByID(fetched.panels, call.id),
                                                      values, order))
    /\ pc' = "done"
    /\ UNCHANGED <<call, stored, fetched, todo, errors, others>>

Next ==
    \/ Fetch \/ Fail \/ Save \/ RunPanel \/ RunPanels \/ Preview
    \/ \E new \in Others : OtherSaves(new)

Spec == Init /\ [][Next]_vars
=============================================================================
