--------------------------- MODULE MCGrafanaTools ---------------------------
(* Two dashboards to patch; one with a row and three variables to query. *)
EXTENDS GrafanaToolsProps

-----------------------------------------------------------------------------
(* update_dashboard *)
Panel(title, queries) ==
    Obj([title |-> Val(title), targets |-> Arr([i \in DOMAIN queries |-> Val(queries[i])])])
Doc == Obj([title |-> Val("t"), tags |-> Arr(<<Val("x"), Val("y")>>),
            grid |-> Arr(<<Arr(<<Val("p")>>)>>),
            panels |-> Arr(<<Panel("a", <<"q1", "q2">>), Panel("b", <<"q3", "q4">>),
                             Panel("c", <<>>)>>)])
Op(op, path) == [op |-> op, path |-> path, value |-> Val("new")]
Ops == {Op("remove", <<Elem("panels", 0)>>), Op("remove", <<Elem("panels", 2)>>),
        Op("remove", <<Elem("panels", 0), Elem("targets", 0)>>),
        Op("remove", <<Elem("panels", 0), Elem("targets", 1)>>),
        Op("remove", <<Elem("panels", 1), Elem("targets", 0)>>),
        Op("remove", <<Field("panels")>>), Op("remove", <<End("panels")>>),
        Op("add", <<End("panels")>>), Op("add", <<Elem("panels", 0), End("targets")>>),
        Op("add", <<Seg("grid", 0, TRUE)>>),
        Op("replace", <<Elem("panels", 1), Field("title")>>),
        Op("replace", <<Elem("tags", 1)>>), Op("move", <<Field("title")>>)}
Updates == {[call |-> [tool |-> "update_dashboard", ops |-> ops, folder |-> folder],
             stored |-> [doc |-> Doc, folder |-> "f1"]] :
                ops \in BoundedSeq(Ops, 3), folder \in {NoFolder, "f2"}}
MCOthers == {[doc |-> Obj([title |-> Val("u")]), folder |-> "f1"],
             [doc |-> Doc, folder |-> "f3"]}

-----------------------------------------------------------------------------
(* run_panel_query and get_dashboard_panel_queries *)
Prom1 == <<Lit("prom1")>>
Loki1 == <<Lit("loki1")>>
MCTypeOf == Prom1 :> "prometheus" @@ Loki1 :> "loki" @@ <<Lit("other1")>> :> "other"
Ds(uid, type) == [uid |-> uid, type |-> type]
NoDs == Ds(Empty, "")
Target(ds, query) == [ds |-> ds, query |-> query]
Query1 == << <<"braces", "a">>, Lit("+"), <<"simple", "b">>, <<"brackets", "a">> >>
Query2 == << <<"simple", "a">>, <<"option", "b">>, <<"simple", "ds">> >>
Single(id, ds, targets) ==
    [id |-> id, ds |-> ds, targets |-> targets, nested |-> <<>>]
Panels(ds) ==
    << Single(1, Ds(Prom1, "prometheus"), <<Target(NoDs, Query1), Target(NoDs, Empty)>>),
       [Single(2, NoDs, <<>>) EXCEPT !.nested =
          <<Single(3, ds, <<Target(NoDs, Query1), Target(Ds(Loki1, ""), Query2)>>)>>] >>
Variable(name, current, text, default) ==
    [name |-> name, current |-> current, text |-> text, default |-> default]
Boards == {[panels |-> Panels(ds),
            variables |-> {Variable("a", a, <<Lit("t")>>, <<Lit("d")>>),
                           Variable("b", b, Empty, <<Lit("d")>>),
                           Variable("ds", <<uid>>, Empty, Empty)}] :
             ds \in {NoDs, Ds(<< <<"simple", "ds">> >>, "prometheus"), Ds(Loki1, "loki"),
                     Ds(<< <<"braces", "none">> >>, ""),
                     Ds(<< <<"braces", "ds">>, Lit("x") >>, "loki")},
             a \in {<<>>, << <<Lit("x")>> >>, << AllValues >>},
             b \in {<<>>, << <<Lit("y")>> >>, << <<Lit("y")>>, <<Lit("z")>> >>,
                    << << <<"simple", "a">> >> >>},
             uid \in {Prom1, Loki1, <<Lit("other1")>>, <<Lit("gone")>>}}
Overrides == {<<>>, "a" :> <<Lit("o")>>, "c" :> <<Lit("o")>>}
Runs == {[call |-> [tool |-> "run_panel_query", ids |-> ids, index |-> index,
                    vars |-> over, uid |-> ds.uid, type |-> ds.type],
          stored |-> b0] :
            ids \in {<<>>, <<1, 3>>, <<3, 3>>, <<2, 1, 9>>}, index \in 0..1, over \in Overrides,
            ds \in {NoDs, Ds(Loki1, ""), Ds(Loki1, "loki")}, b0 \in Boards}
Previews == {[call |-> [tool |-> "get_dashboard_panel_queries", id |-> id, vars |-> over],
              stored |-> b0] : id \in {1, 3, 9}, over \in Overrides, b0 \in Boards}

MCCalls == {Updates, Runs, Previews}
=============================================================================
