------------------------------ MODULE ScanSync ------------------------------
(***************************************************************************)
(* Scans of the chunk-and-graph workflow (chunk&graph/workflow_api.py,     *)
(* run_full_workflow.py, push_to_qdrant.py, push_graph_to_neo4j.py).       *)
(*                                                                         *)
(* A scan turns the analysis of one project into documents for a Qdrant    *)
(* collection and into nodes and relationships for Neo4j, and then deletes *)
(* what earlier scans of the project left behind: what carries another     *)
(* scan id.  Neither store is written in one transaction, the endpoint     *)
(* runs scans of any projects at the same time and every call may fail.  A *)
(* scan id is the one the analysis carries, or else the second in which    *)
(* the scan began, so that two scans may well share one.                   *)
(*                                                                         *)
(* An item is a component of the analysed source that has a document and a *)
(* node.  A stored document, node or relationship is represented by the    *)
(* scan that wrote it, which gives its scan id and its content.  One call  *)
(* of a store is one action, and a batch is one item: larger batches only  *)
(* have fewer interleavings.                                               *)
(***************************************************************************)
EXTENDS Integers, FiniteSets

CONSTANTS
    Scans,      \* calls of the workflow endpoint
    Projects,   \* analysed projects
    Items,      \* components a project may have, numbered in list order
    Edges,      \* relationships an analysis may report: pairs of items
    ScanIds,    \* scan ids
    None        \* nothing stored, no project, no scan id

ASSUME ScanSyncAssumption ==
    /\ Items \subseteq Nat
    /\ IsFiniteSet(Items)
    /\ Edges \subseteq Items \X Items
    /\ None \notin Scans \cup Projects \cup ScanIds

VARIABLES
    qdrant, neo4j,  \* settings: what a push does with what its store holds
    collection,   \* does the Qdrant collection exist
    points,       \* project -> item -> scan that wrote the document, or None
    nodes,        \* project -> item -> scan that wrote the node, or None
    rels,         \* project -> edge -> scan that wrote it, or None
    pc,           \* what each scan does next
    proj, stamp,  \* project_id and scan_id of each scan
    items, edges, \* the analysis it stores
    todo,         \* items (or stale points) its current loop has yet to handle
    links,        \* edges it has yet to push
    undisturbed   \* history: no scan that shares its data ran since it began

settings == <<qdrant, neo4j>>
stores == <<collection, points, nodes, rels>>
identity == <<proj, stamp, items, edges>>
vars == <<settings, stores, pc, identity, todo, links, undisturbed>>

Running == {"exists", "drop", "create", "upsert", "push", "scroll", "delete",
            "clear", "nodes", "edges", "staleRels", "staleNodes"}

\* *_RECREATE empties the store first, *_DELETE_MISSING deletes what is stale
\* last unless the store was emptied; with neither the push only adds.
Modes == {"recreate", "deleteMissing", "add"}

\* The end points of a relationship.
Ends(e) == {e[1], e[2]}

\* list order
First(S) == CHOOSE i \in S : \A j \in S : i <= j

\* Documents and nodes are filed under the project id, so two scans share
\* data when they are of one project, or when a store is recreated.
Shared(s, p) == "recreate" \in {qdrant, neo4j} \/ proj[s] = p

\* What the stale filters select: another scan id.
Stale(s, w) == w # None /\ stamp[w] # stamp[s]

Nothing == [p \in Projects |-> [i \in Items |-> None]]
NoRels == [p \in Projects |-> [e \in Edges |-> None]]

Init ==
    /\ qdrant \in Modes
    /\ neo4j \in Modes
    /\ collection = FALSE
    /\ points = Nothing
    /\ nodes = Nothing
    /\ rels = NoRels
    /\ pc = [s \in Scans |-> "idle"]
    /\ proj = [s \in Scans |-> None]
    /\ stamp = [s \in Scans |-> None]
    /\ items = [s \in Scans |-> {}]
    /\ edges = [s \in Scans |-> {}]
    /\ todo = [s \in Scans |-> {}]
    /\ links = [s \in Scans |-> {}]
    /\ undisturbed = [s \in Scans |-> FALSE]

Goto(s, l) == pc' = [pc EXCEPT ![s] = l]

-----------------------------------------------------------------------------
\* The identity of the scan, then its artifacts, summaries and embeddings,
\* which touch no store.  An edge may name an item the analysis does not have.
Begin(s, p, id, is, es) ==
    LET rivals == {u \in Scans \ {s} : pc[u] # "idle" /\ Shared(u, p)} IN
    /\ pc[s] = "idle"
    /\ \A e \in es : Ends(e) \cap is # {}
    /\ Goto(s, "exists")
    /\ proj' = [proj EXCEPT ![s] = p]
    /\ stamp' = [stamp EXCEPT ![s] = id]
    /\ items' = [items EXCEPT ![s] = is]
    /\ edges' = [edges EXCEPT ![s] = es]
    /\ undisturbed' = [u \in Scans |->
           IF u = s THEN \A r \in rivals : pc[r] \notin Running
           ELSE undisturbed[u] /\ u \notin rivals]
    /\ UNCHANGED <<settings, stores, todo, links>>

\* Any call of a store, a summariser or an embedder may fail, before or after
\* it took effect; so does the missing Neo4j password.
Fail(s) ==
    /\ pc[s] \in Running
    /\ Goto(s, "failed")
    /\ UNCHANGED <<settings, stores, identity, todo, links, undisturbed>>

-----------------------------------------------------------------------------
(* push_embedded_payload_to_qdrant *)

\* After the vectors the graph is pushed.
ToGraph(s) ==
    /\ Goto(s, IF neo4j = "recreate" THEN "clear" ELSE "nodes")
    /\ todo' = [todo EXCEPT ![s] = items[s]]

\* The first call once it is known whether the collection exists.
Prepare(s, exists) ==
    IF items[s] # {} THEN /\ Goto(s, IF exists THEN "upsert" ELSE "create")
                          /\ todo' = [todo EXCEPT ![s] = items[s]]
    ELSE IF exists /\ qdrant = "deleteMissing" THEN Goto(s, "scroll") /\ UNCHANGED todo
    ELSE ToGraph(s)

CollectionExists(s) ==
    /\ pc[s] = "exists"
    /\ IF collection /\ qdrant = "recreate" THEN Goto(s, "drop") /\ UNCHANGED todo
                                 ELSE Prepare(s, collection)
    /\ UNCHANGED <<settings, stores, identity, links, undisturbed>>

DeleteCollection(s) ==
    /\ pc[s] = "drop"
    /\ collection' = FALSE
    /\ points' = Nothing
    /\ Prepare(s, FALSE)
    /\ UNCHANGED <<settings, nodes, rels, identity, links, undisturbed>>

\* Qdrant refuses to create a collection that exists.
CreateCollection(s) ==
    /\ pc[s] = "create"
    /\ ~collection
    /\ collection' = TRUE
    /\ Goto(s, "push")
    /\ UNCHANGED <<settings, points, nodes, rels, identity, todo, links,
                   undisturbed>>

\* Mutant of Write: a stored document keeps the scan id of its first scan.
WriteOnce(f, p, i, s) == IF f[p][i] = None THEN [f EXCEPT ![p][i] = s] ELSE f

\* An upsert, and MERGE followed by SET, overwrite what is there.
Write(f, p, i, s) == [f EXCEPT ![p][i] = s]

\* Mutant of Upserted: the graph is pushed when the first batch is stored.
UpsertedEarly(s) ==
    /\ pc[s] \in {"upsert", "push"}
    /\ todo[s] # items[s]
    /\ IF pc[s] = "upsert" /\ qdrant = "deleteMissing"
       THEN Goto(s, "scroll") /\ UNCHANGED todo
       ELSE ToGraph(s)
    /\ UNCHANGED <<settings, stores, identity, links, undisturbed>>

\* upsert_points, for a collection found ("upsert") or created ("push"): only
\* a collection that was found can hold stale points.
Upsert(s) ==
    LET i == First(todo[s]) IN
    /\ pc[s] \in {"upsert", "push"}
    /\ todo[s] # {}
    /\ collection
    /\ points' = Write(points, proj[s], i, s)
    /\ todo' = [todo EXCEPT ![s] = @ \ {i}]
    /\ UNCHANGED <<settings, collection, nodes, rels, pc, identity, links,
                   undisturbed>>

Upserted(s) ==
    /\ pc[s] \in {"upsert", "push"}
    /\ todo[s] = {}
    /\ IF pc[s] = "upsert" /\ qdrant = "deleteMissing"
       THEN Goto(s, "scroll") /\ UNCHANGED todo
       ELSE ToGraph(s)
    /\ UNCHANGED <<settings, stores, identity, links, undisturbed>>

\* collect_stale_point_ids: the ids are collected first and deleted later.
Scroll(s) ==
    /\ pc[s] = "scroll"
    /\ todo' = [todo EXCEPT ![s] = {i \in Items : Stale(s, points[proj[s]][i])}]
    /\ Goto(s, "delete")
    /\ UNCHANGED <<settings, stores, identity, links, undisturbed>>

DeletePoint(s) ==
    LET i == First(todo[s]) IN
    /\ pc[s] = "delete"
    /\ todo[s] # {}
    /\ points' = [points EXCEPT ![proj[s]][i] = None]
    /\ todo' = [todo EXCEPT ![s] = @ \ {i}]
    /\ UNCHANGED <<settings, collection, nodes, rels, pc, identity, links,
                   undisturbed>>

Deleted(s) ==
    /\ pc[s] = "delete"
    /\ todo[s] = {}
    /\ ToGraph(s)
    /\ UNCHANGED <<settings, stores, identity, links, undisturbed>>

-----------------------------------------------------------------------------
(* push_graph_payload_to_neo4j *)

\* clear_graph: every node and relationship, of whatever project.
ClearGraph(s) ==
    /\ pc[s] = "clear"
    /\ nodes' = Nothing
    /\ rels' = NoRels
    /\ Goto(s, "nodes")
    /\ UNCHANGED <<settings, collection, points, identity, todo, links,
                   undisturbed>>

PushNode(s) ==
    LET i == First(todo[s]) IN
    /\ pc[s] = "nodes"
    /\ todo[s] # {}
    /\ nodes' = Write(nodes, proj[s], i, s)
    /\ todo' = [todo EXCEPT ![s] = @ \ {i}]
    /\ UNCHANGED <<settings, collection, points, rels, pc, identity, links,
                   undisturbed>>

NodesPushed(s) ==
    /\ pc[s] = "nodes"
    /\ todo[s] = {}
    /\ Goto(s, "edges")
    /\ links' = [links EXCEPT ![s] = edges[s]]
    /\ UNCHANGED <<settings, stores, identity, todo, undisturbed>>

\* An edge whose end points are not both in the graph matches nothing.
PushEdge(s) == \E e \in links[s] :
    /\ pc[s] = "edges"
    /\ links' = [links EXCEPT ![s] = @ \ {e}]
    /\ rels' = IF \A i \in Ends(e) : nodes[proj[s]][i] # None
               THEN Write(rels, proj[s], e, s) ELSE rels
    /\ UNCHANGED <<settings, collection, points, nodes, pc, identity, todo,
                   undisturbed>>

EdgesPushed(s) ==
    /\ pc[s] = "edges"
    /\ links[s] = {}
    /\ Goto(s, IF neo4j = "deleteMissing" THEN "staleRels" ELSE "done")
    /\ UNCHANGED <<settings, stores, identity, todo, links, undisturbed>>

DeleteStaleRels(s) ==
    /\ pc[s] = "staleRels"
    /\ rels' = [rels EXCEPT ![proj[s]] =
           [e \in Edges |-> IF Stale(s, @[e]) THEN None ELSE @[e]]]
    /\ Goto(s, "staleNodes")
    /\ UNCHANGED <<settings, collection, points, nodes, identity, todo, links,
                   undisturbed>>

\* Mutant of DeleteStaleNodes: it does not ask for the project.
DeleteStaleNodesAnywhere(s) ==
    LET stale == {x \in Projects \X Items : Stale(s, nodes[x[1]][x[2]])} IN
    /\ pc[s] = "staleNodes"
    /\ nodes' = [p \in Projects |-> [i \in Items |->
           IF <<p, i>> \in stale THEN None ELSE nodes[p][i]]]
    /\ rels' = [p \in Projects |-> [e \in Edges |->
           IF \E i \in Ends(e) : <<p, i>> \in stale THEN None ELSE rels[p][e]]]
    /\ Goto(s, "done")
    /\ UNCHANGED <<settings, collection, points, identity, todo, links,
                   undisturbed>>

\* DETACH DELETE: a node goes with its relationships, whoever wrote those.
DeleteStaleNodes(s) ==
    LET stale == {i \in Items : Stale(s, nodes[proj[s]][i])} IN
    /\ pc[s] = "staleNodes"
    /\ nodes' = [nodes EXCEPT ![proj[s]] =
           [i \in Items |-> IF i \in stale THEN None ELSE @[i]]]
    /\ rels' = [rels EXCEPT ![proj[s]] =
           [e \in Edges |-> IF Ends(e) \cap stale # {} THEN None ELSE @[e]]]
    /\ Goto(s, "done")
    /\ UNCHANGED <<settings, collection, points, identity, todo, links,
                   undisturbed>>

Step(s) ==
    \/ CollectionExists(s)
    \/ DeleteCollection(s)
    \/ CreateCollection(s)
    \/ Upsert(s)
    \/ Upserted(s)
    \/ Scroll(s)
    \/ DeletePoint(s)
    \/ Deleted(s)
    \/ ClearGraph(s)
    \/ PushNode(s)
    \/ NodesPushed(s)
    \/ PushEdge(s)
    \/ EdgesPushed(s)
    \/ DeleteStaleRels(s)
    \/ DeleteStaleNodes(s)
    \/ Fail(s)

Next ==
    \E s \in Scans :
        \/ Step(s)
        \/ \E p \in Projects, id \in ScanIds, is \in SUBSET Items,
              es \in SUBSET Edges : Begin(s, p, id, is, es)

Spec == Init /\ [][Next]_vars
=============================================================================
