--------------------------- MODULE ScanSyncProofs ---------------------------
(***************************************************************************)
(* Proofs about ScanSync for any number of scans, projects, items, edges   *)
(* and scan ids: what a scan without rivals leaves in the stores, in which *)
(* order, and that it never leaves a gap.                                  *)
(***************************************************************************)
EXTENDS ScanSyncProps, WellFoundedInduction, TLAPS

Vectors == {"exists", "drop", "create", "upsert", "push", "scroll", "delete"}
Graphs == {"clear", "nodes", "edges", "staleRels", "staleNodes"}
Locations == Vectors \cup Graphs \cup {"idle", "failed", "done"}

Ranges ==
    /\ qdrant \in Modes
    /\ neo4j \in Modes
    /\ collection \in BOOLEAN
    /\ points \in [Projects -> [Items -> Scans \cup {None}]]
    /\ nodes \in [Projects -> [Items -> Scans \cup {None}]]
    /\ rels \in [Projects -> [Edges -> Scans \cup {None}]]
    /\ pc \in [Scans -> Locations]
    /\ proj \in [Scans -> Projects \cup {None}]
    /\ stamp \in [Scans -> ScanIds \cup {None}]
    /\ items \in [Scans -> SUBSET Items]
    /\ edges \in [Scans -> SUBSET Edges]
    /\ todo \in [Scans -> SUBSET Items]
    /\ links \in [Scans -> SUBSET Edges]
    /\ undisturbed \in [Scans -> BOOLEAN]

\* Where a scan can be under the settings, and what it may still have to do there.
Sound ==
    \A s \in Scans :
        /\ pc[s] = "idle" \/ proj[s] \in Projects
        /\ pc[s] = "drop" => qdrant = "recreate"
        /\ pc[s] = "upsert" => qdrant # "recreate"
        /\ pc[s] \in {"scroll", "delete"} => qdrant = "deleteMissing"
        /\ pc[s] = "clear" => neo4j = "recreate"
        /\ pc[s] \in {"staleRels", "staleNodes"} => neo4j = "deleteMissing"
        /\ pc[s] \in {"create", "upsert", "push", "clear", "nodes"} => todo[s] \subseteq items[s]
        /\ pc[s] \in {"create", "clear"} => todo[s] = items[s]
        /\ pc[s] = "edges" => links[s] \subseteq edges[s]

\* What is stored was written by a scan of its project whose analysis has it, and a
\* relationship hangs on two nodes.
Written ==
    /\ \A p \in Projects, i \in Items : points[p][i] # None =>
         LET w == points[p][i] IN pc[w] # "idle" /\ proj[w] = p /\ i \in items[w]
    /\ \A p \in Projects, i \in Items : nodes[p][i] # None =>
         LET w == nodes[p][i] IN pc[w] # "idle" /\ proj[w] = p /\ i \in items[w]
    /\ \A p \in Projects, e \in Edges : rels[p][e] # None =>
         LET w == rels[p][e] IN pc[w] # "idle" /\ proj[w] = p /\ e \in edges[w]
    /\ \A p \in Projects, e \in Edges : rels[p][e] # None =>
         \A i \in Ends(e) : nodes[p][i] # None
    /\ ~collection => \A p \in Projects, i \in Items : points[p][i] = None

\* No scan runs that shares data with one that is undisturbed.
NoRivals ==
    \A s, u \in Scans :
        s # u /\ pc[s] # "idle" /\ undisturbed[s] /\ pc[u] \in Running => ~Shared(u, proj[s])

\* How far a scan has come with the documents of its project ...
VectorsSoFar(s) ==
    LET f == points[proj[s]] IN
    /\ pc[s] \in Vectors => \A i \in Items : nodes[proj[s]][i] # s
    /\ pc[s] = "create" => \A i \in Items : f[i] = None
    /\ pc[s] = "push" => \A i \in Items : f[i] = IF i \in items[s] \ todo[s] THEN s ELSE None
    /\ pc[s] = "upsert" => \A i \in items[s] \ todo[s] : f[i] = s
    /\ pc[s] \in {"scroll", "delete"} => \A i \in items[s] : f[i] = s
    /\ pc[s] = "delete" => todo[s] \cap items[s] = {}
    /\ pc[s] = "delete" /\ ~Twin(s) => \A i \in Items : f[i] \in {None, s} \/ i \in todo[s]

\* ... what they are once its graph is pushed, or has been in part ...
VectorsStay(s) ==
    LET f == points[proj[s]] IN
    /\ \/ pc[s] \in Graphs \cup {"done"}
       \/ \E i \in Items : nodes[proj[s]][i] = s
       => \A i \in items[s] : f[i] = s
    /\ /\ pc[s] \in Graphs \cup {"done"}
       /\ qdrant = "recreate" \/ (qdrant = "deleteMissing" /\ ~Twin(s))
       => \A i \in Items : f[i] = IF i \in items[s] THEN s ELSE None

\* ... and how far it has come with the graph.
GraphSoFar(s) ==
    LET n == nodes[proj[s]]  r == rels[proj[s]] IN
    /\ pc[s] = "nodes" => \A i \in items[s] \ todo[s] : n[i] = s
    /\ pc[s] = "nodes" /\ neo4j = "recreate" =>
         /\ \A i \in Items : n[i] = IF i \in items[s] \ todo[s] THEN s ELSE None
         /\ \A e \in Edges : r[e] = None
    /\ pc[s] \in {"edges", "staleRels", "staleNodes", "done"} => \A i \in items[s] : n[i] = s
    /\ pc[s] \in {"edges", "done"} /\ neo4j = "recreate" =>
         \A i \in Items : n[i] = IF i \in items[s] THEN s ELSE None
    /\ pc[s] = "edges" => \A e \in Linked(s) \ links[s] : r[e] = s
    /\ pc[s] = "edges" /\ neo4j = "recreate" =>
         \A e \in Edges : r[e] = IF e \in Linked(s) \ links[s] THEN s ELSE None
    /\ pc[s] \in {"staleRels", "staleNodes"} => \A e \in Linked(s) : r[e] = s
    /\ pc[s] = "staleNodes" /\ ~Twin(s) => \A e \in Edges : r[e] \in {None, s}
    /\ /\ pc[s] = "done"
       /\ neo4j = "recreate" \/ (neo4j = "deleteMissing" /\ ~Twin(s))
       => /\ \A i \in Items : n[i] = IF i \in items[s] THEN s ELSE None
          /\ \A e \in Edges : r[e] = IF e \in Linked(s) THEN s ELSE None

Progress(s) == VectorsSoFar(s) /\ VectorsStay(s) /\ GraphSoFar(s)

\* The inductive invariant.
IInv ==
    /\ Ranges
    /\ Sound
    /\ Written
    /\ NoRivals
    /\ \A s \in Scans : pc[s] # "idle" /\ undisturbed[s] => Progress(s)

-----------------------------------------------------------------------------
\* Loops over items take one of them.
LEMMA FirstIsMember ==
    ASSUME NEW S \in SUBSET Items, S # {}
    PROVE  First(S) \in S
<1>1. S \subseteq Nat
  BY ScanSyncAssumption
<1>2. PICK m \in S : \A k \in S : <<k, m>> \notin OpToRel(<, Nat)
  BY <1>1, WFMin, NatLessThanWellFounded, Zenon
<1>3. \A k \in S : ~ (k < m)
  BY <1>1, <1>2, Zenon DEF OpToRel
<1>4. \A k \in S : m <= k
  BY <1>1, <1>3
<1> QED BY <1>4 DEF First

LEMMA InitIInv == Init => IInv
<1> SUFFICES ASSUME Init PROVE IInv
  OBVIOUS
<1>1. Ranges
  BY DEF Init, Ranges, Nothing, NoRels, Locations
<1>2. Sound /\ Written /\ NoRivals
  BY DEF Init, Sound, Written, NoRivals, Nothing, NoRels
<1>3. \A s \in Scans : pc[s] = "idle"
  BY DEF Init
<1> QED BY <1>1, <1>2, <1>3 DEF IInv

\* A step is the business of one scan, which runs, or begins.
LEMMA StepRuns == ASSUME IInv, NEW s \in Scans, Step(s) PROVE pc[s] \in Running
BY DEF Step, CollectionExists, DeleteCollection, CreateCollection, Upsert, Upserted, Scroll,
       DeletePoint, Deleted, ClearGraph, PushNode, NodesPushed, PushEdge, EdgesPushed,
       DeleteStaleRels, DeleteStaleNodes, Fail, Running

\* Only the scan itself moves, and no scan changes what it stores.
LEMMA StepIsOwn ==
    ASSUME IInv, NEW s \in Scans, Step(s)
    PROVE  /\ UNCHANGED <<settings, identity, undisturbed>>
           /\ pc'[s] # "idle"
           /\ \A u \in Scans : u # s => pc'[u] = pc[u] /\ todo'[u] = todo[u] /\ links'[u] = links[u]
<1> USE DEF IInv, Ranges, Goto
<1>1. CASE CollectionExists(s) \/ DeleteCollection(s)
  BY <1>1 DEF CollectionExists, DeleteCollection, Prepare, ToGraph
<1>2. CASE CreateCollection(s) \/ Upsert(s) \/ Upserted(s)
  BY <1>2 DEF CreateCollection, Upsert, Upserted, ToGraph
<1>3. CASE Scroll(s) \/ DeletePoint(s) \/ Deleted(s)
  BY <1>3 DEF Scroll, DeletePoint, Deleted, ToGraph
<1>4. CASE ClearGraph(s) \/ PushNode(s) \/ NodesPushed(s) \/ PushEdge(s) \/ EdgesPushed(s)
  BY <1>4 DEF ClearGraph, PushNode, NodesPushed, PushEdge, EdgesPushed
<1>5. CASE DeleteStaleRels(s) \/ DeleteStaleNodes(s) \/ Fail(s)
  BY <1>5 DEF DeleteStaleRels, DeleteStaleNodes, Fail
<1> QED BY <1>1, <1>2, <1>3, <1>4, <1>5 DEF Step

\* Unless a store is emptied, a scan changes what is stored for its own project only.
LEMMA StepInProject ==
    ASSUME IInv, NEW s \in Scans, Step(s), qdrant # "recreate", neo4j # "recreate",
           NEW p \in Projects, p # proj[s]
    PROVE  points'[p] = points[p] /\ nodes'[p] = nodes[p] /\ rels'[p] = rels[p]
<1> USE DEF IInv, Ranges, Sound
<1>1. CASE CollectionExists(s) \/ DeleteCollection(s) \/ CreateCollection(s)
  BY <1>1 DEF CollectionExists, DeleteCollection, CreateCollection, stores
<1>2. CASE Upsert(s) \/ Upserted(s) \/ Scroll(s) \/ DeletePoint(s) \/ Deleted(s)
  BY <1>2 DEF Upsert, Upserted, Scroll, DeletePoint, Deleted, Write, stores
<1>3. CASE ClearGraph(s) \/ PushNode(s) \/ NodesPushed(s) \/ PushEdge(s) \/ EdgesPushed(s)
  BY <1>3 DEF ClearGraph, PushNode, NodesPushed, PushEdge, EdgesPushed, Write, stores
<1>4. CASE DeleteStaleRels(s) \/ DeleteStaleNodes(s) \/ Fail(s)
  BY <1>4 DEF DeleteStaleRels, DeleteStaleNodes, Fail, stores
<1> QED BY <1>1, <1>2, <1>3, <1>4 DEF Step

\* The progress of a scan depends on what is stored for its project, and on itself.
LEMMA ProgressStays ==
    ASSUME NEW s \in Scans, Progress(s),
           points'[proj[s]] = points[proj[s]], nodes'[proj[s]] = nodes[proj[s]],
           rels'[proj[s]] = rels[proj[s]],
           pc'[s] = pc[s], todo'[s] = todo[s], links'[s] = links[s],
           proj'[s] = proj[s], items'[s] = items[s], edges'[s] = edges[s],
           Twin(s)' <=> Twin(s), UNCHANGED settings
    PROVE  Progress(s)'
<1>1. Linked(s)' = Linked(s)
  BY DEF Linked
<1>2. VectorsSoFar(s)'
  BY DEF Progress, VectorsSoFar
<1>3. VectorsStay(s)'
  BY DEF Progress, VectorsStay, settings
<1>4. GraphSoFar(s)'
  BY <1>1 DEF Progress, GraphSoFar, settings
<1> QED BY <1>2, <1>3, <1>4 DEF Progress

\* A step does not make twins.
LEMMA StepTwins ==
    ASSUME IInv, NEW u \in Scans, Step(u), NEW s \in Scans
    PROVE  Twin(s)' <=> Twin(s)
<1>1. pc[u] # "idle" /\ pc'[u] # "idle"
  BY StepRuns, StepIsOwn DEF Running
<1>2. \A v \in Scans : pc'[v] # "idle" <=> pc[v] # "idle"
  BY <1>1, StepIsOwn
<1> QED BY <1>2, StepIsOwn DEF Twin, identity

\* A step of another scan does not disturb one that is undisturbed.
LEMMA OthersAside ==
    ASSUME IInv, NEW u \in Scans, Step(u), NEW s \in Scans, s # u,
           pc[s] # "idle", undisturbed[s]
    PROVE  Progress(s)'
<1>1. ~Shared(u, proj[s])
  BY StepRuns DEF IInv, NoRivals
<1>2. qdrant # "recreate" /\ neo4j # "recreate" /\ proj[u] # proj[s]
  BY <1>1 DEF Shared
<1>3. proj[s] \in Projects
  BY DEF IInv, Sound
<1>4. /\ points'[proj[s]] = points[proj[s]] /\ nodes'[proj[s]] = nodes[proj[s]]
      /\ rels'[proj[s]] = rels[proj[s]]
  BY <1>2, <1>3, StepInProject
<1>5. Progress(s)
  BY DEF IInv
<1> QED BY <1>4, <1>5, StepIsOwn, StepTwins, ProgressStays DEF identity

\* While a scan takes steps nobody becomes its rival.
LEMMA StepNoRivals ==
    ASSUME IInv, NEW u \in Scans, Step(u)
    PROVE  NoRivals'
<1>1. pc[u] \in Running
  BY StepRuns
<1>2. \A v \in Scans : /\ pc'[v] \in Running => pc[v] \in Running
                       /\ pc'[v] # "idle" => pc[v] # "idle"
  BY <1>1, StepIsOwn DEF Running
<1>3. UNCHANGED <<settings, identity, undisturbed>>
  BY StepIsOwn
<1> QED BY <1>2, <1>3 DEF IInv, NoRivals, Shared, settings, identity

-----------------------------------------------------------------------------
\* The beginning of a scan.
LEMMA BeginKeeps ==
    ASSUME IInv, NEW u \in Scans, NEW p \in Projects, NEW id \in ScanIds,
           NEW is \in SUBSET Items, NEW es \in SUBSET Edges, Begin(u, p, id, is, es)
    PROVE  IInv'
<1> DEFINE rivals == {v \in Scans \ {u} : pc[v] # "idle" /\ Shared(v, p)}
<1>1. /\ UNCHANGED <<settings, stores, todo, links>> /\ pc[u] = "idle"
      /\ pc' = [pc EXCEPT ![u] = "exists"]
      /\ proj' = [proj EXCEPT ![u] = p] /\ stamp' = [stamp EXCEPT ![u] = id]
      /\ items' = [items EXCEPT ![u] = is] /\ edges' = [edges EXCEPT ![u] = es]
  BY DEF Begin, Goto
<1>2. \A v \in Scans :
        /\ pc'[v] = IF v = u THEN "exists" ELSE pc[v]
        /\ proj'[v] = IF v = u THEN p ELSE proj[v]
        /\ stamp'[v] = IF v = u THEN id ELSE stamp[v]
        /\ items'[v] = IF v = u THEN is ELSE items[v]
        /\ edges'[v] = IF v = u THEN es ELSE edges[v]
  BY <1>1 DEF IInv, Ranges
<1>3. \A v \in Scans : undisturbed'[v] = IF v = u THEN \A r \in rivals : pc[r] \notin Running
                                         ELSE undisturbed[v] /\ v \notin rivals
  BY DEF Begin
<1>4. undisturbed' \in [Scans -> BOOLEAN]
  BY DEF Begin, IInv, Ranges
<1>5. Ranges'
  BY <1>1, <1>4 DEF IInv, Ranges, settings, stores, Locations, Vectors
<1>6. Sound'
  BY <1>1, <1>2 DEF IInv, Sound, settings
<1>7. Written'
  BY <1>1, <1>2 DEF IInv, Ranges, Written, stores
<1>8. NoRivals'
  <2> SUFFICES ASSUME NEW s \in Scans, NEW v \in Scans, s # v, pc'[s] # "idle",
                      undisturbed'[s], pc'[v] \in Running
               PROVE  ~Shared(v, proj[s])'
    BY DEF NoRivals
  <2>1. Shared(v, proj[s])' <=> "recreate" \in {qdrant, neo4j} \/ proj'[v] = proj'[s]
    BY <1>1 DEF Shared, settings
  <2>2. CASE s = u
    <3>1. pc[v] \in Running /\ pc[v] # "idle" /\ v # u
      BY <1>2, <2>2 DEF Running
    <3>2. ~Shared(v, p)
      BY <1>3, <2>2, <3>1
    <3> QED BY <1>2, <2>1, <2>2, <3>1, <3>2 DEF Shared
  <2>3. CASE v = u
    <3>1. pc[s] # "idle" /\ s \notin rivals
      BY <1>2, <1>3, <2>3
    <3> QED BY <1>2, <2>1, <2>3, <3>1 DEF Shared
  <2>4. CASE s # u /\ v # u
    <3>1. ~Shared(v, proj[s])
      BY <1>2, <1>3, <2>4 DEF IInv, NoRivals
    <3> QED BY <1>2, <2>1, <2>4, <3>1 DEF Shared
  <2> QED BY <2>2, <2>3, <2>4
<1>9. ASSUME NEW s \in Scans, s # u, pc[s] # "idle", undisturbed'[s]
      PROVE  Progress(s)'
  <2>1. undisturbed[s] /\ ~Shared(s, p)
    BY <1>3, <1>9
  <2>2. proj[s] # p
    BY <2>1 DEF Shared
  <2>3. Twin(s)' <=> Twin(s)
    BY <1>1, <1>2, <1>9, <2>2 DEF Twin
  <2>4. Progress(s)
    BY <1>9, <2>1 DEF IInv
  <2> QED BY <1>1, <1>2, <1>9, <2>3, <2>4, ProgressStays DEF stores
<1>10. Progress(u)'
  <2>1. \A i \in Items : nodes[p][i] # u
    BY <1>1, ScanSyncAssumption DEF IInv, Written
  <2>2. pc'[u] = "exists" /\ nodes' = nodes /\ proj'[u] = p
    BY <1>1, <1>2 DEF stores
  <2> QED BY <2>1, <2>2 DEF Progress, VectorsSoFar, VectorsStay, GraphSoFar, Graphs
<1> QED BY <1>2, <1>5, <1>6, <1>7, <1>8, <1>9, <1>10 DEF IInv

-----------------------------------------------------------------------------
(* Steps that leave the stores alone *)

\* It is enough to look at the scan that takes the step.
LEMMA StepKeeps ==
    ASSUME IInv, NEW s \in Scans, Step(s), Ranges', Written',
           /\ pc'[s] = "drop" => qdrant = "recreate"
           /\ pc'[s] = "upsert" => qdrant # "recreate"
           /\ pc'[s] \in {"scroll", "delete"} => qdrant = "deleteMissing"
           /\ pc'[s] = "clear" => neo4j = "recreate"
           /\ pc'[s] \in {"staleRels", "staleNodes"} => neo4j = "deleteMissing"
           /\ pc'[s] \in {"create", "upsert", "push", "clear", "nodes"} =>
                todo'[s] \subseteq items[s]
           /\ pc'[s] \in {"create", "clear"} => todo'[s] = items[s]
           /\ pc'[s] = "edges" => links'[s] \subseteq edges[s],
           undisturbed[s] => Progress(s)'
    PROVE  IInv'
<1>1. Sound'
  <2> SUFFICES ASSUME NEW u \in Scans
               PROVE  (/\ pc[u] = "idle" \/ proj[u] \in Projects
                       /\ pc[u] = "drop" => qdrant = "recreate"
                       /\ pc[u] = "upsert" => qdrant # "recreate"
                       /\ pc[u] \in {"scroll", "delete"} => qdrant = "deleteMissing"
                       /\ pc[u] = "clear" => neo4j = "recreate"
                       /\ pc[u] \in {"staleRels", "staleNodes"} => neo4j = "deleteMissing"
                       /\ pc[u] \in {"create", "upsert", "push", "clear", "nodes"} =>
                            todo[u] \subseteq items[u]
                       /\ pc[u] \in {"create", "clear"} => todo[u] = items[u]
                       /\ pc[u] = "edges" => links[u] \subseteq edges[u])'
    BY DEF Sound
  <2>1. UNCHANGED <<settings, identity>> /\ pc[s] # "idle"
    BY StepIsOwn, StepRuns DEF Running
  <2>2. CASE u = s
    BY <2>1, <2>2 DEF IInv, Sound, settings, identity
  <2>3. CASE u # s
    <3>1. pc'[u] = pc[u] /\ todo'[u] = todo[u] /\ links'[u] = links[u]
      BY <2>3, StepIsOwn
    <3> QED BY <2>1, <3>1 DEF IInv, Sound, settings, identity
  <2> QED BY <2>2, <2>3
<1>2. \A u \in Scans : pc'[u] # "idle" /\ undisturbed'[u] => Progress(u)'
  <2> SUFFICES ASSUME NEW u \in Scans, pc'[u] # "idle", undisturbed'[u] PROVE Progress(u)'
    OBVIOUS
  <2>1. undisturbed[u] /\ pc[s] # "idle"
    BY StepIsOwn, StepRuns DEF Running
  <2>2. CASE u = s
    BY <2>1, <2>2
  <2>3. CASE u # s
    <3>1. pc[u] # "idle"
      BY <2>3, StepIsOwn
    <3> QED BY <2>1, <2>3, <3>1, OthersAside
  <2> QED BY <2>2, <2>3
<1> QED BY <1>1, <1>2, StepNoRivals DEF IInv

\* What is stored stays explained while nothing is stored.
LEMMA WrittenStays ==
    ASSUME IInv, NEW s \in Scans, Step(s), UNCHANGED stores
    PROVE  Written'
<1>1. pc[s] # "idle" /\ pc'[s] # "idle" /\ UNCHANGED identity
  BY StepRuns, StepIsOwn DEF Running
<1>2. \A u \in Scans : pc[u] # "idle" => pc'[u] # "idle"
  BY <1>1, StepIsOwn
<1> QED BY <1>1, <1>2 DEF IInv, Ranges, Written, stores, identity

\* The graph is pushed once the documents are complete.
LEMMA VectorsDone ==
    ASSUME IInv, NEW s \in Scans, Step(s), undisturbed[s], ToGraph(s), UNCHANGED settings,
           (\A i \in items[s] : points[proj[s]][i] = s)',
           qdrant = "recreate" \/ (qdrant = "deleteMissing" /\ ~Twin(s)) =>
             (\A i \in Items : points[proj[s]][i] = IF i \in items[s] THEN s ELSE None)'
    PROVE  Progress(s)'
<1>1. /\ pc'[s] = IF neo4j = "recreate" THEN "clear" ELSE "nodes"
      /\ todo'[s] = items[s] /\ items' = items /\ (Twin(s)' <=> Twin(s))
  BY StepIsOwn, StepTwins DEF ToGraph, Goto, IInv, Ranges, identity
<1>2. VectorsSoFar(s)'
  BY <1>1 DEF VectorsSoFar, Vectors
<1>3. VectorsStay(s)'
  BY <1>1 DEF VectorsStay, settings
<1>4. GraphSoFar(s)'
  BY <1>1 DEF GraphSoFar, settings
<1> QED BY <1>2, <1>3, <1>4 DEF Progress

LEMMA CollectionExistsKeeps ==
    ASSUME IInv, NEW s \in Scans, CollectionExists(s)
    PROVE  IInv'
<1>1. /\ Step(s) /\ pc[s] = "exists" /\ UNCHANGED <<settings, stores, identity, links>>
      /\ qdrant \in Modes /\ neo4j \in Modes
  BY DEF Step, CollectionExists, IInv, Ranges
<1>2. Written'
  BY <1>1, WrittenStays
<1>3. \/ /\ collection /\ qdrant = "recreate" /\ Goto(s, "drop") /\ UNCHANGED todo
      \/ /\ ~(collection /\ qdrant = "recreate")
         /\ items[s] # {}
         /\ Goto(s, IF collection THEN "upsert" ELSE "create")
         /\ todo' = [todo EXCEPT ![s] = items[s]]
      \/ /\ collection /\ qdrant = "deleteMissing" /\ items[s] = {}
         /\ Goto(s, "scroll") /\ UNCHANGED todo
      \/ /\ ~(collection /\ qdrant # "add") /\ items[s] = {}
         /\ ToGraph(s)
  BY <1>1 DEF CollectionExists, Prepare, Modes
<1>4. Ranges'
  <2>1. undisturbed' = undisturbed
    BY DEF CollectionExists
  <2>2. pc' \in [Scans -> Locations] /\ todo' \in [Scans -> SUBSET Items]
    BY <1>3 DEF IInv, Ranges, Goto, ToGraph, Locations, Vectors, Graphs
  <2> QED BY <1>1, <2>1, <2>2 DEF IInv, Ranges, settings, stores, identity
<1>5. Progress(s)' \/ ~undisturbed[s]
  <2> SUFFICES ASSUME undisturbed[s] PROVE Progress(s)'
    OBVIOUS
  <2>1. \A i \in Items : nodes[proj[s]][i] # s
    BY <1>1 DEF IInv, Progress, VectorsSoFar, Vectors
  <2>2. proj[s] \in Projects /\ items[s] \subseteq Items
    BY <1>1 DEF IInv, Sound, Ranges
  <2>3. ~collection => \A i \in Items : points[proj[s]][i] = None
    BY <2>2 DEF IInv, Written
  <2>4. CASE /\ ~(collection /\ qdrant # "add") /\ items[s] = {}
             /\ ToGraph(s)
    BY <1>1, <2>3, <2>4, VectorsDone DEF stores, identity, settings
  <2>5. ASSUME NEW l \in {"drop", "upsert", "create", "scroll"}, Goto(s, l),
               l = "upsert" => todo'[s] = items[s],
               l = "create" => ~collection,
               l = "scroll" => items[s] = {}
        PROVE  Progress(s)'
    <3>1. pc'[s] = l /\ points' = points /\ nodes' = nodes /\ items' = items /\ proj' = proj
      BY <1>1, <2>5 DEF Goto, IInv, Ranges, stores, identity
    <3>2. VectorsSoFar(s)'
      BY <2>1, <2>3, <2>5, <3>1 DEF VectorsSoFar
    <3>3. pc'[s] \notin Graphs \cup {"done"}
      BY <3>1 DEF Graphs
    <3>4. VectorsStay(s)'
      BY <2>1, <3>1, <3>3 DEF VectorsStay
    <3>5. /\ pc'[s] # "nodes" /\ pc'[s] # "edges" /\ pc'[s] # "staleRels"
          /\ pc'[s] # "staleNodes" /\ pc'[s] # "done"
      BY <3>1
    <3>6. GraphSoFar(s)'
      BY <3>5 DEF GraphSoFar
    <3> QED BY <3>2, <3>4, <3>6 DEF Progress
  <2>6. [todo EXCEPT ![s] = items[s]][s] = items[s]
    BY DEF IInv, Ranges
  <2> QED BY <1>3, <2>4, <2>5, <2>6
<1>6. /\ pc'[s] = "drop" => qdrant = "recreate"
      /\ pc'[s] = "upsert" => qdrant # "recreate"
      /\ pc'[s] = "scroll" => qdrant = "deleteMissing"
      /\ pc'[s] = "clear" => neo4j = "recreate"
      /\ pc'[s] \in {"create", "upsert", "clear", "nodes"} => todo'[s] = items[s]
      /\ pc'[s] \in {"drop", "create", "upsert", "scroll", "clear", "nodes"}
  BY <1>3 DEF Goto, ToGraph, IInv, Ranges
<1> QED BY <1>1, <1>2, <1>4, <1>5, <1>6, StepKeeps

LEMMA UpsertedKeeps ==
    ASSUME IInv, NEW s \in Scans, Upserted(s)
    PROVE  IInv'
<1>1. /\ Step(s) /\ pc[s] \in {"upsert", "push"} /\ todo[s] = {}
      /\ UNCHANGED <<settings, stores, identity, links, undisturbed>>
      /\ qdrant \in Modes /\ neo4j \in Modes
  BY DEF Step, Upserted, IInv, Ranges
<1>2. Written'
  BY <1>1, WrittenStays
<1>3. \/ pc[s] = "upsert" /\ qdrant = "deleteMissing" /\ Goto(s, "scroll") /\ UNCHANGED todo
      \/ ~(pc[s] = "upsert" /\ qdrant = "deleteMissing") /\ ToGraph(s)
  BY DEF Upserted
<1>4. Ranges'
  <2>1. pc' \in [Scans -> Locations] /\ todo' \in [Scans -> SUBSET Items]
    BY <1>3 DEF IInv, Ranges, Goto, ToGraph, Locations, Vectors, Graphs
  <2> QED BY <1>1, <2>1 DEF IInv, Ranges, settings, stores, identity
<1>5. ASSUME undisturbed[s] PROVE Progress(s)'
  <2>1. VectorsSoFar(s) /\ (pc[s] = "upsert" => qdrant # "recreate")
    BY <1>1, <1>5 DEF IInv, Progress, Sound
  <2>2. \A i \in items[s] : points[proj[s]][i] = s
    BY <1>1, <2>1 DEF VectorsSoFar, IInv, Ranges
  <2>3. CASE pc[s] = "upsert" /\ qdrant = "deleteMissing" /\ Goto(s, "scroll")
    <3>1. pc'[s] = "scroll" /\ points' = points /\ nodes' = nodes /\ items' = items /\ proj' = proj
      BY <1>1, <2>3 DEF Goto, IInv, Ranges, stores, identity
    <3>2. \A i \in Items : nodes[proj[s]][i] # s
      BY <1>1, <2>1 DEF VectorsSoFar, Vectors
    <3> QED BY <2>2, <3>1, <3>2 DEF Progress, VectorsSoFar, VectorsStay, GraphSoFar, Graphs
  <2>4. CASE ~(pc[s] = "upsert" /\ qdrant = "deleteMissing") /\ ToGraph(s)
    <3>1. qdrant # "add" =>
            \A i \in Items : points[proj[s]][i] = IF i \in items[s] THEN s ELSE None
      BY <1>1, <2>1, <2>4 DEF VectorsSoFar, Modes
    <3> QED BY <1>1, <1>5, <2>2, <2>4, <3>1, VectorsDone DEF stores, identity, settings
  <2> QED BY <1>3, <2>3, <2>4
<1> QED BY <1>1, <1>2, <1>3, <1>4, <1>5, StepKeeps DEF Goto, ToGraph, IInv, Ranges

LEMMA ScrollKeeps ==
    ASSUME IInv, NEW s \in Scans, Scroll(s)
    PROVE  IInv'
<1>1. /\ Step(s) /\ pc[s] = "scroll"
      /\ UNCHANGED <<settings, stores, identity, links, undisturbed>>
      /\ pc' = [pc EXCEPT ![s] = "delete"]
      /\ todo' = [todo EXCEPT ![s] = {i \in Items : Stale(s, points[proj[s]][i])}]
  BY DEF Step, Scroll, Goto
<1>2. Written'
  BY <1>1, WrittenStays
<1>3. pc'[s] = "delete" /\ todo'[s] = {i \in Items : Stale(s, points[proj[s]][i])}
  BY <1>1 DEF IInv, Ranges
<1>4. Ranges'
  BY <1>1 DEF IInv, Ranges, settings, stores, identity, Locations, Vectors
<1>5. ASSUME undisturbed[s] PROVE Progress(s)'
  <2>1. VectorsSoFar(s) /\ proj[s] \in Projects /\ (Twin(s)' <=> Twin(s))
    BY <1>1, <1>5, StepTwins DEF IInv, Progress, Sound
  <2>2. points' = points /\ nodes' = nodes /\ items' = items /\ proj' = proj
    BY <1>1 DEF stores, identity
  <2>3. \A i \in items[s] : i \notin todo'[s]
    BY <1>1, <1>3, <2>1 DEF VectorsSoFar, Stale
  <2>4. ASSUME ~Twin(s), NEW i \in Items, points[proj[s]][i] \notin {None, s}
        PROVE  i \in todo'[s]
    <3>1. points[proj[s]][i] \in Scans \ {s}
      BY <2>1, <2>4 DEF IInv, Ranges
    <3>2. pc[points[proj[s]][i]] # "idle" /\ proj[points[proj[s]][i]] = proj[s]
      BY <2>1, <2>4 DEF IInv, Written
    <3>3. stamp[points[proj[s]][i]] # stamp[s]
      BY <2>4, <3>1, <3>2 DEF Twin
    <3> QED BY <1>3, <2>4, <3>3 DEF Stale
  <2>5. VectorsSoFar(s)'
    BY <1>1, <1>3, <2>1, <2>2, <2>3, <2>4 DEF VectorsSoFar, Vectors
  <2>6. \A i \in Items : nodes[proj[s]][i] # s
    BY <1>1, <2>1 DEF VectorsSoFar, Vectors
  <2> QED BY <1>3, <2>2, <2>5, <2>6 DEF Progress, VectorsStay, GraphSoFar, Graphs
<1> QED BY <1>1, <1>2, <1>3, <1>4, <1>5, StepKeeps DEF IInv, Sound

LEMMA DeletedKeeps ==
    ASSUME IInv, NEW s \in Scans, Deleted(s)
    PROVE  IInv'
<1>1. /\ Step(s) /\ pc[s] = "delete" /\ todo[s] = {} /\ ToGraph(s)
      /\ UNCHANGED <<settings, stores, identity, links, undisturbed>>
      /\ neo4j \in Modes
  BY DEF Step, Deleted, IInv, Ranges
<1>2. Written'
  BY <1>1, WrittenStays
<1>3. Ranges'
  <2>1. pc' \in [Scans -> Locations] /\ todo' \in [Scans -> SUBSET Items]
    BY <1>1 DEF IInv, Ranges, Goto, ToGraph, Locations, Graphs
  <2> QED BY <1>1, <2>1 DEF IInv, Ranges, settings, stores, identity
<1>4. ASSUME undisturbed[s] PROVE Progress(s)'
  <2>1. VectorsSoFar(s) /\ proj[s] \in Projects /\ qdrant = "deleteMissing"
    BY <1>1, <1>4 DEF IInv, Progress, Sound
  <2>2. \A i \in items[s] : points[proj[s]][i] = s
    BY <1>1, <2>1 DEF VectorsSoFar
  <2>3. \A i \in Items : points[proj[s]][i] = s => i \in items[s]
    BY <2>1, ScanSyncAssumption DEF IInv, Written
  <2>4. ~Twin(s) => \A i \in Items : points[proj[s]][i] \in {None, s}
    BY <1>1, <2>1 DEF VectorsSoFar
  <2>5. ~Twin(s) => \A i \in Items : points[proj[s]][i] = IF i \in items[s] THEN s ELSE None
    BY <2>2, <2>3, <2>4
  <2> QED BY <1>1, <1>4, <2>1, <2>2, <2>5, VectorsDone DEF stores, identity, settings
<1> QED BY <1>1, <1>2, <1>3, <1>4, StepKeeps DEF Goto, ToGraph, IInv, Ranges

LEMMA FailKeeps ==
    ASSUME IInv, NEW s \in Scans, Fail(s)
    PROVE  IInv'
<1>1. /\ Step(s) /\ pc[s] \in Running /\ pc' = [pc EXCEPT ![s] = "failed"]
      /\ UNCHANGED <<settings, stores, identity, todo, links, undisturbed>>
  BY DEF Step, Fail, Goto
<1>2. Written'
  BY <1>1, WrittenStays
<1>3. pc'[s] = "failed" /\ Ranges'
  BY <1>1 DEF IInv, Ranges, settings, stores, identity, Locations
<1>4. ASSUME undisturbed[s] PROVE Progress(s)'
  <2>1. Progress(s)
    BY <1>1, <1>4 DEF IInv, Running
  <2>2. points' = points /\ nodes' = nodes /\ items' = items /\ proj' = proj
    BY <1>1 DEF stores, identity
  <2> QED BY <1>3, <2>1, <2>2 DEF Progress, VectorsSoFar, VectorsStay, GraphSoFar, Graphs,
                                  Vectors
<1> QED BY <1>1, <1>2, <1>3, <1>4, StepKeeps

LEMMA NodesPushedKeeps ==
    ASSUME IInv, NEW s \in Scans, NodesPushed(s)
    PROVE  IInv'
<1>1. /\ Step(s) /\ pc[s] = "nodes" /\ todo[s] = {}
      /\ UNCHANGED <<settings, stores, identity, todo, undisturbed>>
      /\ pc' = [pc EXCEPT ![s] = "edges"] /\ links' = [links EXCEPT ![s] = edges[s]]
  BY DEF Step, NodesPushed, Goto
<1>2. Written'
  BY <1>1, WrittenStays
<1>3. pc'[s] = "edges" /\ links'[s] = edges[s] /\ Ranges'
  BY <1>1 DEF IInv, Ranges, settings, stores, identity, Locations, Graphs
<1>4. ASSUME undisturbed[s] PROVE Progress(s)'
  <2>1. Progress(s) /\ (Twin(s)' <=> Twin(s)) /\ Linked(s)' \subseteq edges[s]
    BY <1>1, <1>4, StepTwins DEF IInv, Linked, identity
  <2>2. /\ points' = points /\ nodes' = nodes /\ rels' = rels /\ items' = items /\ proj' = proj
        /\ qdrant' = qdrant /\ neo4j' = neo4j
    BY <1>1 DEF stores, identity, settings
  <2>3. VectorsSoFar(s)' /\ VectorsStay(s)'
    BY <1>1, <1>3, <2>1, <2>2 DEF Progress, VectorsSoFar, VectorsStay, Graphs, Vectors
  <2>4. GraphSoFar(s)'
    BY <1>1, <1>3, <2>1, <2>2 DEF Progress, GraphSoFar
  <2> QED BY <2>3, <2>4 DEF Progress
<1> QED BY <1>1, <1>2, <1>3, <1>4, StepKeeps

LEMMA EdgesPushedKeeps ==
    ASSUME IInv, NEW s \in Scans, EdgesPushed(s)
    PROVE  IInv'
<1> DEFINE l == IF neo4j = "deleteMissing" THEN "staleRels" ELSE "done"
<1>1. /\ Step(s) /\ pc[s] = "edges" /\ links[s] = {}
      /\ UNCHANGED <<settings, stores, identity, todo, links, undisturbed>>
      /\ pc' = [pc EXCEPT ![s] = l]
  BY DEF Step, EdgesPushed, Goto
<1>2. Written'
  BY <1>1, WrittenStays
<1>3. pc'[s] = l /\ Ranges'
  BY <1>1 DEF IInv, Ranges, settings, stores, identity, Locations, Graphs
<1>4. ASSUME undisturbed[s] PROVE Progress(s)'
  <2>1. Progress(s) /\ (Twin(s)' <=> Twin(s)) /\ Linked(s)' = Linked(s)
    BY <1>1, <1>4, StepTwins DEF IInv, Linked, identity
  <2>2. /\ points' = points /\ nodes' = nodes /\ rels' = rels /\ items' = items /\ proj' = proj
        /\ qdrant' = qdrant /\ neo4j' = neo4j
    BY <1>1 DEF stores, identity, settings
  <2>3. VectorsSoFar(s)' /\ VectorsStay(s)'
    BY <1>1, <1>3, <2>1, <2>2 DEF Progress, VectorsSoFar, VectorsStay, Graphs, Vectors
  <2>4. GraphSoFar(s)'
    BY <1>1, <1>3, <2>1, <2>2 DEF Progress, GraphSoFar
  <2> QED BY <2>3, <2>4 DEF Progress
<1> QED BY <1>1, <1>2, <1>3, <1>4, StepKeeps

-----------------------------------------------------------------------------
(* Steps that write the documents *)

\* Scans that wrote something keep their identity.
LEMMA WritersStay ==
    ASSUME IInv, NEW s \in Scans, Step(s)
    PROVE  /\ \A u \in Scans : pc[u] # "idle" => pc'[u] # "idle"
           /\ pc[s] # "idle"
           /\ proj[s] \in Projects
           /\ UNCHANGED <<qdrant, neo4j, proj, stamp, items, edges, undisturbed>>
<1>1. pc[s] # "idle" /\ pc'[s] # "idle"
  BY StepRuns, StepIsOwn DEF Running
<1> QED BY <1>1, StepIsOwn DEF settings, identity, IInv, Sound

LEMMA DeleteCollectionKeeps ==
    ASSUME IInv, NEW s \in Scans, DeleteCollection(s)
    PROVE  IInv'
<1>1. /\ Step(s) /\ pc[s] = "drop" /\ collection' = FALSE /\ points' = Nothing
      /\ UNCHANGED <<settings, nodes, rels, identity, links, undisturbed>>
  BY DEF Step, DeleteCollection
<1>2. \/ /\ items[s] # {} /\ Goto(s, "create") /\ todo' = [todo EXCEPT ![s] = items[s]]
      \/ items[s] = {} /\ ToGraph(s)
  BY DEF DeleteCollection, Prepare
<1>3. proj[s] \in Projects /\ items' = items /\ proj' = proj
  BY <1>1, WritersStay DEF identity
<1>4. \A p \in Projects, i \in Items : points'[p][i] = None
  BY <1>1 DEF Nothing
<1>5. Ranges'
  <2>1. pc' \in [Scans -> Locations] /\ todo' \in [Scans -> SUBSET Items]
    BY <1>2 DEF IInv, Ranges, Goto, ToGraph, Locations, Vectors, Graphs
  <2>2. points' \in [Projects -> [Items -> Scans \cup {None}]]
    BY <1>1 DEF Nothing
  <2> QED BY <1>1, <2>1, <2>2 DEF IInv, Ranges, settings, identity
<1>6. Written'
  BY <1>1, <1>4, WritersStay DEF IInv, Ranges, Written, identity
<1>7. ASSUME undisturbed[s] PROVE Progress(s)'
  <2>1. \A i \in Items : nodes[proj[s]][i] # s
    BY <1>1, <1>7 DEF IInv, Progress, VectorsSoFar, Vectors
  <2>2. CASE items[s] = {} /\ ToGraph(s)
    BY <1>1, <1>3, <1>4, <1>7, <2>2, VectorsDone
  <2>3. CASE Goto(s, "create")
    <3>1. pc'[s] = "create"
      BY <2>3 DEF Goto, IInv, Ranges
    <3> QED BY <1>1, <1>3, <1>4, <2>1, <3>1
            DEF Progress, VectorsSoFar, VectorsStay, GraphSoFar, Graphs
  <2> QED BY <1>2, <2>2, <2>3
<1>8. /\ pc'[s] = "clear" => neo4j = "recreate"
      /\ pc'[s] \in {"create", "clear", "nodes"} /\ todo'[s] = items[s]
  BY <1>2 DEF Goto, ToGraph, IInv, Ranges
<1> QED BY <1>1, <1>5, <1>6, <1>7, <1>8, StepKeeps

LEMMA CreateCollectionKeeps ==
    ASSUME IInv, NEW s \in Scans, CreateCollection(s)
    PROVE  IInv'
<1>1. /\ Step(s) /\ pc[s] = "create" /\ collection' = TRUE
      /\ pc' = [pc EXCEPT ![s] = "push"]
      /\ UNCHANGED <<settings, points, nodes, rels, identity, todo, links, undisturbed>>
  BY DEF Step, CreateCollection, Goto
<1>2. pc'[s] = "push" /\ Ranges'
  BY <1>1 DEF IInv, Ranges, settings, identity, Locations, Vectors
<1>3. Written'
  BY <1>1, WritersStay DEF IInv, Ranges, Written, identity
<1>4. todo[s] = items[s] /\ items' = items /\ proj' = proj
  BY <1>1 DEF IInv, Sound, identity
<1>5. ASSUME undisturbed[s] PROVE Progress(s)'
  <2>1. VectorsSoFar(s)
    BY <1>1, <1>5 DEF IInv, Progress
  <2>2. VectorsSoFar(s)'
    BY <1>1, <1>2, <1>4, <2>1 DEF VectorsSoFar, Vectors
  <2> QED BY <1>2, <2>2 DEF Progress, VectorsSoFar, VectorsStay, GraphSoFar, Graphs, Vectors
<1> QED BY <1>1, <1>2, <1>3, <1>4, <1>5, StepKeeps

LEMMA UpsertKeeps ==
    ASSUME IInv, NEW s \in Scans, Upsert(s)
    PROVE  IInv'
<1> DEFINE x == First(todo[s])
           p == proj[s]
<1>1. /\ Step(s) /\ pc[s] \in {"upsert", "push"} /\ todo[s] # {} /\ collection
      /\ points' = [points EXCEPT ![p][x] = s]
      /\ todo' = [todo EXCEPT ![s] = @ \ {x}]
      /\ UNCHANGED <<settings, collection, nodes, rels, pc, identity, links, undisturbed>>
  BY DEF Step, Upsert, Write
<1>2. x \in todo[s] /\ x \in Items /\ x \in items[s] /\ todo[s] \subseteq items[s]
  BY <1>1, FirstIsMember DEF IInv, Ranges, Sound
<1>3. p \in Projects /\ items' = items /\ proj' = proj /\ todo'[s] = todo[s] \ {x}
  BY <1>1, WritersStay DEF IInv, Ranges, identity
<1> HIDE DEF x, p
<1>4. \A q \in Projects, i \in Items :
        points'[q][i] = IF q = p /\ i = x THEN s ELSE points[q][i]
  BY <1>1, <1>2, <1>3 DEF IInv, Ranges
<1>5. Ranges'
  <2>1. points' \in [Projects -> [Items -> Scans \cup {None}]]
    BY <1>1, <1>2, <1>3 DEF IInv, Ranges
  <2>2. todo' \in [Scans -> SUBSET Items]
    BY <1>1 DEF IInv, Ranges
  <2> QED BY <1>1, <2>1, <2>2 DEF IInv, Ranges, settings, identity
<1>6. Written'
  BY <1>1, <1>2, <1>4, WritersStay DEF IInv, Ranges, Written, identity, p
<1>7. ASSUME undisturbed[s] PROVE Progress(s)'
  <2>1. VectorsSoFar(s)
    BY <1>1, <1>7 DEF IInv, Progress, Running
  <2>2. \A i \in Items : points'[p][i] = IF i = x THEN s ELSE points[p][i]
    BY <1>3, <1>4
  <2>3. items[s] \subseteq Items
    BY DEF IInv, Ranges
  <2>4. VectorsSoFar(s)'
    BY <1>1, <1>2, <1>3, <2>1, <2>2, <2>3 DEF VectorsSoFar, Vectors, p
  <2> QED BY <1>1, <2>4 DEF Progress, VectorsSoFar, VectorsStay, GraphSoFar, Graphs, Vectors
<1> QED BY <1>1, <1>2, <1>3, <1>5, <1>6, <1>7, StepKeeps DEF IInv, Sound

LEMMA DeletePointKeeps ==
    ASSUME IInv, NEW s \in Scans, DeletePoint(s)
    PROVE  IInv'
<1> DEFINE x == First(todo[s])
           p == proj[s]
<1>1. /\ Step(s) /\ pc[s] = "delete" /\ todo[s] # {}
      /\ points' = [points EXCEPT ![p][x] = None]
      /\ todo' = [todo EXCEPT ![s] = @ \ {x}]
      /\ UNCHANGED <<settings, collection, nodes, rels, pc, identity, links, undisturbed>>
  BY DEF Step, DeletePoint
<1>2. x \in todo[s] /\ x \in Items
  BY <1>1, FirstIsMember DEF IInv, Ranges
<1>3. p \in Projects /\ items' = items /\ proj' = proj /\ todo'[s] = todo[s] \ {x}
  BY <1>1, WritersStay DEF IInv, Ranges, identity
<1> HIDE DEF x, p
<1>4. \A q \in Projects, i \in Items :
        points'[q][i] = IF q = p /\ i = x THEN None ELSE points[q][i]
  BY <1>1, <1>2, <1>3 DEF IInv, Ranges
<1>5. Ranges'
  <2>1. points' \in [Projects -> [Items -> Scans \cup {None}]]
    BY <1>1, <1>2, <1>3 DEF IInv, Ranges
  <2>2. todo' \in [Scans -> SUBSET Items]
    BY <1>1 DEF IInv, Ranges
  <2> QED BY <1>1, <2>1, <2>2 DEF IInv, Ranges, settings, identity
<1>6. Written'
  BY <1>1, <1>4, WritersStay DEF IInv, Ranges, Written, identity
<1>7. ASSUME undisturbed[s] PROVE Progress(s)'
  <2>1. VectorsSoFar(s) /\ (Twin(s)' <=> Twin(s))
    BY <1>1, <1>7, StepTwins DEF IInv, Progress
  <2>2. \A i \in Items : points'[p][i] = IF i = x THEN None ELSE points[p][i]
    BY <1>3, <1>4
  <2>3. items[s] \subseteq Items
    BY DEF IInv, Ranges
  <2>4. VectorsSoFar(s)'
    BY <1>1, <1>2, <1>3, <2>1, <2>2, <2>3 DEF VectorsSoFar, Vectors, p
  <2> QED BY <1>1, <2>4 DEF Progress, VectorsSoFar, VectorsStay, GraphSoFar, Graphs, Vectors
<1> QED BY <1>1, <1>5, <1>6, <1>7, StepKeeps DEF IInv, Sound

-----------------------------------------------------------------------------
(* Steps that write the graph *)

\* The documents are not touched any more.
LEMMA VectorsKept ==
    ASSUME IInv, NEW s \in Scans, Step(s), undisturbed[s],
           pc[s] \in Graphs, pc'[s] \in Graphs \cup {"done"}, points' = points
    PROVE  VectorsSoFar(s)' /\ VectorsStay(s)'
<1>1. VectorsStay(s) /\ (Twin(s)' <=> Twin(s))
  BY StepTwins DEF IInv, Progress, Graphs
<1>2. UNCHANGED <<qdrant, neo4j, proj, items>>
  BY WritersStay
<1>3. VectorsStay(s)'
  BY <1>1, <1>2 DEF VectorsStay
<1>4. pc'[s] \notin Vectors
  BY DEF Vectors, Graphs
<1> QED BY <1>3, <1>4 DEF VectorsSoFar, Vectors

LEMMA ClearGraphKeeps ==
    ASSUME IInv, NEW s \in Scans, ClearGraph(s)
    PROVE  IInv'
<1>1. /\ Step(s) /\ pc[s] = "clear" /\ nodes' = Nothing /\ rels' = NoRels
      /\ pc' = [pc EXCEPT ![s] = "nodes"]
      /\ UNCHANGED <<settings, collection, points, identity, todo, links, undisturbed>>
  BY DEF Step, ClearGraph, Goto
<1>2. /\ \A p \in Projects, i \in Items : nodes'[p][i] = None
      /\ \A p \in Projects, e \in Edges : rels'[p][e] = None
  BY <1>1 DEF Nothing, NoRels
<1>3. proj[s] \in Projects /\ items' = items /\ proj' = proj /\ points' = points
  BY <1>1, WritersStay
<1>4. Ranges'
  <2>1. /\ nodes' \in [Projects -> [Items -> Scans \cup {None}]]
        /\ rels' \in [Projects -> [Edges -> Scans \cup {None}]]
    BY <1>1 DEF Nothing, NoRels
  <2> QED BY <1>1, <2>1 DEF IInv, Ranges, settings, identity, Locations, Graphs
<1>5. pc'[s] = "nodes" /\ todo'[s] = todo[s] /\ todo[s] = items[s]
  BY <1>1 DEF IInv, Ranges, Sound
<1>6. Written'
  BY <1>1, <1>2, WritersStay DEF IInv, Ranges, Written, identity
<1>7. ASSUME undisturbed[s] PROVE Progress(s)'
  <2>1. VectorsSoFar(s)' /\ VectorsStay(s)'
    BY <1>1, <1>3, <1>5, <1>7, VectorsKept DEF Graphs
  <2>2. GraphSoFar(s)'
    BY <1>2, <1>3, <1>5 DEF GraphSoFar
  <2> QED BY <2>1, <2>2 DEF Progress
<1> QED BY <1>1, <1>3, <1>4, <1>5, <1>6, <1>7, StepKeeps

LEMMA PushNodeKeeps ==
    ASSUME IInv, NEW s \in Scans, PushNode(s)
    PROVE  IInv'
<1> DEFINE x == First(todo[s])
           p == proj[s]
<1>1. /\ Step(s) /\ pc[s] = "nodes" /\ todo[s] # {}
      /\ nodes' = [nodes EXCEPT ![p][x] = s]
      /\ todo' = [todo EXCEPT ![s] = @ \ {x}]
      /\ UNCHANGED <<settings, collection, points, rels, pc, identity, links, undisturbed>>
  BY DEF Step, PushNode, Write
<1>2. x \in todo[s] /\ x \in Items /\ x \in items[s] /\ todo[s] \subseteq items[s]
  BY <1>1, FirstIsMember DEF IInv, Ranges, Sound
<1>3. /\ p \in Projects /\ items' = items /\ proj' = proj /\ todo'[s] = todo[s] \ {x}
      /\ neo4j' = neo4j
  BY <1>1, WritersStay DEF IInv, Ranges, identity
<1> HIDE DEF x, p
<1>4. \A q \in Projects, i \in Items :
        nodes'[q][i] = IF q = p /\ i = x THEN s ELSE nodes[q][i]
  BY <1>1, <1>2, <1>3 DEF IInv, Ranges
<1>5. Ranges'
  <2>1. nodes' \in [Projects -> [Items -> Scans \cup {None}]]
    BY <1>1, <1>2, <1>3 DEF IInv, Ranges
  <2>2. todo' \in [Scans -> SUBSET Items]
    BY <1>1 DEF IInv, Ranges
  <2> QED BY <1>1, <2>1, <2>2 DEF IInv, Ranges, settings, identity
<1>6. Written'
  <2>1. s # None
    BY ScanSyncAssumption
  <2>2. \A e \in Edges : Ends(e) \subseteq Items
    BY ScanSyncAssumption DEF Ends
  <2>3. \A q \in Projects, e \in Edges : rels'[q][e] # None =>
          \A i \in Ends(e) : nodes'[q][i] # None
    BY <1>1, <1>4, <2>1, <2>2 DEF IInv, Written
  <2> QED BY <1>1, <1>2, <1>4, <2>3, WritersStay DEF IInv, Ranges, Written, identity, p
<1>7. ASSUME undisturbed[s] PROVE Progress(s)'
  <2>1. GraphSoFar(s)
    BY <1>1, <1>7 DEF IInv, Progress, Running
  <2>2. \A i \in Items : nodes'[p][i] = IF i = x THEN s ELSE nodes[p][i]
    BY <1>3, <1>4
  <2>3. items[s] \subseteq Items
    BY DEF IInv, Ranges
  <2>4. GraphSoFar(s)'
    BY <1>1, <1>2, <1>3, <2>1, <2>2, <2>3 DEF GraphSoFar, p
  <2>5. VectorsSoFar(s)' /\ VectorsStay(s)'
    BY <1>1, <1>7, VectorsKept DEF Graphs
  <2> QED BY <2>4, <2>5 DEF Progress
<1> QED BY <1>1, <1>2, <1>3, <1>5, <1>6, <1>7, StepKeeps DEF IInv, Sound

LEMMA PushEdgeKeeps ==
    ASSUME IInv, NEW s \in Scans, PushEdge(s)
    PROVE  IInv'
<1> DEFINE p == proj[s]
           hit(e) == \A i \in Ends(e) : nodes[p][i] # None
<1>1. /\ Step(s) /\ pc[s] = "edges"
      /\ UNCHANGED <<settings, collection, points, nodes, pc, identity, todo, undisturbed>>
  BY DEF Step, PushEdge
<1>2. PICK x \in links[s] :
        /\ links' = [links EXCEPT ![s] = @ \ {x}]
        /\ rels' = IF hit(x) THEN [rels EXCEPT ![p][x] = s] ELSE rels
  BY DEF PushEdge, Write
<1>3. x \in Edges /\ x \in edges[s] /\ links[s] \subseteq edges[s]
  BY <1>1, <1>2 DEF IInv, Ranges, Sound
<1>4. /\ p \in Projects /\ items' = items /\ edges' = edges /\ proj' = proj
      /\ neo4j' = neo4j /\ nodes' = nodes /\ links'[s] = links[s] \ {x}
  BY <1>1, <1>2, WritersStay DEF IInv, Ranges, identity
<1> HIDE DEF p
<1>5. \A q \in Projects, e \in Edges :
        rels'[q][e] = IF q = p /\ e = x /\ hit(x) THEN s ELSE rels[q][e]
  BY <1>2, <1>3, <1>4 DEF IInv, Ranges
<1>6. Ranges'
  <2>1. rels' \in [Projects -> [Edges -> Scans \cup {None}]]
    BY <1>2, <1>3, <1>4 DEF IInv, Ranges
  <2>2. links' \in [Scans -> SUBSET Edges]
    BY <1>2 DEF IInv, Ranges
  <2> QED BY <1>1, <2>1, <2>2 DEF IInv, Ranges, settings, identity
<1>7. Written'
  <2>1. \A q \in Projects, e \in Edges : rels'[q][e] # None =>
          \A i \in Ends(e) : nodes'[q][i] # None
    BY <1>4, <1>5 DEF IInv, Written
  <2>2. pc[s] # "idle"
    BY <1>1
  <2>3. \A q \in Projects, e \in Edges : rels'[q][e] # None =>
          pc[rels'[q][e]] # "idle" /\ proj[rels'[q][e]] = q /\ e \in edges[rels'[q][e]]
    BY <1>3, <1>5, <2>2 DEF IInv, Written, p
  <2> QED BY <1>1, <1>4, <2>1, <2>3 DEF IInv, Written, identity
<1>8. ASSUME undisturbed[s] PROVE Progress(s)'
  <2>1. GraphSoFar(s)
    BY <1>1, <1>8 DEF IInv, Progress, Running
  <2>2. \A e \in Edges : rels'[p][e] = IF e = x /\ hit(x) THEN s ELSE rels[p][e]
    BY <1>4, <1>5
  <2>3. Linked(s)' = Linked(s) /\ Linked(s) \subseteq Edges
    BY <1>4 DEF Linked, IInv, Ranges
  <2>4. x \in Linked(s) => hit(x)
    <3>1. \A i \in items[s] : nodes[p][i] = s
      BY <1>1, <2>1 DEF GraphSoFar, p
    <3> QED BY <3>1, ScanSyncAssumption DEF Linked
  <2>5. neo4j = "recreate" /\ hit(x) => x \in Linked(s)
    <3>1. neo4j = "recreate" => \A i \in Items : nodes[p][i] # None => i \in items[s]
      BY <1>1, <2>1 DEF GraphSoFar, p
    <3>2. Ends(x) \subseteq Items
      BY <1>3, ScanSyncAssumption DEF Ends
    <3> QED BY <1>3, <3>1, <3>2 DEF Linked
  <2> HIDE DEF hit
  <2>6. \A e \in Linked(s) \ links'[s] : rels'[p][e] = s
    BY <1>1, <1>4, <2>1, <2>2, <2>3, <2>4 DEF GraphSoFar, p
  <2>7. neo4j = "recreate" =>
          \A e \in Edges : rels'[p][e] = IF e \in Linked(s) \ links'[s] THEN s ELSE None
    <3> SUFFICES ASSUME neo4j = "recreate", NEW e \in Edges
                 PROVE  rels'[p][e] = IF e \in Linked(s) \ links'[s] THEN s ELSE None
      OBVIOUS
    <3>1. rels[p][e] = IF e \in Linked(s) \ links[s] THEN s ELSE None
      BY <1>1, <2>1 DEF GraphSoFar, p
    <3> QED BY <1>2, <1>4, <2>2, <2>4, <2>5, <3>1
  <2>8. pc'[s] = "edges"
    BY <1>1
  <2>9. GraphSoFar(s)'
    BY <1>1, <1>4, <2>1, <2>3, <2>6, <2>7, <2>8 DEF GraphSoFar, p
  <2>10. VectorsSoFar(s)' /\ VectorsStay(s)'
    BY <1>1, <1>8, VectorsKept DEF Graphs
  <2> QED BY <2>9, <2>10 DEF Progress
<1> QED BY <1>1, <1>3, <1>4, <1>6, <1>7, <1>8, StepKeeps DEF IInv, Sound

\* What carries another scan id is not the scan's own, and without a twin only that is.
LEMMA StaleIsRest ==
    ASSUME IInv, NEW s \in Scans
    PROVE  /\ ~Stale(s, s) /\ ~Stale(s, None)
           /\ \A w \in Scans : pc[w] # "idle" /\ proj[w] = proj[s] /\ ~Twin(s) /\ w # s
                => Stale(s, w)
BY ScanSyncAssumption DEF Stale, Twin

LEMMA DeleteStaleRelsKeeps ==
    ASSUME IInv, NEW s \in Scans, DeleteStaleRels(s)
    PROVE  IInv'
<1> DEFINE p == proj[s]
<1>1. /\ Step(s) /\ pc[s] = "staleRels"
      /\ rels' = [rels EXCEPT ![p] =
                    [e \in Edges |-> IF Stale(s, rels[p][e]) THEN None ELSE rels[p][e]]]
      /\ pc' = [pc EXCEPT ![s] = "staleNodes"]
      /\ UNCHANGED <<settings, collection, points, nodes, identity, todo, links, undisturbed>>
  BY DEF Step, DeleteStaleRels, Goto, IInv, Ranges
<1>2. /\ p \in Projects /\ items' = items /\ edges' = edges /\ proj' = proj
      /\ neo4j' = neo4j /\ nodes' = nodes /\ pc'[s] = "staleNodes"
      /\ neo4j = "deleteMissing"
  BY <1>1, WritersStay DEF IInv, Ranges, Sound, identity
<1> HIDE DEF p
<1>3. \A q \in Projects, e \in Edges :
        rels'[q][e] = IF q = p /\ Stale(s, rels[p][e]) THEN None ELSE rels[q][e]
  BY <1>1, <1>2 DEF IInv, Ranges
<1>4. Ranges'
  <2>1. rels' \in [Projects -> [Edges -> Scans \cup {None}]]
    <3>1. [e \in Edges |-> IF Stale(s, rels[p][e]) THEN None ELSE rels[p][e]]
            \in [Edges -> Scans \cup {None}]
      BY <1>2 DEF IInv, Ranges
    <3> QED BY <1>1, <1>2, <3>1 DEF IInv, Ranges
  <2> QED BY <1>1, <2>1 DEF IInv, Ranges, settings, identity, Locations, Graphs
<1>5. Written'
  BY <1>1, <1>2, <1>3, WritersStay DEF IInv, Ranges, Written, identity
<1>6. ASSUME undisturbed[s] PROVE Progress(s)'
  <2>1. GraphSoFar(s) /\ (Twin(s)' <=> Twin(s))
    BY <1>1, <1>6, StepTwins DEF IInv, Progress, Running
  <2>2. \A e \in Edges : rels'[p][e] = IF Stale(s, rels[p][e]) THEN None ELSE rels[p][e]
    BY <1>2, <1>3
  <2>3. Linked(s)' = Linked(s) /\ Linked(s) \subseteq Edges
    BY <1>2 DEF Linked, IInv, Ranges
  <2>4. \A e \in Linked(s) : rels'[p][e] = s
    BY <1>1, <2>1, <2>2, <2>3, StaleIsRest DEF GraphSoFar, p
  <2>5. ~Twin(s) => \A e \in Edges : rels'[p][e] \in {None, s}
    <3> SUFFICES ASSUME ~Twin(s), NEW e \in Edges PROVE rels'[p][e] \in {None, s}
      OBVIOUS
    <3>1. rels[p][e] \in Scans \cup {None}
      BY <1>2 DEF IInv, Ranges
    <3>2. rels[p][e] # None => pc[rels[p][e]] # "idle" /\ proj[rels[p][e]] = p
      BY <1>2 DEF IInv, Written
    <3> QED BY <2>2, <3>1, <3>2, StaleIsRest DEF p
  <2>6. GraphSoFar(s)'
    BY <1>1, <1>2, <2>1, <2>3, <2>4, <2>5 DEF GraphSoFar, p
  <2>7. VectorsSoFar(s)' /\ VectorsStay(s)'
    BY <1>1, <1>2, <1>6, VectorsKept DEF Graphs
  <2> QED BY <2>6, <2>7 DEF Progress
<1> QED BY <1>1, <1>2, <1>4, <1>5, <1>6, StepKeeps DEF IInv, Sound

LEMMA DeleteStaleNodesKeeps ==
    ASSUME IInv, NEW s \in Scans, DeleteStaleNodes(s)
    PROVE  IInv'
<1> DEFINE p == proj[s]
           stale == {i \in Items : Stale(s, nodes[p][i])}
<1>1. /\ Step(s) /\ pc[s] = "staleNodes"
      /\ nodes' = [nodes EXCEPT ![p] = [i \in Items |-> IF i \in stale THEN None ELSE nodes[p][i]]]
      /\ rels' = [rels EXCEPT ![p] =
                    [e \in Edges |-> IF Ends(e) \cap stale # {} THEN None ELSE rels[p][e]]]
      /\ pc' = [pc EXCEPT ![s] = "done"]
      /\ UNCHANGED <<settings, collection, points, identity, todo, links, undisturbed>>
  BY DEF Step, DeleteStaleNodes, Goto, IInv, Ranges
<1>2. /\ p \in Projects /\ items' = items /\ edges' = edges /\ proj' = proj
      /\ neo4j' = neo4j /\ pc'[s] = "done" /\ neo4j = "deleteMissing"
  BY <1>1, WritersStay DEF IInv, Ranges, Sound, identity
<1>3. \A i \in Items : i \in stale <=> Stale(s, nodes[p][i])
  OBVIOUS
<1> HIDE DEF p, stale
<1>4. \A q \in Projects, i \in Items :
        nodes'[q][i] = IF q = p /\ i \in stale THEN None ELSE nodes[q][i]
  BY <1>1, <1>2 DEF IInv, Ranges
<1>5. \A q \in Projects, e \in Edges :
        rels'[q][e] = IF q = p /\ Ends(e) \cap stale # {} THEN None ELSE rels[q][e]
  BY <1>1, <1>2 DEF IInv, Ranges
<1>6. Ranges'
  <2>1. /\ [i \in Items |-> IF i \in stale THEN None ELSE nodes[p][i]]
             \in [Items -> Scans \cup {None}]
        /\ [e \in Edges |-> IF Ends(e) \cap stale # {} THEN None ELSE rels[p][e]]
             \in [Edges -> Scans \cup {None}]
    BY <1>2 DEF IInv, Ranges
  <2>2. /\ nodes' \in [Projects -> [Items -> Scans \cup {None}]]
        /\ rels' \in [Projects -> [Edges -> Scans \cup {None}]]
    BY <1>1, <1>2, <2>1 DEF IInv, Ranges
  <2> QED BY <1>1, <2>2 DEF IInv, Ranges, settings, identity, Locations
<1>7. Written'
  <2>1. \A e \in Edges : Ends(e) \subseteq Items
    BY ScanSyncAssumption DEF Ends
  <2>2. \A q \in Projects, e \in Edges : rels'[q][e] # None =>
          \A i \in Ends(e) : nodes'[q][i] # None
    BY <1>4, <1>5, <2>1 DEF IInv, Written
  <2>3. /\ points' = points /\ proj' = proj /\ items' = items /\ edges' = edges
        /\ collection' = collection
    BY <1>1 DEF identity
  <2>4. \A w \in Scans : pc[w] # "idle" => pc'[w] # "idle"
    BY <1>1, WritersStay
  <2>5. \A q \in Projects, i \in Items : points'[q][i] # None =>
          LET w == points'[q][i] IN pc'[w] # "idle" /\ proj'[w] = q /\ i \in items'[w]
    BY <2>3, <2>4 DEF IInv, Ranges, Written
  <2>6. \A q \in Projects, i \in Items : nodes'[q][i] # None =>
          LET w == nodes'[q][i] IN pc'[w] # "idle" /\ proj'[w] = q /\ i \in items'[w]
    BY <1>4, <2>3, <2>4 DEF IInv, Ranges, Written
  <2>7. \A q \in Projects, e \in Edges : rels'[q][e] # None =>
          LET w == rels'[q][e] IN pc'[w] # "idle" /\ proj'[w] = q /\ e \in edges'[w]
    BY <1>5, <2>3, <2>4 DEF IInv, Ranges, Written
  <2> QED BY <2>2, <2>3, <2>5, <2>6, <2>7 DEF IInv, Written
<1>8. ASSUME undisturbed[s] PROVE Progress(s)'
  <2>1. GraphSoFar(s) /\ (Twin(s)' <=> Twin(s))
    BY <1>1, <1>8, StepTwins DEF IInv, Progress, Running
  <2>2. /\ \A i \in Items : nodes'[p][i] = IF i \in stale THEN None ELSE nodes[p][i]
        /\ \A e \in Edges : rels'[p][e] = IF Ends(e) \cap stale # {} THEN None ELSE rels[p][e]
    BY <1>2, <1>4, <1>5
  <2>3. /\ Linked(s)' = Linked(s) /\ Linked(s) \subseteq Edges /\ items[s] \subseteq Items
        /\ edges[s] \subseteq Edges
    BY <1>2 DEF Linked, IInv, Ranges
  <2>4. \A i \in items[s] : nodes[p][i] = s /\ i \notin stale
    BY <1>1, <1>3, <2>1, <2>3, StaleIsRest DEF GraphSoFar, p
  <2>5. \A i \in items[s] : nodes'[p][i] = s
    BY <2>2, <2>3, <2>4
  <2>6. ASSUME ~Twin(s), NEW i \in Items, i \notin items[s]
        PROVE  nodes'[p][i] = None
    <3>1. nodes[p][i] \in Scans \cup {None}
      BY <1>2, <2>6 DEF IInv, Ranges
    <3>2. nodes[p][i] # None =>
            pc[nodes[p][i]] # "idle" /\ proj[nodes[p][i]] = p /\ i \in items[nodes[p][i]]
      BY <1>2, <2>6 DEF IInv, Written
    <3> QED BY <1>3, <2>2, <2>6, <3>1, <3>2, StaleIsRest DEF p
  <2>7. ASSUME ~Twin(s), NEW e \in Edges
        PROVE  rels'[p][e] = IF e \in Linked(s) THEN s ELSE None
    <3>1. CASE e \in Linked(s)
      <4>1. Ends(e) \cap stale = {} /\ rels[p][e] = s
        BY <1>1, <2>1, <2>4, <3>1 DEF GraphSoFar, Linked, p
      <4> QED BY <2>2, <3>1, <4>1
    <3>2. CASE e \notin Linked(s) /\ rels[p][e] = s
      <4>1. e \in edges[s]
        BY <1>2, <3>2, ScanSyncAssumption DEF IInv, Written
      <4>2. PICK i \in Ends(e) : i \notin items[s]
        BY <3>2, <4>1 DEF Linked
      <4>3. i \in Items
        BY <4>2, ScanSyncAssumption DEF Ends
      <4>4. nodes[p][i] # None
        BY <1>2, <3>2, <4>2, ScanSyncAssumption DEF IInv, Written
      <4>5. nodes'[p][i] = None
        BY <2>6, <2>7, <4>2, <4>3
      <4>6. i \in stale
        BY <2>2, <4>3, <4>4, <4>5
      <4> QED BY <2>2, <3>2, <4>2, <4>6
    <3>3. CASE e \notin Linked(s) /\ rels[p][e] = None
      BY <2>2, <3>3
    <3>4. rels[p][e] \in {None, s}
      BY <1>1, <2>1, <2>7 DEF GraphSoFar, p
    <3> QED BY <3>1, <3>2, <3>3, <3>4
  <2>8. GraphSoFar(s)'
    BY <1>2, <2>1, <2>3, <2>5, <2>6, <2>7 DEF GraphSoFar, p
  <2>9. VectorsSoFar(s)' /\ VectorsStay(s)'
    BY <1>1, <1>2, <1>8, VectorsKept DEF Graphs
  <2> QED BY <2>8, <2>9 DEF Progress
<1> QED BY <1>1, <1>2, <1>6, <1>7, <1>8, StepKeeps

-----------------------------------------------------------------------------
(* Theorems *)

LEMMA NextIInv == IInv /\ [Next]_vars => IInv'
<1> SUFFICES ASSUME IInv, [Next]_vars PROVE IInv'
  OBVIOUS
<1>1. CASE UNCHANGED vars
  <2>1. \A s \in Scans : Linked(s)' = Linked(s) /\ (Twin(s)' <=> Twin(s))
    BY <1>1 DEF vars, identity, Linked, Twin
  <2>2. \A s \in Scans : Progress(s) => Progress(s)'
    BY <1>1, <2>1, ProgressStays DEF vars, settings, stores, identity
  <2> QED BY <1>1, <2>2 DEF vars, settings, stores, identity, IInv, Ranges, Sound, Written,
                            NoRivals, Shared
<1>2. ASSUME NEW s \in Scans, Step(s) PROVE IInv'
  BY <1>2, CollectionExistsKeeps, DeleteCollectionKeeps, CreateCollectionKeeps, UpsertKeeps,
     UpsertedKeeps, ScrollKeeps, DeletePointKeeps, DeletedKeeps, ClearGraphKeeps,
     PushNodeKeeps, NodesPushedKeeps, PushEdgeKeeps, EdgesPushedKeeps, DeleteStaleRelsKeeps,
     DeleteStaleNodesKeeps, FailKeeps
     DEF Step
<1> QED BY <1>1, <1>2, BeginKeeps DEF Next

\* The invariant is inductive: a scan that nothing disturbs knows at each of its steps what
\* the stores hold for its project.
THEOREM ScansInductive == Spec => []IInv
<1> QED BY InitIInv, NextIInv, PTL DEF Spec

\* Whatever the scans, their ids and their order: when one is done that shared its data with
\* no other, the stores hold its analysis and nothing else for its project.
THEOREM ScansLeaveTheirAnalysis == Spec => []SoloExact
<1>1. IInv => SoloExact
  <2> SUFFICES ASSUME IInv, NEW s \in Scans, pc[s] = "done", Solo(s)
               PROVE  /\ qdrant # "add" => Only(points[proj[s]], s, items[s])
                      /\ neo4j # "add" => /\ Only(nodes[proj[s]], s, items[s])
                                          /\ Only(rels[proj[s]], s, Linked(s))
    BY DEF SoloExact
  <2>1. Progress(s) /\ ~Twin(s) /\ proj[s] \in Projects
    BY DEF IInv, Solo, Sound
  <2>2. /\ DOMAIN points[proj[s]] = Items /\ DOMAIN nodes[proj[s]] = Items
        /\ DOMAIN rels[proj[s]] = Edges
    BY <2>1 DEF IInv, Ranges
  <2>3. qdrant # "add" => Only(points[proj[s]], s, items[s])
    BY <2>1, <2>2 DEF Progress, VectorsStay, Only, IInv, Ranges, Modes
  <2>4. neo4j # "add" => /\ Only(nodes[proj[s]], s, items[s])
                         /\ Only(rels[proj[s]], s, Linked(s))
    BY <2>1, <2>2 DEF Progress, GraphSoFar, Only, IInv, Ranges, Modes
  <2> QED BY <2>3, <2>4
<1> QED BY <1>1, ScansInductive, PTL

\* The graph of a scan is never ahead of its documents, when it failed half way included.
THEOREM VectorsComeFirst == Spec => []GraphFollowsVectors
<1>1. IInv => GraphFollowsVectors
  <2> SUFFICES ASSUME IInv, NEW s \in Scans, Solo(s), NEW j \in Items,
                      nodes[proj[s]][j] = s, NEW i \in items[s]
               PROVE  points[proj[s]][i] = s
    BY DEF GraphFollowsVectors
  <2> QED BY DEF IInv, Solo, Progress, VectorsStay
<1> QED BY <1>1, ScansInductive, PTL

\* What NoGap asks of a step, for one scan.
Kept(s) ==
    LET p == proj[s] IN
    /\ qdrant # "recreate" =>
           \A i \in items[s] : points[p][i] # None => points'[p][i] # None
    /\ neo4j # "recreate" =>
           /\ \A i \in items[s] : nodes[p][i] # None => nodes'[p][i] # None
           /\ \A e \in Linked(s) : rels[p][e] # None => rels'[p][e] # None

\* Overwriting one entry with a scan loses nothing.
LEMMA WriteKeeps ==
    ASSUME NEW D, NEW f \in [Projects -> [D -> Scans \cup {None}]],
           NEW p \in Projects, NEW x \in D, NEW s \in Scans, NEW y \in D, f[p][y] # None
    PROVE  [f EXCEPT ![p][x] = s][p][y] # None
BY ScanSyncAssumption

\* A scan's own steps keep what its analysis has.
LEMMA OwnStepKeeps ==
    ASSUME IInv, NEW s \in Scans, Step(s), undisturbed[s]
    PROVE  Kept(s)
<1> DEFINE p == proj[s]
<1>1. /\ p \in Projects /\ Progress(s) /\ pc[s] # "idle"
      /\ items[s] \subseteq Items /\ Linked(s) \subseteq Edges /\ edges[s] \subseteq Edges
  BY WritersStay DEF IInv, Ranges, Linked
<1>2. CASE points' = points /\ nodes' = nodes /\ rels' = rels
  BY <1>2 DEF Kept
<1>3. CASE DeleteCollection(s)
  BY <1>3 DEF DeleteCollection, Kept, IInv, Sound
<1>4. CASE Upsert(s)
  <2>1. First(todo[s]) \in Items
    BY <1>4, FirstIsMember DEF Upsert, IInv, Ranges
  <2>2. points' = [points EXCEPT ![p][First(todo[s])] = s] /\ nodes' = nodes /\ rels' = rels
    BY <1>4 DEF Upsert, Write
  <2>3. \A i \in Items : points[p][i] # None => points'[p][i] # None
    BY <1>1, <2>1, <2>2, WriteKeeps DEF IInv, Ranges
  <2> QED BY <1>1, <2>2, <2>3 DEF Kept
<1>5. CASE DeletePoint(s)
  <2>1. First(todo[s]) \in todo[s] /\ First(todo[s]) \in Items
    BY <1>5, FirstIsMember DEF DeletePoint, IInv, Ranges
  <2>2. /\ points' = [points EXCEPT ![p][First(todo[s])] = None]
        /\ nodes' = nodes /\ rels' = rels
    BY <1>5 DEF DeletePoint
  <2>3. First(todo[s]) \notin items[s]
    BY <1>1, <1>5, <2>1 DEF DeletePoint, Progress, VectorsSoFar
  <2>4. \A i \in items[s] : points'[p][i] = points[p][i]
    BY <1>1, <2>1, <2>2, <2>3 DEF IInv, Ranges
  <2> QED BY <2>2, <2>4 DEF Kept
<1>6. CASE ClearGraph(s)
  BY <1>6 DEF ClearGraph, Kept, IInv, Sound
<1>7. CASE PushNode(s)
  <2>1. First(todo[s]) \in Items
    BY <1>7, FirstIsMember DEF PushNode, IInv, Ranges
  <2>2. nodes' = [nodes EXCEPT ![p][First(todo[s])] = s] /\ points' = points /\ rels' = rels
    BY <1>7 DEF PushNode, Write
  <2>3. \A i \in Items : nodes[p][i] # None => nodes'[p][i] # None
    BY <1>1, <2>1, <2>2, WriteKeeps DEF IInv, Ranges
  <2> QED BY <1>1, <2>2, <2>3 DEF Kept
<1>8. CASE PushEdge(s)
  <2>1. PICK x \in links[s] : rels' = [rels EXCEPT ![p][x] = s] \/ rels' = rels
    BY <1>8 DEF PushEdge, Write
  <2>2. points' = points /\ nodes' = nodes /\ x \in Edges
    BY <1>8 DEF PushEdge, IInv, Ranges
  <2>3. \A e \in Edges : rels[p][e] # None => rels'[p][e] # None
    BY <1>1, <2>1, <2>2, WriteKeeps DEF IInv, Ranges
  <2> QED BY <1>1, <2>2, <2>3 DEF Kept
<1>9. CASE DeleteStaleRels(s)
  <2>1. \A e \in Edges : rels'[p][e] = IF Stale(s, rels[p][e]) THEN None ELSE rels[p][e]
    BY <1>1, <1>9 DEF DeleteStaleRels, IInv, Ranges
  <2>2. \A e \in Linked(s) : rels[p][e] = s
    BY <1>1, <1>9 DEF DeleteStaleRels, Progress, GraphSoFar
  <2>3. points' = points /\ nodes' = nodes
    BY <1>9 DEF DeleteStaleRels
  <2> QED BY <1>1, <2>1, <2>2, <2>3, StaleIsRest DEF Kept
<1>10. CASE DeleteStaleNodes(s)
  <2> DEFINE stale == {i \in Items : Stale(s, nodes[p][i])}
  <2>1. /\ \A i \in Items : nodes'[p][i] = IF i \in stale THEN None ELSE nodes[p][i]
        /\ \A e \in Edges : rels'[p][e] = IF Ends(e) \cap stale # {} THEN None ELSE rels[p][e]
    BY <1>1, <1>10 DEF DeleteStaleNodes, IInv, Ranges
  <2>2. \A i \in items[s] : nodes[p][i] = s
    BY <1>1, <1>10 DEF DeleteStaleNodes, Progress, GraphSoFar
  <2>3. \A i \in items[s] : i \notin stale
    BY <2>2, StaleIsRest
  <2>4. \A e \in Linked(s) : Ends(e) \cap stale = {}
    BY <2>3 DEF Linked
  <2>5. points' = points
    BY <1>10 DEF DeleteStaleNodes
  <2> QED BY <1>1, <2>1, <2>3, <2>4, <2>5 DEF Kept
<1> QED BY <1>2, <1>3, <1>4, <1>5, <1>6, <1>7, <1>8, <1>9, <1>10
        DEF Step, CollectionExists, CreateCollection, Upserted, Scroll, Deleted, NodesPushed,
            EdgesPushed, Fail, stores

\* A scan that nothing disturbs never leaves a gap: no step of it or of another takes away
\* what was stored and is in its analysis.
THEOREM ScansLeaveNoGap == Spec => NoGap
<1> DEFINE A == \A s \in Scans :
                  LET p == proj[s] IN
                  pc[s] \in Running /\ undisturbed[s] /\ undisturbed'[s] =>
                  /\ qdrant # "recreate" =>
                       \A i \in items[s] : points[p][i] # None => points'[p][i] # None
                  /\ neo4j # "recreate" =>
                       /\ \A i \in items[s] : nodes[p][i] # None => nodes'[p][i] # None
                       /\ \A e \in Linked(s) : rels[p][e] # None => rels'[p][e] # None
<1>1. IInv /\ [Next]_vars => A
  <2> SUFFICES ASSUME IInv, [Next]_vars, NEW s \in Scans, pc[s] \in Running, undisturbed[s]
               PROVE  Kept(s)
    BY DEF Kept
  <2>1. pc[s] # "idle"
    BY DEF Running
  <2>2. CASE points' = points /\ nodes' = nodes /\ rels' = rels
    BY <2>2 DEF Kept
  <2>3. ASSUME NEW u \in Scans, Step(u), u # s PROVE Kept(s)
    <3>1. ~Shared(u, proj[s])
      BY <2>1, <2>3, StepRuns DEF IInv, NoRivals
    <3>2. proj[s] \in Projects
      BY <2>1 DEF IInv, Sound
    <3> QED BY <2>3, <3>1, <3>2, StepInProject DEF Shared, Kept
  <2>4. ASSUME NEW u \in Scans, NEW p \in Projects, NEW id \in ScanIds,
               NEW is \in SUBSET Items, NEW es \in SUBSET Edges, Begin(u, p, id, is, es)
        PROVE  Kept(s)
    BY <2>2, <2>4 DEF Begin, stores
  <2> QED BY <2>2, <2>3, <2>4, OwnStepKeeps DEF Next, vars, stores
<1> QED BY <1>1, ScansInductive, PTL DEF Spec, NoGap
=============================================================================
