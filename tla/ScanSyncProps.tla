--------------------------- MODULE ScanSyncProps ---------------------------
(***************************************************************************)
(* What a scan of a project leaves in the stores, and what searches of the *)
(* stores see while it runs.                                               *)
(***************************************************************************)
EXTENDS ScanSync

\* The analysis of a scan as the graph can hold it.
Linked(s) == {e \in edges[s] : Ends(e) \subseteq items[s]}

\* A function that holds s at the members of S and nothing elsewhere.
Only(f, s, S) == \A x \in DOMAIN f : f[x] = IF x \in S THEN s ELSE None

\* Another scan of the project has the same scan id.
Twin(s) == \E u \in Scans \ {s} : /\ pc[u] # "idle"
                                 /\ proj[u] = proj[s]
                                 /\ stamp[u] = stamp[s]

Solo(s) == pc[s] # "idle" /\ undisturbed[s] /\ ~Twin(s)

\* When a scan is done and no scan that shares its data ran meanwhile, the
\* stores hold exactly its analysis for its project, whatever earlier scans
\* left there, finished or failed, and whatever scans of other projects did.
SoloExact == \A s \in Scans :
    pc[s] = "done" /\ Solo(s) =>
        /\ qdrant # "add" => Only(points[proj[s]], s, items[s])
        /\ neo4j # "add" => /\ Only(nodes[proj[s]], s, items[s])
                            /\ Only(rels[proj[s]], s, Linked(s))

\* The graph never runs ahead of the vectors: a node of a scan without rivals
\* is there only when every document of the scan is, failures included.
GraphFollowsVectors == \A s \in Scans :
    Solo(s) /\ (\E i \in Items : nodes[proj[s]][i] = s)
        => \A i \in items[s] : points[proj[s]][i] = s

\* A rescan replaces in place: while a scan without rivals runs, a component or
\* link that was stored and is in its analysis too is never missing from the
\* stores, not even for the time between two calls.
NoGap == [][\A s \in Scans :
    LET p == proj[s] IN
    pc[s] \in Running /\ undisturbed[s] /\ undisturbed'[s] =>
        /\ qdrant # "recreate" =>
               \A i \in items[s] : points[p][i] # None => points'[p][i] # None
        /\ neo4j # "recreate" =>
               /\ \A i \in items[s] : nodes[p][i] # None => nodes'[p][i] # None
               /\ \A e \in Linked(s) : rels[p][e] # None => rels'[p][e] # None
    ]_vars
=============================================================================
