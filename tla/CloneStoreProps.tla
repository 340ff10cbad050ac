-------------------------- MODULE CloneStoreProps --------------------------
(* What requests and the cleanup may rely on. *)
EXTENDS CloneStore

\* A touch protects a clone for the retention time: an analysis that touched a
\* complete clone before the cleanup had decided about it, and that ends within
\* the retention time, has found every file in both of its passes.
TouchProtects == \A t \in Threads :
    /\ pc[t] = "done"
    /\ whole[t]
    /\ ~doomed[t]
    => seen[t] = Sources \cup Resources \/ now > touched[t] + Retention

\* A directory with a .git but not all files, which requests take for a clone,
\* and one with files but no .git, which requests refuse, are explained: a
\* clone or a delete is under way, or an earlier one stopped half way.
PartialExplained == \A p \in Projects :
    tree[p] \notin {{}, All} => Cloning(p) \/ victim = p \/ p \in broken

\* A clone that has expired is deleted, unless it is touched: a delete
\* that fails half way, or the restart of the process, only delays that.
Expired(p) == Git \in tree[p] /\ mtime[p] < now - Retention
ExpiredGoes == \A p \in Projects : Expired(p) ~> ~Expired(p)
=============================================================================
