---------------------------- MODULE CloneStore ----------------------------
(***************************************************************************)
(* The clones of GitLab projects on the disk of the Java parser            *)
(* (ast-java-parser: GitLabService.java, GitLabController.java).           *)
(*                                                                         *)
(* A request clones its project unless the directory already holds a .git, *)
(* touches the clone and analyses it in two passes.  A scheduled cleanup   *)
(* deletes clones that nobody touched for the retention time.  Nothing     *)
(* locks the file system: both work on it entry by entry.                  *)
(*                                                                         *)
(* The entries of a clone are numbers in the order of their names: Git is  *)
(* 0, dot files that sort before it are negative, all others positive.  A  *)
(* recursive delete goes from the greatest to the least.                   *)
(***************************************************************************)
EXTENDS Integers, FiniteSets

CONSTANTS
    Threads,      \* threads that serve requests
    Projects,
    DotFiles,     \* entries before .git
    Sources,      \* entries the first pass of an analysis looks for
    Resources,    \* entries the second pass looks for
    Retention,    \* clone-retention-ms
    MaxTime,      \* bound: the clock
    MaxRequests,  \* bound: requests
    MaxFailures,  \* bound: deletes that fail, and restarts
    None          \* no project

Git == 0
All == DotFiles \cup {Git} \cup Sources \cup Resources

ASSUME CloneStoreAssumption ==
    /\ IsFiniteSet(All)
    /\ \A e \in DotFiles : e \in Int /\ e < Git
    /\ \A e \in Sources \cup Resources : e \in Int /\ e > Git
    /\ Retention \in Nat
    /\ {MaxTime, MaxRequests, MaxFailures} \subseteq Nat
    /\ None \notin Projects

VARIABLES
    tree,      \* the entries on disk of each project's directory
    mtime,     \* modification time of that directory
    now,
    pc, proj,  \* what each thread does next, and for which project
    seen,      \* entries its analysis has found
    touched,   \* when it touched the clone
    whole,     \* history: was the clone complete then, and not in progress
    doomed,    \* history: had the cleanup decided to delete it by then
    round,     \* what the cleanup does next
    cutoff,    \* clones modified before this time have expired
    toCheck,   \* clones the round has yet to look at
    victim,    \* the clone it is deleting, or None
    doomedEntries,  \* entries it has yet to delete
    broken,    \* history: a delete or clone of the project stopped half way
    requests, failures

disk == <<tree, mtime>>
analysis == <<proj, seen, touched, whole, doomed>>
cleanup == <<round, cutoff, toCheck, victim, doomedEntries>>
counters == <<requests, failures>>
vars == <<disk, now, pc, analysis, cleanup, broken, counters>>

Cloning(p) == \E t \in Threads : pc[t] = "checkout" /\ proj[t] = p

Last(S) == CHOOSE e \in S : \A f \in S : f <= e

Init ==
    /\ tree = [p \in Projects |-> {}]
    /\ mtime = [p \in Projects |-> 0]
    /\ now = 0
    /\ pc = [t \in Threads |-> "idle"]
    /\ proj = [t \in Threads |-> None]
    /\ seen = [t \in Threads |-> {}]
    /\ touched = [t \in Threads |-> 0]
    /\ whole = [t \in Threads |-> FALSE]
    /\ doomed = [t \in Threads |-> FALSE]
    /\ round = "waiting"
    /\ cutoff = 0
    /\ toCheck = {}
    /\ victim = None
    /\ doomedEntries = {}
    /\ broken = {}
    /\ requests = 0
    /\ failures = 0

Goto(t, l) == pc' = [pc EXCEPT ![t] = l]

\* An entry of a directory appears or goes: the directory is modified.
Modify(p, entries) ==
    /\ tree' = [tree EXCEPT ![p] = entries]
    /\ mtime' = [mtime EXCEPT ![p] = now]

Tick ==
    /\ now < MaxTime
    /\ now' = now + 1
    /\ UNCHANGED <<disk, pc, analysis, cleanup, broken, counters>>

-----------------------------------------------------------------------------
(* cloneProject *)

Request(t, p) ==
    /\ pc[t] \in {"idle", "done"}
    /\ requests < MaxRequests
    /\ requests' = requests + 1
    /\ proj' = [proj EXCEPT ![t] = p]
    /\ seen' = [seen EXCEPT ![t] = {}]
    /\ Goto(t, "check")
    /\ UNCHANGED <<disk, now, touched, whole, doomed, cleanup, broken, failures>>

\* A .git directory makes a clone; anything else in the directory is refused.
CheckGit(t) ==
    LET found == tree[proj[t]] IN
    /\ pc[t] = "check"
    /\ Goto(t, IF Git \in found THEN "touch"
               ELSE IF found # {} THEN "idle" ELSE "clone")
    /\ UNCHANGED <<disk, now, analysis, cleanup, broken, counters>>

\* JGit refuses a directory with content and creates .git first.
CloneBegins(t) ==
    LET p == proj[t] IN
    /\ pc[t] = "clone"
    /\ tree[p] = {}
    /\ Modify(p, {Git})
    /\ broken' = broken \ {p}
    /\ Goto(t, "checkout")
    /\ UNCHANGED <<now, analysis, cleanup, counters>>

Checkout(t, e) ==
    LET p == proj[t] IN
    /\ pc[t] = "checkout"
    /\ Git \in tree[p]
    /\ e \notin tree[p]
    /\ Modify(p, tree[p] \cup {e})
    /\ UNCHANGED <<now, pc, analysis, cleanup, broken, counters>>

\* Mutant of CloneEnds: the clone is returned before its files are there.
CloneEndsEarly(t) ==
    /\ pc[t] = "checkout"
    /\ Goto(t, "touch")
    /\ UNCHANGED <<disk, now, analysis, cleanup, broken, counters>>

CloneEnds(t) ==
    /\ pc[t] = "checkout"
    /\ tree[proj[t]] = All
    /\ Goto(t, "touch")
    /\ UNCHANGED <<disk, now, analysis, cleanup, broken, counters>>

\* The network, the disk or a cleanup make a clone fail; JGit removes what it
\* has fetched, or leaves what it has checked out.
CloneFails(t) ==
    LET p == proj[t] IN
    /\ pc[t] = "checkout"
    /\ Goto(t, "idle")
    /\ \/ Modify(p, {}) /\ UNCHANGED broken
       \/ broken' = broken \cup {p} /\ UNCHANGED disk
    /\ UNCHANGED <<now, analysis, cleanup, counters>>

\* Mutant of Touch: the modification time stays.
TouchNothing(t) ==
    LET p == proj[t] IN
    /\ pc[t] = "touch"
    /\ touched' = [touched EXCEPT ![t] = now]
    /\ whole' = [whole EXCEPT ![t] = tree[p] = All /\ ~Cloning(p)]
    /\ doomed' = [doomed EXCEPT ![t] = victim = p]
    /\ Goto(t, "sources")
    /\ UNCHANGED <<disk, now, proj, seen, cleanup, broken, counters>>

\* touchCloneTree, whether the clone is new or found.
Touch(t) ==
    LET p == proj[t] IN
    /\ pc[t] = "touch"
    /\ mtime' = [mtime EXCEPT ![p] = now]
    /\ touched' = [touched EXCEPT ![t] = now]
    /\ whole' = [whole EXCEPT ![t] = tree[p] = All /\ ~Cloning(p)]
    /\ doomed' = [doomed EXCEPT ![t] = victim = p]
    /\ Goto(t, "sources")
    /\ UNCHANGED <<tree, now, proj, seen, cleanup, broken, counters>>

-----------------------------------------------------------------------------
(* analyzeProject *)

\* Each pass lists its files and reads them; a clone request ends without.
FindSources(t) ==
    /\ pc[t] = "sources"
    /\ tree[proj[t]] # {}
    /\ seen' = [seen EXCEPT ![t] = tree[proj[t]] \cap Sources]
    /\ Goto(t, "resources")
    /\ UNCHANGED <<disk, now, proj, touched, whole, doomed, cleanup, broken,
                   counters>>

FindResources(t) ==
    /\ pc[t] = "resources"
    /\ tree[proj[t]] # {}
    /\ seen' = [seen EXCEPT ![t] = @ \cup (tree[proj[t]] \cap Resources)]
    /\ Goto(t, "done")
    /\ UNCHANGED <<disk, now, proj, touched, whole, doomed, cleanup, broken,
                   counters>>

\* A request ends early: the project is unknown, its clone is refused or gone,
\* a file cannot be read or parsed, or only a clone was asked for.
RequestFails(t) ==
    /\ pc[t] \in {"check", "clone", "touch", "sources", "resources"}
    /\ Goto(t, "idle")
    /\ UNCHANGED <<disk, now, analysis, cleanup, broken, counters>>

-----------------------------------------------------------------------------
(* cleanupExpiredClones, in the one thread of the scheduler *)

\* Mutant of RoundBegins: clones are given twice the retention time.
RoundBeginsLate ==
    /\ round = "waiting"
    /\ round' = "checking"
    /\ cutoff' = now - 2 * Retention
    /\ toCheck' = {p \in Projects : Git \in tree[p]}
    /\ UNCHANGED <<disk, now, pc, analysis, victim, doomedEntries, broken,
                   counters>>

RoundBegins ==
    /\ round = "waiting"
    /\ round' = "checking"
    /\ cutoff' = now - Retention
    /\ toCheck' = {p \in Projects : Git \in tree[p]}
    /\ UNCHANGED <<disk, now, pc, analysis, victim, doomedEntries, broken,
                   counters>>

\* Expired clones are deleted: their entries are listed first.
CheckExpired(p) ==
    /\ round = "checking"
    /\ p \in toCheck
    /\ toCheck' = toCheck \ {p}
    /\ IF tree[p] # {} /\ mtime[p] < cutoff
       THEN round' = "deleting" /\ victim' = p /\ doomedEntries' = tree[p]
       ELSE UNCHANGED <<round, victim, doomedEntries>>
    /\ UNCHANGED <<disk, now, pc, analysis, cutoff, broken, counters>>

\* The directory is gone since it was listed: the round is abandoned.
CheckFails(p) ==
    /\ round = "checking"
    /\ p \in toCheck
    /\ tree[p] = {}
    /\ round' = "waiting"
    /\ toCheck' = {}
    /\ UNCHANGED <<disk, now, pc, analysis, cutoff, victim, doomedEntries, broken,
                   counters>>

DeleteEntry ==
    LET e == Last(doomedEntries) IN
    /\ round = "deleting"
    /\ doomedEntries # {}
    /\ doomedEntries' = doomedEntries \ {e}
    /\ IF e \in tree[victim] THEN Modify(victim, tree[victim] \ {e})
                             ELSE UNCHANGED disk
    /\ UNCHANGED <<now, pc, analysis, round, cutoff, toCheck, victim, broken,
                   counters>>

\* The directory goes last, which fails when a clone has put entries there.
DeleteEnds ==
    /\ round = "deleting"
    /\ doomedEntries = {}
    /\ round' = "checking"
    /\ broken' = IF tree[victim] = {} THEN broken ELSE broken \cup {victim}
    /\ victim' = None
    /\ UNCHANGED <<disk, now, pc, analysis, cutoff, toCheck, doomedEntries,
                   counters>>

\* A delete that fails after its retries is logged; the round goes on.
DeleteFails ==
    /\ round = "deleting"
    /\ doomedEntries # {}
    /\ failures < MaxFailures
    /\ failures' = failures + 1
    /\ round' = "checking"
    /\ broken' = broken \cup {victim}
    /\ victim' = None
    /\ doomedEntries' = {}
    /\ UNCHANGED <<disk, now, pc, analysis, cutoff, toCheck, requests>>

\* pruneEmptyDirectories removes what holds no entry of any clone.
RoundEnds ==
    /\ round = "checking"
    /\ toCheck = {}
    /\ round' = "waiting"
    /\ UNCHANGED <<disk, now, pc, analysis, cutoff, toCheck, victim,
                   doomedEntries, broken, counters>>

\* The process dies and starts again; the cleanup at the start deletes the
\* clones in the order of a recursive delete, or stops at one that fails.
Restart(left) ==
    /\ failures < MaxFailures
    /\ failures' = failures + 1
    /\ tree' = [p \in Projects |-> {e \in tree[p] : e <= left[p]}]
    /\ mtime' = [p \in Projects |-> IF tree'[p] = tree[p] THEN mtime[p] ELSE now]
    /\ broken' = {p \in Projects : tree'[p] # {}}
    /\ pc' = [t \in Threads |-> "idle"]
    /\ round' = "waiting"
    /\ toCheck' = {}
    /\ victim' = None
    /\ doomedEntries' = {}
    /\ UNCHANGED <<now, analysis, cutoff, requests>>

-----------------------------------------------------------------------------
Serve(t) ==
    \/ CheckGit(t) \/ CloneBegins(t) \/ CloneEnds(t) \/ CloneFails(t)
    \/ \E e \in All : Checkout(t, e)
    \/ Touch(t) \/ FindSources(t) \/ FindResources(t) \/ RequestFails(t)

CleanUp ==
    \/ RoundBegins \/ RoundEnds
    \/ \E p \in Projects : CheckExpired(p) \/ CheckFails(p)
    \/ DeleteEntry \/ DeleteEnds \/ DeleteFails

\* Where a recursive delete may stop: before everything, or after an entry.
Stops == {Last(All)} \cup {e - 1 : e \in All}

Next ==
    \/ Tick
    \/ \E t \in Threads : Serve(t) \/ \E p \in Projects : Request(t, p)
    \/ CleanUp
    \/ \E left \in [Projects -> Stops] : Restart(left)

\* The scheduler starts the cleanup again and again.
Spec == Init /\ [][Next]_vars /\ WF_vars(CleanUp)
=============================================================================
