-------------------------- MODULE CloneStoreProofs --------------------------
(***************************************************************************)
(* Proofs about CloneStore for any number of threads, projects and entries *)
(* and any retention time: what a touch protects, and why a partial tree   *)
(* exists.                                                                 *)
(***************************************************************************)
EXTENDS CloneStoreProps, TLAPS

Steps == {"idle", "check", "clone", "checkout", "touch", "sources", "resources", "done"}

Ranges ==
    /\ tree \in [Projects -> SUBSET All]
    /\ mtime \in [Projects -> Int]
    /\ now \in Int
    /\ pc \in [Threads -> Steps]
    /\ proj \in [Threads -> Projects \cup {None}]
    /\ \A t \in Threads : pc[t] # "idle" => proj[t] # None
    /\ DOMAIN seen = Threads
    /\ touched \in [Threads -> Int]
    /\ whole \in [Threads -> BOOLEAN]
    /\ doomed \in [Threads -> BOOLEAN]
    /\ cutoff \in Int

\* The cleanup looks at clones by a time that is no later than the retention time
\* ago, and has a victim exactly while it deletes.
CleanupSound ==
    /\ round \in {"waiting", "checking", "deleting"}
    /\ round # "waiting" => cutoff <= now - Retention
    /\ IF round = "deleting" THEN victim \in Projects ELSE victim = None
    /\ toCheck \subseteq Projects

\* An analysis that a touch is to protect.
Young(t) == whole[t] /\ ~doomed[t] /\ now <= touched[t] + Retention

\* A clone that nobody is about to change: no thread clones it, the cleanup is not
\* at it, and has no reason to begin.
Shielded(t) ==
    /\ proj[t] \in Projects
    /\ tree[proj[t]] = All
    /\ ~Cloning(proj[t])
    /\ victim # proj[t]
    /\ mtime[proj[t]] >= touched[t]

Protected(t) ==
    /\ touched[t] <= now
    /\ Young(t) => /\ pc[t] \in {"sources", "resources"} => Shielded(t)
                   /\ pc[t] = "resources" => seen[t] = Sources
                   /\ pc[t] = "done" => seen[t] = Sources \cup Resources

\* The inductive invariant.
IInv ==
    /\ Ranges
    /\ CleanupSound
    /\ PartialExplained
    /\ \A t \in Threads : Protected(t)

LEMMA InitIInv == Init => IInv
BY CloneStoreAssumption
   DEF Init, IInv, Ranges, CleanupSound, PartialExplained, Protected, Young, Shielded,
       Steps

-----------------------------------------------------------------------------
\* A step that another thread takes leaves an analysis as protected as it was if it
\* leaves shielded clones shielded.
LEMMA ProtectedKept ==
    ASSUME IInv, NEW t \in Threads,
           pc'[t] = pc[t], proj'[t] = proj[t], seen'[t] = seen[t],
           touched'[t] = touched[t], whole'[t] = whole[t], doomed'[t] = doomed[t],
           now' \in Int, now' >= now,
           Young(t)' /\ Shielded(t) => Shielded(t)'
    PROVE  Protected(t)'
<1>1. touched[t] \in Int /\ now \in Int /\ Retention \in Int /\ Protected(t)
  BY CloneStoreAssumption DEF IInv, Ranges
<1>2. Young(t)' => Young(t)
  BY <1>1 DEF Young
<1> QED BY <1>1, <1>2 DEF Protected

\* Steps of threads that change neither the disk nor who clones.
LEMMA ShieldKept ==
    ASSUME NEW t \in Threads, NEW s \in Threads, t # s,
           UNCHANGED <<disk, victim>>, proj'[t] = proj[t], touched'[t] = touched[t],
           NEW new \in Steps \ {"checkout"}, IInv, pc' = [pc EXCEPT ![s] = new],
           \A r \in Threads : r # s => proj'[r] = proj[r],
           Shielded(t)
    PROVE  Shielded(t)'
<1>1. \A r \in Threads : pc'[r] = "checkout" => pc[r] = "checkout" /\ proj'[r] = proj[r]
  BY DEF IInv, Ranges
<1> QED BY <1>1 DEF Shielded, Cloning, disk

\* A thread goes on and nothing else changes.
LEMMA Goes ==
    ASSUME IInv, NEW s \in Threads, NEW new \in Steps \ {"checkout"},
           Goto(s, new), UNCHANGED <<disk, now, analysis, cleanup, broken>>,
           pc[s] = "checkout" => tree[proj[s]] = All, pc[s] # "idle",
           new \notin {"sources", "resources", "done"}
    PROVE  IInv'
<1>1. Ranges'
  BY DEF IInv, Ranges, Goto, disk, analysis, cleanup
<1>2. CleanupSound'
  BY DEF IInv, CleanupSound, cleanup
<1>3. PartialExplained'
  BY DEF IInv, Ranges, PartialExplained, Cloning, Goto, disk, analysis, cleanup
<1>4. \A t \in Threads : Protected(t)'
  <2> SUFFICES ASSUME NEW t \in Threads PROVE Protected(t)'
    OBVIOUS
  <2>1. CASE t = s
    BY <2>1 DEF IInv, Ranges, Goto, Protected, analysis, Young
  <2>2. CASE t # s
    <3>1. Shielded(t) => Shielded(t)'
      BY <2>2, ShieldKept DEF Goto, analysis, cleanup
    <3>2. now' \in Int /\ now' >= now
      BY DEF IInv, Ranges
    <3> QED BY <2>2, <3>1, <3>2, ProtectedKept DEF Goto, analysis, IInv, Ranges
  <2> QED BY <2>1, <2>2
<1> QED BY <1>1, <1>2, <1>3, <1>4 DEF IInv

\* A request starts a thread.
LEMMA RequestKeeps ==
    ASSUME IInv, NEW s \in Threads, NEW p \in Projects, Request(s, p)
    PROVE  IInv'
<1>1. Ranges'
  BY CloneStoreAssumption DEF IInv, Ranges, Request, Steps, disk, cleanup, Goto
<1>2. CleanupSound'
  BY DEF IInv, Ranges, CleanupSound, Request, disk, cleanup, Goto
<1>3. PartialExplained'
  BY DEF IInv, Ranges, CleanupSound, PartialExplained, Cloning, Request, disk, cleanup,
         Goto
<1>4. \A t \in Threads : Protected(t)'
  <2> SUFFICES ASSUME NEW t \in Threads PROVE Protected(t)'
    OBVIOUS
  <2>1. CASE t = s
    BY <2>1 DEF IInv, Ranges, Request, Goto, Protected, Young, cleanup
  <2>2. CASE t # s
    <3>1. Shielded(t) /\ Young(t)' => Shielded(t)'
      BY <2>2 DEF IInv, Ranges, Request, Goto, Shielded, Cloning, disk, cleanup
    <3> QED BY <2>2, <3>1, ProtectedKept DEF Request, IInv, Ranges, disk, cleanup, Goto
  <2> QED BY <2>1, <2>2
<1> QED BY <1>1, <1>2, <1>3, <1>4 DEF IInv

\* A clone begins in an empty directory only, which no analysis under protection has.
LEMMA CloneBeginsKeeps ==
    ASSUME IInv, NEW s \in Threads, CloneBegins(s)
    PROVE  IInv'
<1>1. Ranges'
  BY CloneStoreAssumption DEF IInv, Ranges, CloneBegins, Steps, All, Modify, analysis,
                              cleanup, Goto
<1>2. CleanupSound'
  BY DEF IInv, Ranges, CleanupSound, CloneBegins, Modify, analysis, cleanup, Goto
<1>3. PartialExplained'
  BY DEF IInv, Ranges, CleanupSound, PartialExplained, Cloning, CloneBegins, Modify,
         analysis, cleanup, Goto
<1>4. \A t \in Threads : Protected(t)'
  <2> SUFFICES ASSUME NEW t \in Threads PROVE Protected(t)'
    OBVIOUS
  <2>1. CASE t = s
    BY <2>1 DEF IInv, Ranges, CloneBegins, Goto, Protected, Young, analysis
  <2>2. CASE t # s
    <3>1. Shielded(t) /\ Young(t)' => Shielded(t)'
      <4>1. Shielded(t) => proj[s] # proj[t]
        BY DEF CloneBegins, Shielded, All
      <4>2. \A r \in Threads : r # s => pc'[r] = pc[r]
        BY DEF IInv, Ranges, CloneBegins, Goto
      <4> QED BY <2>2, <4>1, <4>2
          DEF IInv, Ranges, CloneBegins, Modify, Shielded, Cloning, analysis, cleanup
    <3> QED BY <2>2, <3>1, ProtectedKept DEF CloneBegins, IInv, Ranges, Modify,
                                             analysis, cleanup, Goto
  <2> QED BY <2>1, <2>2
<1> QED BY <1>1, <1>2, <1>3, <1>4 DEF IInv

\* A file is checked out into a clone that lacks it.
LEMMA CheckoutKeeps ==
    ASSUME IInv, NEW s \in Threads, NEW e \in All, Checkout(s, e)
    PROVE  IInv'
<1>1. Ranges'
  BY DEF IInv, Ranges, Checkout, Steps, Modify, analysis, cleanup
<1>2. CleanupSound'
  BY DEF IInv, Ranges, CleanupSound, Checkout, Modify, analysis, cleanup
<1>3. PartialExplained'
  BY DEF IInv, Ranges, CleanupSound, PartialExplained, Cloning, Checkout, Modify,
         analysis, cleanup
<1>4. \A t \in Threads : Protected(t)'
  <2> SUFFICES ASSUME NEW t \in Threads PROVE Protected(t)'
    OBVIOUS
  <2>1. CASE t = s
    BY <2>1 DEF IInv, Ranges, Checkout, Protected, Young, analysis
  <2>2. CASE t # s
    <3>1. Shielded(t) /\ Young(t)' => Shielded(t)'
      BY <2>2 DEF IInv, Ranges, Checkout, Modify, Shielded, Cloning, analysis, cleanup
    <3> QED BY <2>2, <3>1, ProtectedKept DEF Checkout, IInv, Ranges, Modify, analysis,
                                             cleanup
  <2> QED BY <2>1, <2>2
<1> QED BY <1>1, <1>2, <1>3, <1>4 DEF IInv

\* A clone that fails leaves nothing, or is marked as broken.
LEMMA CloneFailsKeeps ==
    ASSUME IInv, NEW s \in Threads, CloneFails(s)
    PROVE  IInv'
<1>1. Ranges'
  BY DEF IInv, Ranges, CloneFails, Steps, Modify, analysis, cleanup, disk, Goto
<1>2. CleanupSound'
  BY DEF IInv, Ranges, CleanupSound, CloneFails, Modify, analysis, cleanup, disk, Goto
<1>3. PartialExplained'
  BY DEF IInv, Ranges, CleanupSound, PartialExplained, Cloning, CloneFails, Modify,
         analysis, cleanup, disk, Goto
<1>4. \A t \in Threads : Protected(t)'
  <2> SUFFICES ASSUME NEW t \in Threads PROVE Protected(t)'
    OBVIOUS
  <2>1. CASE t = s
    BY <2>1 DEF IInv, Ranges, CloneFails, Goto, Protected, Young, analysis
  <2>2. CASE t # s
    <3>1. Shielded(t) /\ Young(t)' => Shielded(t)'
      <4>1. Shielded(t) => proj[s] # proj[t]
        BY DEF CloneFails, Shielded, Cloning
      <4>2. \A r \in Threads : pc'[r] = "checkout" => pc[r] = "checkout"
        BY DEF IInv, Ranges, CloneFails, Goto
      <4> QED BY <2>2, <4>1, <4>2
          DEF IInv, Ranges, CloneFails, Modify, Shielded, Cloning, analysis, cleanup,
              disk
    <3> QED BY <2>2, <3>1, ProtectedKept DEF CloneFails, IInv, Ranges, Modify,
                                             analysis, cleanup, disk, Goto
  <2> QED BY <2>1, <2>2
<1> QED BY <1>1, <1>2, <1>3, <1>4 DEF IInv

\* A touch makes the clone young.
LEMMA TouchKeeps ==
    ASSUME IInv, NEW s \in Threads, Touch(s)
    PROVE  IInv'
<1>1. Ranges'
  BY DEF IInv, Ranges, Touch, Steps, cleanup, Goto
<1>2. CleanupSound'
  BY DEF IInv, Ranges, CleanupSound, Touch, cleanup, Goto
<1>3. PartialExplained'
  BY DEF IInv, Ranges, CleanupSound, PartialExplained, Cloning, Touch, cleanup, Goto
<1>4. \A t \in Threads : Protected(t)'
  <2> SUFFICES ASSUME NEW t \in Threads PROVE Protected(t)'
    OBVIOUS
  <2>1. CASE t = s
    BY <2>1 DEF IInv, Ranges, Touch, Goto, Protected, Young, Shielded, Cloning, cleanup
  <2>2. CASE t # s
    <3>1. Shielded(t) /\ Young(t)' => Shielded(t)'
      <4>1. touched[t] <= now /\ touched[t] \in Int /\ now \in Int /\ mtime \in [Projects -> Int]
        BY DEF IInv, Ranges, Protected
      <4> QED BY <2>2, <4>1 DEF IInv, Ranges, Touch, Goto, Shielded, Cloning, cleanup
    <3> QED BY <2>2, <3>1, ProtectedKept DEF Touch, IInv, Ranges, cleanup, Goto
  <2> QED BY <2>1, <2>2
<1> QED BY <1>1, <1>2, <1>3, <1>4 DEF IInv

\* The first pass of a protected analysis finds all of its files.
LEMMA FindSourcesKeeps ==
    ASSUME IInv, NEW s \in Threads, FindSources(s)
    PROVE  IInv'
<1>1. Ranges'
  BY DEF IInv, Ranges, FindSources, Steps, disk, cleanup, Goto
<1>2. CleanupSound'
  BY DEF IInv, Ranges, CleanupSound, FindSources, disk, cleanup, Goto
<1>3. PartialExplained'
  BY DEF IInv, Ranges, CleanupSound, PartialExplained, Cloning, FindSources, disk,
         cleanup, Goto
<1>4. \A t \in Threads : Protected(t)'
  <2> SUFFICES ASSUME NEW t \in Threads PROVE Protected(t)'
    OBVIOUS
  <2>1. CASE t = s
    BY <2>1 DEF IInv, Ranges, FindSources, Goto, Protected, Young, Shielded, Cloning,
                All, disk, cleanup
  <2>2. CASE t # s
    <3>1. Shielded(t) /\ Young(t)' => Shielded(t)'
      BY <2>2 DEF IInv, Ranges, FindSources, Goto, Shielded, Cloning, disk, cleanup
    <3> QED BY <2>2, <3>1, ProtectedKept DEF FindSources, IInv, Ranges, disk, cleanup,
                                             Goto
  <2> QED BY <2>1, <2>2
<1> QED BY <1>1, <1>2, <1>3, <1>4 DEF IInv

\* So does the second, and it keeps what the first has found.
LEMMA FindResourcesKeeps ==
    ASSUME IInv, NEW s \in Threads, FindResources(s)
    PROVE  IInv'
<1>1. Ranges'
  BY DEF IInv, Ranges, FindResources, Steps, disk, cleanup, Goto
<1>2. CleanupSound'
  BY DEF IInv, Ranges, CleanupSound, FindResources, disk, cleanup, Goto
<1>3. PartialExplained'
  BY DEF IInv, Ranges, CleanupSound, PartialExplained, Cloning, FindResources, disk,
         cleanup, Goto
<1>4. \A t \in Threads : Protected(t)'
  <2> SUFFICES ASSUME NEW t \in Threads PROVE Protected(t)'
    OBVIOUS
  <2>1. CASE t = s
    BY <2>1 DEF IInv, Ranges, FindResources, Goto, Protected, Young, Shielded, Cloning,
                All, disk, cleanup
  <2>2. CASE t # s
    <3>1. Shielded(t) /\ Young(t)' => Shielded(t)'
      BY <2>2 DEF IInv, Ranges, FindResources, Goto, Shielded, Cloning, disk, cleanup
    <3> QED BY <2>2, <3>1, ProtectedKept DEF FindResources, IInv, Ranges, disk,
                                             cleanup, Goto
  <2> QED BY <2>1, <2>2
<1> QED BY <1>1, <1>2, <1>3, <1>4 DEF IInv

\* Time passes.
LEMMA TickKeeps ==
    ASSUME IInv, Tick
    PROVE  IInv'
<1>1. Ranges'
  BY CloneStoreAssumption DEF IInv, Ranges, Tick, Steps, disk, analysis, cleanup,
                              counters
<1>2. CleanupSound'
  BY CloneStoreAssumption DEF IInv, Ranges, CleanupSound, Tick, disk, analysis,
                              cleanup, counters
<1>3. PartialExplained'
  BY DEF IInv, Ranges, CleanupSound, PartialExplained, Cloning, Tick, disk, analysis,
         cleanup, counters
<1>4. \A t \in Threads : Protected(t)'
  <2> SUFFICES ASSUME NEW t \in Threads PROVE Protected(t)'
    OBVIOUS
  <2>1. Shielded(t) /\ Young(t)' => Shielded(t)'
    BY DEF IInv, Ranges, Tick, Shielded, Cloning, disk, analysis, cleanup
  <2> QED BY <2>1, ProtectedKept DEF Tick, IInv, Ranges, disk, analysis, cleanup,
                                     counters
<1> QED BY <1>1, <1>2, <1>3, <1>4 DEF IInv

\* A round of the cleanup begins.
LEMMA RoundBeginsKeeps ==
    ASSUME IInv, RoundBegins
    PROVE  IInv'
<1>1. Ranges'
  BY CloneStoreAssumption DEF IInv, Ranges, RoundBegins, Steps, disk, analysis
<1>2. CleanupSound'
  BY CloneStoreAssumption DEF IInv, Ranges, CleanupSound, RoundBegins, disk, analysis
<1>3. PartialExplained'
  BY DEF IInv, Ranges, CleanupSound, PartialExplained, Cloning, RoundBegins, disk,
         analysis
<1>4. \A t \in Threads : Protected(t)'
  <2> SUFFICES ASSUME NEW t \in Threads PROVE Protected(t)'
    OBVIOUS
  <2>1. Shielded(t) /\ Young(t)' => Shielded(t)'
    BY DEF RoundBegins, Shielded, Cloning, disk, analysis
  <2> QED BY <2>1, ProtectedKept DEF RoundBegins, IInv, Ranges, disk, analysis
<1> QED BY <1>1, <1>2, <1>3, <1>4 DEF IInv

\* A young clone was modified by its touch, or after it: it has not expired.
LEMMA CheckExpiredKeeps ==
    ASSUME IInv, NEW p \in Projects, CheckExpired(p)
    PROVE  IInv'
<1>1. Ranges'
  BY DEF IInv, Ranges, CheckExpired, Steps, disk, analysis
<1>2. CleanupSound'
  BY DEF IInv, Ranges, CleanupSound, CheckExpired, disk, analysis
<1>3. PartialExplained'
  <2>1. \A q \in Projects : victim # q
    BY CloneStoreAssumption DEF IInv, CleanupSound, CheckExpired
  <2>2. UNCHANGED <<tree, pc, proj, broken>>
    BY DEF CheckExpired, disk, analysis
  <2> QED BY <2>1, <2>2 DEF IInv, PartialExplained, Cloning
<1>4. \A t \in Threads : Protected(t)'
  <2> SUFFICES ASSUME NEW t \in Threads PROVE Protected(t)'
    OBVIOUS
  <2>1. Shielded(t) /\ Young(t)' => Shielded(t)'
    <3>1. CASE victim' = p /\ proj[t] = p
      <4>1. (round # "waiting" /\ mtime[p] < cutoff) \/ victim = p
        BY <3>1 DEF CheckExpired
      <4>2. SUFFICES ASSUME Shielded(t), Young(t)' PROVE FALSE
        OBVIOUS
      <4>3. mtime[p] < cutoff /\ cutoff <= now - Retention /\ mtime[p] >= touched[t]
        BY <3>1, <4>1, <4>2 DEF IInv, CleanupSound, Shielded
      <4>4. now <= touched[t] + Retention
        BY <4>2 DEF Young, CheckExpired, analysis
      <4> QED BY <4>3, <4>4, CloneStoreAssumption DEF IInv, Ranges
    <3>2. CASE ~(victim' = p /\ proj[t] = p)
      BY <3>2 DEF CheckExpired, Shielded, Cloning, disk, analysis
    <3> QED BY <3>1, <3>2
  <2> QED BY <2>1, ProtectedKept DEF CheckExpired, IInv, Ranges, disk, analysis
<1> QED BY <1>1, <1>2, <1>3, <1>4 DEF IInv

\* A round is abandoned.
LEMMA CheckFailsKeeps ==
    ASSUME IInv, NEW p \in Projects, CheckFails(p)
    PROVE  IInv'
<1>1. Ranges'
  BY DEF IInv, Ranges, CheckFails, Steps, disk, analysis
<1>2. CleanupSound'
  BY DEF IInv, Ranges, CleanupSound, CheckFails, disk, analysis
<1>3. PartialExplained'
  BY DEF IInv, Ranges, CleanupSound, PartialExplained, Cloning, CheckFails, disk,
         analysis
<1>4. \A t \in Threads : Protected(t)'
  <2> SUFFICES ASSUME NEW t \in Threads PROVE Protected(t)'
    OBVIOUS
  <2>1. Shielded(t) /\ Young(t)' => Shielded(t)'
    BY DEF CheckFails, Shielded, Cloning, disk, analysis
  <2> QED BY <2>1, ProtectedKept DEF CheckFails, IInv, Ranges, disk, analysis
<1> QED BY <1>1, <1>2, <1>3, <1>4 DEF IInv

\* A delete takes an entry of its victim.
LEMMA DeleteEntryKeeps ==
    ASSUME IInv, DeleteEntry
    PROVE  IInv'
<1>1. Ranges'
  BY DEF IInv, Ranges, DeleteEntry, Steps, disk, analysis, Modify
<1>2. CleanupSound'
  BY DEF IInv, Ranges, CleanupSound, DeleteEntry, disk, analysis, Modify
<1>3. PartialExplained'
  BY DEF IInv, Ranges, CleanupSound, PartialExplained, Cloning, DeleteEntry, disk,
         analysis, Modify
<1>4. \A t \in Threads : Protected(t)'
  <2> SUFFICES ASSUME NEW t \in Threads PROVE Protected(t)'
    OBVIOUS
  <2>1. Shielded(t) /\ Young(t)' => Shielded(t)'
    BY DEF IInv, Ranges, CleanupSound, DeleteEntry, Modify, Shielded, Cloning, disk,
           analysis
  <2> QED BY <2>1, ProtectedKept DEF DeleteEntry, IInv, Ranges, disk, analysis, Modify
<1> QED BY <1>1, <1>2, <1>3, <1>4 DEF IInv

\* A delete that leaves entries behind breaks the clone.
LEMMA DeleteEndsKeeps ==
    ASSUME IInv, DeleteEnds
    PROVE  IInv'
<1>1. Ranges'
  BY CloneStoreAssumption DEF IInv, Ranges, DeleteEnds, Steps, disk, analysis
<1>2. CleanupSound'
  BY CloneStoreAssumption DEF IInv, Ranges, CleanupSound, DeleteEnds, disk, analysis
<1>3. PartialExplained'
  BY DEF IInv, Ranges, CleanupSound, PartialExplained, Cloning, DeleteEnds, disk,
         analysis
<1>4. \A t \in Threads : Protected(t)'
  <2> SUFFICES ASSUME NEW t \in Threads PROVE Protected(t)'
    OBVIOUS
  <2>1. Shielded(t) /\ Young(t)' => Shielded(t)'
    BY CloneStoreAssumption DEF IInv, CleanupSound, DeleteEnds, Shielded, Cloning,
                                disk, analysis
  <2> QED BY <2>1, ProtectedKept DEF DeleteEnds, IInv, Ranges, disk, analysis
<1> QED BY <1>1, <1>2, <1>3, <1>4 DEF IInv

\* So does one that stops half way.
LEMMA DeleteFailsKeeps ==
    ASSUME IInv, DeleteFails
    PROVE  IInv'
<1>1. Ranges'
  BY CloneStoreAssumption DEF IInv, Ranges, DeleteFails, Steps, disk, analysis
<1>2. CleanupSound'
  BY CloneStoreAssumption DEF IInv, Ranges, CleanupSound, DeleteFails, disk, analysis
<1>3. PartialExplained'
  BY DEF IInv, Ranges, CleanupSound, PartialExplained, Cloning, DeleteFails, disk,
         analysis
<1>4. \A t \in Threads : Protected(t)'
  <2> SUFFICES ASSUME NEW t \in Threads PROVE Protected(t)'
    OBVIOUS
  <2>1. Shielded(t) /\ Young(t)' => Shielded(t)'
    BY CloneStoreAssumption DEF IInv, CleanupSound, DeleteFails, Shielded, Cloning,
                                disk, analysis
  <2> QED BY <2>1, ProtectedKept DEF DeleteFails, IInv, Ranges, disk, analysis
<1> QED BY <1>1, <1>2, <1>3, <1>4 DEF IInv

\* A round ends.
LEMMA RoundEndsKeeps ==
    ASSUME IInv, RoundEnds
    PROVE  IInv'
<1>1. Ranges'
  BY DEF IInv, Ranges, RoundEnds, Steps, disk, analysis
<1>2. CleanupSound'
  BY DEF IInv, Ranges, CleanupSound, RoundEnds, disk, analysis
<1>3. PartialExplained'
  BY DEF IInv, Ranges, CleanupSound, PartialExplained, Cloning, RoundEnds, disk,
         analysis
<1>4. \A t \in Threads : Protected(t)'
  <2> SUFFICES ASSUME NEW t \in Threads PROVE Protected(t)'
    OBVIOUS
  <2>1. Shielded(t) /\ Young(t)' => Shielded(t)'
    BY DEF RoundEnds, Shielded, Cloning, disk, analysis
  <2> QED BY <2>1, ProtectedKept DEF RoundEnds, IInv, Ranges, disk, analysis
<1> QED BY <1>1, <1>2, <1>3, <1>4 DEF IInv

\* A restart ends all requests; what it leaves of a clone is broken.
LEMMA RestartKeeps ==
    ASSUME IInv, NEW left, Restart(left)
    PROVE  IInv'
<1>1. Ranges'
  BY DEF IInv, Ranges, Restart, Steps, analysis
<1>2. CleanupSound'
  BY DEF CleanupSound, Restart
<1>3. PartialExplained'
  BY DEF PartialExplained, Restart
<1>4. \A t \in Threads : Protected(t)'
  BY DEF IInv, Ranges, Protected, Restart, Young, analysis
<1> QED BY <1>1, <1>2, <1>3, <1>4 DEF IInv

-----------------------------------------------------------------------------
\* Every step keeps the invariant.
LEMMA NextIInv == IInv /\ [Next]_vars => IInv'
<1> SUFFICES ASSUME IInv, [Next]_vars PROVE IInv'
  OBVIOUS
<1>1. ASSUME NEW s \in Threads, CheckGit(s) \/ CloneEnds(s) \/ RequestFails(s) PROVE IInv'
  <2>1. PICK new \in {"touch", "idle", "clone"} : Goto(s, new)
    BY <1>1 DEF CheckGit, CloneEnds, RequestFails
  <2>2. /\ UNCHANGED <<disk, now, analysis, cleanup, broken>> /\ pc[s] # "idle"
        /\ pc[s] = "checkout" => tree[proj[s]] = All
    BY <1>1 DEF CheckGit, CloneEnds, RequestFails
  <2> QED BY <2>1, <2>2, Goes DEF Steps
<1>2. ASSUME NEW s \in Threads, Serve(s) PROVE IInv'
  BY <1>1, <1>2, CloneBeginsKeeps, CheckoutKeeps, CloneFailsKeeps, TouchKeeps,
     FindSourcesKeeps, FindResourcesKeeps DEF Serve
<1>3. ASSUME NEW s \in Threads, NEW p \in Projects, Request(s, p) PROVE IInv'
  BY <1>3, RequestKeeps
<1>4. ASSUME CleanUp PROVE IInv'
  BY <1>4, RoundBeginsKeeps, RoundEndsKeeps, CheckExpiredKeeps, CheckFailsKeeps,
     DeleteEntryKeeps, DeleteEndsKeeps, DeleteFailsKeeps DEF CleanUp
<1>5. CASE UNCHANGED vars
  <2>1. UNCHANGED <<disk, now, pc, analysis, cleanup, broken>>
    BY <1>5 DEF vars
  <2> QED BY <2>1 DEF IInv, Ranges, CleanupSound, PartialExplained, Protected, Young,
                      Shielded,
                      Cloning, disk, analysis, cleanup
<1> QED BY <1>2, <1>3, <1>4, <1>5, TickKeeps, RestartKeeps DEF Next

\* The strengthening holds in every reachable state.
THEOREM StoreInductive == Spec => []IInv
BY InitIInv, NextIInv, PTL DEF Spec

\* An analysis that touched a complete clone in time finds every file in both of
\* its passes if it ends within the retention time.
THEOREM TouchesProtect == Spec => []TouchProtects
<1>1. IInv => TouchProtects
  BY CloneStoreAssumption DEF IInv, Ranges, Protected, Young, TouchProtects
<1> QED BY <1>1, StoreInductive, PTL

\* A directory with a part of the files is being cloned or deleted, or an earlier
\* clone or delete stopped half way.
THEOREM PartialsExplained == Spec => []PartialExplained
<1>1. IInv => PartialExplained
  BY DEF IInv
<1> QED BY <1>1, StoreInductive, PTL
=============================================================================
