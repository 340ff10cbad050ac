----------------------- MODULE ProxiedSessionsProofs -----------------------
(***************************************************************************)
(* Proofs about ProxiedSessions for any number of sessions, threads and    *)
(* datasources: who cleans a session, what its clients are meanwhile, and  *)
(* when a client may stay open for ever.                                   *)
(***************************************************************************)
EXTENDS ProxiedSessionsProps, TLAPS

Initialising == {"discover", "lock", "connect"}
Working == Initialising \cup {"once", "register"}
Steps == Working \cup {"idle", "get", "create", "getAgain", "hooked", "handle", "pick",
                       "call", "calling"}

Ranges ==
    /\ sessions \in [Sessions -> States \cup {None}]
    /\ made \in 0 .. MaxStates
    /\ once \in [States -> {"new", "running", "done"}]
    /\ conn \in [States -> [Datasources -> {"none", "open", "closed"}]]
    /\ tools \in [States -> SUBSET Datasources]
    /\ lock \in [States -> Threads \cup Cleaners \cup {None}]
    /\ pc \in [Threads -> Steps]
    /\ sid \in [Threads -> Sessions]
    /\ state \in [Threads -> States \cup {None}]
    /\ found \in [Threads -> SUBSET Datasources]
    /\ jobs \in [Cleaners -> SUBSET States]
    /\ early \subseteq States

\* The map files a state under one id only, and states that nobody has made yet are
\* nowhere.
MapSound ==
    /\ \A s \in Sessions : sessions[s] # None => sessions[s] \in 1 .. made
    /\ \A r, s \in Sessions : sessions[r] # None /\ sessions[r] = sessions[s] => r = s
    /\ \A a \in Cleaners : jobs[a] \subseteq 1 .. made
    /\ phase \in {"running", "stopping"} => jobs["closer"] = {}
    /\ \A o \in States : o > made => once[o] = "new"

\* The mutex of a state is held by a cleaner that has it among its jobs, or by the
\* thread that connects it.
LocksOwned ==
    /\ \A o \in States, a \in Cleaners : lock[o] = a =>
         o \in jobs[a] /\ (once[o] = "done" \/ o \in early)
    /\ \A o \in States, t \in Threads : lock[o] = t => pc[t] = "connect" /\ state[t] = o
    /\ \A t \in Threads : pc[t] = "connect" => lock[state[t]] = t

\* One thread runs initOnce of a state; those that register tools come after it.
OnceOwned ==
    /\ \A t \in Threads :
         /\ pc[t] \in Working => state[t] \in 1 .. made
         /\ pc[t] \in Initialising => once[state[t]] = "running"
         /\ pc[t] = "register" => once[state[t]] = "done"
    /\ \A t, u \in Threads :
         pc[t] \in Initialising /\ pc[u] \in Initialising /\ state[t] = state[u] => t = u

\* Datasources are connected once each, by initOnce, before any tools are collected.
ConnectedOnce ==
    /\ \A o \in States : once[o] = "new" => Clients(o) = {}
    /\ \A t \in Threads : pc[t] \in {"discover", "lock"} => Clients(state[t]) = {}
    /\ \A t \in Threads : pc[t] \in {"lock", "connect"} => Clients(state[t]) \cap found[t] = {}
    /\ \A o \in States : tools[o] # {} => once[o] = "done"

\* A state that is out of the map and of all jobs was cleaned, and by a cleaner that
\* had come too early if its initOnce has not run.
CleanedAfterInit ==
    \A o \in 1 .. made :
        /\ o \notin Live
        /\ \A a \in Cleaners : o \notin jobs[a]
        => once[o] = "done" \/ o \in early

\* What the inductive invariant says of the map, the clients and the cleaners ...
Store ==
    /\ MapSound
    /\ CleanedAfterInit
    /\ CleanedOnce
    /\ LiveClientsOpen
    /\ LeakOnlyWhenEarly
    /\ ToolsMatchClients

\* ... and of the threads and the mutexes.
IInv ==
    /\ Ranges
    /\ Store
    /\ LocksOwned
    /\ OnceOwned
    /\ ConnectedOnce

\* What Store speaks of.
storeVars == <<sessions, made, once, conn, tools, jobs, phase, early>>

LEMMA InitIInv == Init => IInv
<1> SUFFICES ASSUME Init PROVE IInv
  OBVIOUS
<1>1. (CHOOSE s \in Sessions : TRUE) \in Sessions
  BY ProxiedSessionsAssumption
<1>2. MaxStates \in Nat
  BY ProxiedSessionsAssumption
<1>3. Ranges
  BY <1>1, <1>2 DEF Init, Ranges, Steps
<1>4. Live = {}
  BY DEF Init, Live
<1>5. MapSound /\ CleanedAfterInit
  BY <1>2 DEF Init, MapSound, CleanedAfterInit, States, Cleaners
<1>6. CleanedOnce /\ LiveClientsOpen /\ LeakOnlyWhenEarly /\ ToolsMatchClients
  BY <1>2, <1>4 DEF Init, CleanedOnce, LiveClientsOpen, LeakOnlyWhenEarly,
                    ToolsMatchClients
<1>7. LocksOwned
  BY ProxiedSessionsAssumption DEF Init, LocksOwned
<1>8. OnceOwned /\ ConnectedOnce
  BY DEF Init, OnceOwned, ConnectedOnce, Clients, Working, Initialising
<1> QED BY <1>3, <1>5, <1>6, <1>7, <1>8 DEF IInv, Store

-----------------------------------------------------------------------------
\* What the store says, stays true while it is left alone.
LEMMA StoreStays == Store /\ UNCHANGED storeVars => Store'
BY DEF Store, storeVars, MapSound, CleanedAfterInit, CleanedOnce, LiveClientsOpen,
       LeakOnlyWhenEarly, ToolsMatchClients, Live, Clients

\* A cleaner takes states out of the map, each of which becomes its job.
LEMMA TakesOut ==
    ASSUME IInv, NEW a \in Cleaners, jobs[a] = {}, NEW J \in SUBSET Live,
           \A s \in Sessions : sessions'[s] = IF sessions[s] \in J THEN None ELSE sessions[s],
           sessions' \in [Sessions -> States \cup {None}],
           jobs' = [jobs EXCEPT ![a] = J],
           a = "closer" => phase' \notin {"running", "stopping"},
           a # "closer" => phase' = phase,
           UNCHANGED <<made, stateVars, threadVars, early>>
    PROVE  IInv'
<1>1. Live \subseteq 1 .. made /\ made \in 0 .. MaxStates /\ MaxStates \in Nat
  BY ProxiedSessionsAssumption DEF IInv, Store, MapSound, Live, Ranges
<1>2. J \subseteq States /\ None \notin J
  BY <1>1 DEF States, Live
<1>3. Live' = Live \ J
  BY <1>2 DEF Live
<1>4. jobs' \in [Cleaners -> SUBSET States]
  BY <1>2 DEF IInv, Ranges
<1>5. Ranges'
  BY <1>4 DEF IInv, Ranges, stateVars, threadVars
<1>6. \A b \in Cleaners : jobs'[b] = IF b = a THEN J ELSE jobs[b]
  BY DEF IInv, Ranges
<1>7. MapSound'
  <2>1. \A s \in Sessions : sessions'[s] # None => sessions'[s] = sessions[s]
    OBVIOUS
  <2>2. \A b \in Cleaners : jobs'[b] \subseteq 1 .. made
    BY <1>1, <1>6 DEF IInv, Store, MapSound
  <2>3. phase' \in {"running", "stopping"} => jobs'["closer"] = {}
    BY <1>6 DEF IInv, Store, MapSound, Cleaners
  <2> QED BY <2>1, <2>2, <2>3 DEF IInv, Store, MapSound, stateVars
<1>8. CleanedAfterInit'
  BY <1>3, <1>6 DEF IInv, Store, CleanedAfterInit, stateVars
<1>9. CleanedOnce'
  BY <1>3, <1>6 DEF IInv, Store, CleanedOnce
<1>10. LiveClientsOpen'
  BY <1>3 DEF IInv, Store, LiveClientsOpen, stateVars
<1>11. LeakOnlyWhenEarly'
  BY <1>3, <1>6 DEF IInv, Store, LeakOnlyWhenEarly, stateVars
<1>12. ToolsMatchClients'
  BY DEF IInv, Store, ToolsMatchClients, Clients, stateVars
<1>13. LocksOwned'
  BY <1>6 DEF IInv, LocksOwned, stateVars, threadVars
<1>14. OnceOwned' /\ ConnectedOnce'
  BY DEF IInv, OnceOwned, ConnectedOnce, Clients, stateVars, threadVars
<1> QED BY <1>5, <1>7, <1>8, <1>9, <1>10, <1>11, <1>12, <1>13, <1>14 DEF IInv, Store

\* CreateSession files a new state, if any.
LEMMA Creates ==
    ASSUME IInv, NEW s \in Sessions, CreateSession(s),
           UNCHANGED <<once, conn, tools, jobs, phase, early>>
    PROVE  /\ Store'
           /\ sessions' \in [Sessions -> States \cup {None}]
           /\ made' \in 0 .. MaxStates
           /\ made <= made'
<1>1. made \in 0 .. MaxStates /\ MaxStates \in Nat /\ None \notin States
  BY ProxiedSessionsAssumption DEF IInv, Ranges
<1>2. CASE UNCHANGED mapVars
  BY <1>1, <1>2, StoreStays DEF IInv, Ranges, mapVars, storeVars
<1>3. CASE /\ sessions[s] = None
           /\ made < MaxStates
           /\ made' = made + 1
           /\ sessions' = [sessions EXCEPT ![s] = made + 1]
  <2>1. made + 1 \in States /\ made + 1 # None
    BY <1>1, <1>3 DEF States
  <2>2. sessions' \in [Sessions -> States \cup {None}]
    BY <1>3, <2>1 DEF IInv, Ranges
  <2>3. \A r \in Sessions : sessions'[r] = IF r = s THEN made + 1 ELSE sessions[r]
    BY <1>3 DEF IInv, Ranges
  <2>4. Live' = Live \cup {made + 1}
    BY <1>3, <2>1, <2>3 DEF Live
  <2>5. MapSound'
    BY <1>1, <1>3, <2>3 DEF IInv, Store, MapSound, States
  <2>6. \A o \in 1 .. made' : o \notin Live' => o \in 1 .. made /\ o \notin Live
    BY <1>1, <1>3, <2>4
  <2>7. CleanedAfterInit' /\ LeakOnlyWhenEarly'
    BY <2>6 DEF IInv, Store, CleanedAfterInit, LeakOnlyWhenEarly
  <2>8. CleanedOnce'
    <3>1. \A b \in Cleaners : made + 1 \notin jobs[b]
      BY <1>1 DEF IInv, Store, MapSound
    <3> QED BY <2>4, <3>1 DEF IInv, Store, CleanedOnce
  <2>9. \A d \in Datasources : conn[made + 1][d] = "none"
    BY <1>1, <2>1 DEF IInv, Store, MapSound, ConnectedOnce, Clients
  <2>10. LiveClientsOpen'
    BY <2>4, <2>9 DEF IInv, Store, LiveClientsOpen
  <2>11. ToolsMatchClients'
    BY DEF IInv, Store, ToolsMatchClients, Clients
  <2> QED BY <1>1, <1>3, <2>2, <2>5, <2>7, <2>8, <2>10, <2>11 DEF Store
<1> QED BY <1>2, <1>3 DEF CreateSession

\* A thread that holds no mutex goes on, anywhere but into initOnce.
LEMMA Moves ==
    ASSUME IInv, NEW t \in Threads, NEW l \in Steps \ (Initialising \cup {"register"}),
           pc[t] # "connect", Goto(t, l), Store',
           sessions' \in [Sessions -> States \cup {None}],
           made' \in 0 .. MaxStates, made <= made',
           sid' \in [Threads -> Sessions],
           state' \in [Threads -> States \cup {None}],
           \A u \in Threads : u # t => state'[u] = state[u],
           l = "once" => state'[t] \in 1 .. made,
           UNCHANGED <<stateVars, found, jobs, early>>
    PROVE  IInv'
<1>1. \A u \in Threads : pc'[u] = IF u = t THEN l ELSE pc[u]
  BY DEF Goto, IInv, Ranges
<1>2. Ranges'
  BY DEF IInv, Ranges, stateVars, Goto
<1>3. LocksOwned'
  BY <1>1 DEF IInv, LocksOwned, stateVars, Initialising
<1>4. \A o : o \in 1 .. made => o \in 1 .. made'
  BY ProxiedSessionsAssumption DEF IInv, Ranges
<1>5. OnceOwned'
  BY <1>1, <1>4 DEF IInv, OnceOwned, stateVars, Initialising, Working
<1>6. ConnectedOnce'
  BY <1>1 DEF IInv, ConnectedOnce, Clients, stateVars, Initialising
<1> QED BY <1>2, <1>3, <1>5, <1>6 DEF IInv

-----------------------------------------------------------------------------
\* The map and its cleaners.
LEMMA RegisterSessionKeeps ==
    ASSUME IInv, NEW s \in Sessions, RegisterSession(s)
    PROVE  IInv'
<1>1. /\ Store' /\ sessions' \in [Sessions -> States \cup {None}]
      /\ made' \in 0 .. MaxStates /\ made <= made'
  BY Creates DEF RegisterSession, stateVars, cleanVars
<1>2. Ranges'
  BY <1>1 DEF RegisterSession, IInv, Ranges, stateVars, threadVars, cleanVars
<1>3. \A o : o \in 1 .. made => o \in 1 .. made'
  BY <1>1, ProxiedSessionsAssumption DEF IInv, Ranges
<1>4. LocksOwned' /\ OnceOwned' /\ ConnectedOnce'
  BY <1>3 DEF RegisterSession, IInv, LocksOwned, OnceOwned, ConnectedOnce, Clients, stateVars,
              threadVars, cleanVars
<1> QED BY <1>1, <1>2, <1>4 DEF IInv

LEMMA RemoveSessionKeeps ==
    ASSUME IInv, NEW s \in Sessions, RemoveSession(s)
    PROVE  IInv'
<1> DEFINE J == {sessions[s]} \ {None}
<1>1. s \in Cleaners /\ s # "closer"
  BY ProxiedSessionsAssumption DEF Cleaners
<1>2. J \in SUBSET Live
  BY DEF Live
<1>3. \A r \in Sessions : sessions[r] \in J => r = s
  BY DEF IInv, Store, MapSound
<1>4. \A r \in Sessions : sessions'[r] = IF sessions[r] \in J THEN None ELSE sessions[r]
  BY <1>3 DEF RemoveSession, IInv, Ranges
<1>5. sessions' \in [Sessions -> States \cup {None}]
  BY DEF RemoveSession, IInv, Ranges
<1>6. /\ jobs[s] = {} /\ jobs' = [jobs EXCEPT ![s] = J]
      /\ UNCHANGED <<made, stateVars, threadVars, phase, early>>
  BY DEF RemoveSession
<1> HIDE DEF J
<1> QED BY <1>1, <1>2, <1>4, <1>5, <1>6, TakesOut

LEMMA ReapKeepsIInv ==
    ASSUME IInv, Reap
    PROVE  IInv'
<1> DEFINE J == {o \in Live : idle[o]}
<1>1. "reaper" \in Cleaners /\ "reaper" # "closer" /\ J \in SUBSET Live
  BY DEF Cleaners
<1>2. \A r \in Sessions : sessions'[r] = IF sessions[r] \in J THEN None ELSE sessions[r]
  BY DEF Reap
<1>3. sessions' \in [Sessions -> States \cup {None}]
  BY DEF Reap, IInv, Ranges
<1>4. /\ jobs["reaper"] = {} /\ jobs' = [jobs EXCEPT !["reaper"] = J]
      /\ UNCHANGED <<made, stateVars, threadVars, phase, early>>
  BY DEF Reap
<1> HIDE DEF J
<1> QED BY <1>1, <1>2, <1>3, <1>4, TakesOut

LEMMA CloseSweepsKeepsIInv ==
    ASSUME IInv, CloseSweeps
    PROVE  IInv'
<1>1. "closer" \in Cleaners /\ jobs["closer"] = {}
  BY DEF Cleaners, CloseSweeps, IInv, Store, MapSound
<1>2. \A r \in Sessions : sessions'[r] = IF sessions[r] \in Live THEN None ELSE sessions[r]
  BY DEF CloseSweeps, Live
<1>3. sessions' \in [Sessions -> States \cup {None}]
  BY DEF CloseSweeps
<1>4. /\ jobs' = [jobs EXCEPT !["closer"] = Live] /\ phase' = "sweeping"
      /\ UNCHANGED <<made, stateVars, threadVars, early>>
  BY DEF CloseSweeps
<1>5. Live \in SUBSET Live
  OBVIOUS
<1> QED BY <1>1, <1>2, <1>3, <1>4, <1>5, TakesOut

\* Steps that leave the sessions alone.
LEMMA OthersKeep ==
    ASSUME IInv,
           \/ \E o \in States : Tick(o)
           \/ ReaperReturns \/ CloseBegins \/ CloseReturns \/ UNCHANGED vars
    PROVE  IInv'
<1>1. /\ UNCHANGED <<sessions, made, stateVars, threadVars, jobs, early>>
      /\ phase' \in {"running", "stopping"} => phase \in {"running", "stopping"}
  BY DEF Tick, ReaperReturns, CloseBegins, CloseReturns, vars, mapVars, cleanVars
<1>2. Ranges' /\ LocksOwned' /\ OnceOwned' /\ ConnectedOnce'
  BY <1>1 DEF IInv, Ranges, LocksOwned, OnceOwned, ConnectedOnce, Clients, stateVars,
              threadVars
<1>3. Store'
  BY <1>1 DEF IInv, Store, MapSound, CleanedAfterInit, CleanedOnce, LiveClientsOpen,
              LeakOnlyWhenEarly, ToolsMatchClients, Live, Clients, stateVars
<1> QED BY <1>2, <1>3 DEF IInv

-----------------------------------------------------------------------------
\* Threads outside initOnce.
LEMMA CreateStateKeeps ==
    ASSUME IInv, NEW t \in Threads, CreateState(t)
    PROVE  IInv'
<1>1. sid[t] \in Sessions
  BY DEF IInv, Ranges
<1>2. /\ Store' /\ sessions' \in [Sessions -> States \cup {None}]
      /\ made' \in 0 .. MaxStates /\ made <= made'
  BY <1>1, Creates DEF CreateState, stateVars, cleanVars
<1>3. "getAgain" \in Steps \ (Initialising \cup {"register"})
  BY DEF Steps, Initialising
<1>4. /\ pc[t] # "connect" /\ Goto(t, "getAgain")
      /\ UNCHANGED <<sid, state, stateVars, found, jobs, early>>
  BY DEF CreateState, cleanVars
<1>5. sid' \in [Threads -> Sessions] /\ state' \in [Threads -> States \cup {None}]
  BY <1>4 DEF IInv, Ranges
<1> QED BY <1>2, <1>3, <1>4, <1>5, Moves

\* A step of a thread that reads the map, or only goes on.
LEMMA ThreadMoves ==
    ASSUME IInv, NEW t \in Threads,
           NEW l \in Steps \ (Initialising \cup {"register"}),
           NEW o \in States \cup {None},
           pc[t] # "connect", Goto(t, l),
           sid' \in [Threads -> Sessions],
           state' = [state EXCEPT ![t] = o],
           l = "once" => o \in 1 .. made,
           UNCHANGED <<sessions, made, stateVars, found, cleanVars>>
    PROVE  IInv'
<1>1. Store'
  BY StoreStays DEF IInv, storeVars, stateVars, cleanVars
<1>2. /\ sessions' \in [Sessions -> States \cup {None}]
      /\ made' \in 0 .. MaxStates /\ made <= made'
      /\ UNCHANGED <<stateVars, found, jobs, early>>
  BY DEF IInv, Ranges, cleanVars
<1>3. /\ state' \in [Threads -> States \cup {None}]
      /\ state'[t] = o
      /\ \A u \in Threads : u # t => state'[u] = state[u]
  BY DEF IInv, Ranges
<1> QED BY <1>1, <1>2, <1>3, Moves

LEMMA RequestKeeps ==
    ASSUME IInv, NEW t \in Threads, NEW s \in Sessions, NEW d \in Datasources \cup {None},
           Request(t, s, d)
    PROVE  IInv'
<1>1. "get" \in Steps \ (Initialising \cup {"register"})
  BY DEF Steps, Initialising
<1>2. /\ state[t] \in States \cup {None} /\ state' = [state EXCEPT ![t] = state[t]]
      /\ sid' \in [Threads -> Sessions]
  BY DEF Request, IInv, Ranges
<1> QED BY <1>1, <1>2, ThreadMoves DEF Request, mapVars

LEMMA GetStateKeeps ==
    ASSUME IInv, NEW t \in Threads, GetState(t)
    PROVE  IInv'
<1> DEFINE o == sessions[sid[t]]
           l == IF o # None THEN "once" ELSE IF pc[t] = "get" THEN "create" ELSE "hooked"
<1>1. l \in Steps \ (Initialising \cup {"register"})
  BY DEF Steps, Working, Initialising
<1>2. sid[t] \in Sessions /\ o \in States \cup {None}
  BY DEF IInv, Ranges
<1>3. l = "once" => o \in 1 .. made
  BY <1>2 DEF IInv, Store, MapSound
<1>4. /\ pc[t] # "connect" /\ Goto(t, l) /\ state' = [state EXCEPT ![t] = o]
      /\ sid' \in [Threads -> Sessions]
      /\ UNCHANGED <<sessions, made, stateVars, found, cleanVars>>
  BY DEF GetState, GetSession, IInv, Ranges
<1> HIDE DEF o, l
<1> QED BY <1>1, <1>2, <1>3, <1>4, ThreadMoves

LEMMA DispatchKeeps ==
    ASSUME IInv, NEW t \in Threads, Dispatch(t)
    PROVE  IInv'
<1> DEFINE l == IF want[t] # None /\ served[sid[t]] # {} THEN "handle" ELSE "idle"
<1>1. l \in Steps \ (Initialising \cup {"register"}) /\ l # "once"
  BY DEF Steps, Initialising
<1>2. /\ pc[t] # "connect" /\ Goto(t, l) /\ state' = [state EXCEPT ![t] = None]
      /\ sid' \in [Threads -> Sessions]
      /\ UNCHANGED <<sessions, made, stateVars, found, cleanVars>>
  BY DEF Dispatch, IInv, Ranges, mapVars
<1> HIDE DEF l
<1> QED BY <1>1, <1>2, ThreadMoves

LEMMA HandlerGetsStateKeeps ==
    ASSUME IInv, NEW t \in Threads, HandlerGetsState(t)
    PROVE  IInv'
<1> DEFINE o == sessions[sid[t]]
           l == IF o = None THEN "idle" ELSE "pick"
<1>1. l \in Steps \ (Initialising \cup {"register"}) /\ l # "once"
  BY DEF Steps, Initialising
<1>2. o \in States \cup {None}
  BY DEF IInv, Ranges
<1>3. /\ pc[t] # "connect" /\ Goto(t, l) /\ state' = [state EXCEPT ![t] = o]
      /\ sid' \in [Threads -> Sessions]
      /\ UNCHANGED <<sessions, made, stateVars, found, cleanVars>>
  BY DEF HandlerGetsState, GetSession, IInv, Ranges
<1> HIDE DEF o, l
<1> QED BY <1>1, <1>2, <1>3, ThreadMoves

LEMMA HandlerGetsClientKeeps ==
    ASSUME IInv, NEW t \in Threads, HandlerGetsClient(t)
    PROVE  IInv'
<1> DEFINE hit == want[t] \in Clients(state[t])
           l == IF hit THEN "call" ELSE "idle"
           o == IF hit THEN state[t] ELSE None
<1>1. l \in Steps \ (Initialising \cup {"register"}) /\ l # "once"
  BY DEF Steps, Initialising
<1>2. o \in States \cup {None}
  BY DEF IInv, Ranges
<1>3. /\ pc[t] # "connect" /\ Goto(t, l) /\ state' = [state EXCEPT ![t] = o]
      /\ sid' \in [Threads -> Sessions]
      /\ UNCHANGED <<sessions, made, stateVars, found, cleanVars>>
  BY DEF HandlerGetsClient, IInv, Ranges, mapVars
<1> HIDE DEF hit, o, l
<1> QED BY <1>1, <1>2, <1>3, ThreadMoves

LEMMA CallsKeep ==
    ASSUME IInv, NEW t \in Threads, CallBegins(t) \/ CallEnds(t)
    PROVE  IInv'
<1>1. CASE CallBegins(t)
  <2>1. "calling" \in Steps \ (Initialising \cup {"register"})
    BY DEF Steps, Initialising
  <2>2. /\ state[t] \in States \cup {None} /\ state' = [state EXCEPT ![t] = state[t]]
        /\ sid' \in [Threads -> Sessions]
    BY <1>1 DEF CallBegins, IInv, Ranges
  <2> QED BY <1>1, <2>1, <2>2, ThreadMoves DEF CallBegins, mapVars
<1>2. CASE CallEnds(t)
  <2>1. "idle" \in Steps \ (Initialising \cup {"register"})
    BY DEF Steps, Initialising
  <2>2. sid' \in [Threads -> Sessions]
    BY <1>2 DEF CallEnds, IInv, Ranges
  <2> QED BY <1>2, <2>1, <2>2, ThreadMoves DEF CallEnds, mapVars
<1> QED BY <1>1, <1>2

-----------------------------------------------------------------------------
\* initOnce.
LEMMA EnterOnceKeeps ==
    ASSUME IInv, NEW t \in Threads, EnterOnce(t)
    PROVE  IInv'
<1> DEFINE o == state[t]
<1>1. /\ o \in 1 .. made /\ made \in 0 .. MaxStates /\ MaxStates \in Nat
      /\ o \in States /\ pc[t] = "once"
  BY ProxiedSessionsAssumption DEF EnterOnce, IInv, Ranges, OnceOwned, Working, States
<1>2. CASE once[o] = "done" /\ Goto(t, "register") /\ UNCHANGED once
  <2>1. \A u \in Threads : pc'[u] = IF u = t THEN "register" ELSE pc[u]
    BY <1>2 DEF Goto, IInv, Ranges
  <2>2. Ranges'
    BY <1>2 DEF EnterOnce, Goto, IInv, Ranges, Steps, Working, mapVars, cleanVars
  <2>3. Store'
    BY <1>2, StoreStays DEF EnterOnce, IInv, storeVars, mapVars, cleanVars
  <2>4. LocksOwned'
    BY <1>1, <1>2, <2>1 DEF EnterOnce, IInv, LocksOwned, mapVars, cleanVars
  <2>5. OnceOwned' /\ ConnectedOnce'
    BY <1>1, <1>2, <2>1 DEF EnterOnce, IInv, OnceOwned, ConnectedOnce, Clients, Initialising,
                            mapVars
  <2> QED BY <2>2, <2>3, <2>4, <2>5 DEF IInv
<1>3. CASE once[o] = "new" /\ once' = [once EXCEPT ![o] = "running"] /\ Goto(t, "discover")
  <2>1. \A u \in Threads : pc'[u] = IF u = t THEN "discover" ELSE pc[u]
    BY <1>3 DEF Goto, IInv, Ranges
  <2>2. \A p \in States : once'[p] = IF p = o THEN "running" ELSE once[p]
    BY <1>3 DEF IInv, Ranges
  <2>3. Ranges'
    BY <1>3 DEF EnterOnce, Goto, IInv, Ranges, Steps, Working, Initialising, mapVars, cleanVars
  <2>4. MapSound'
    BY <1>1, <2>2 DEF EnterOnce, IInv, Store, MapSound, mapVars, cleanVars
  <2>5. CleanedAfterInit'
    BY <1>1, <1>3, <2>2 DEF EnterOnce, IInv, Store, CleanedAfterInit, Live, mapVars, cleanVars,
                            States
  <2>6. CleanedOnce' /\ LiveClientsOpen' /\ LeakOnlyWhenEarly' /\ ToolsMatchClients'
    BY DEF EnterOnce, IInv, Store, CleanedOnce, LiveClientsOpen, LeakOnlyWhenEarly,
           ToolsMatchClients, Live, Clients, mapVars, cleanVars
  <2>7. LocksOwned'
    BY <1>1, <1>3, <2>1, <2>2 DEF EnterOnce, IInv, LocksOwned, cleanVars
  <2>8. OnceOwned'
    BY <1>1, <1>3, <2>1, <2>2 DEF EnterOnce, IInv, OnceOwned, Initialising, Working, mapVars,
                                  Ranges
  <2>9. ConnectedOnce'
    BY <1>1, <1>3, <2>1, <2>2 DEF EnterOnce, IInv, ConnectedOnce, Clients
  <2> QED BY <2>3, <2>4, <2>5, <2>6, <2>7, <2>8, <2>9 DEF IInv, Store
<1> QED BY <1>2, <1>3 DEF EnterOnce

LEMMA DiscoverKeeps ==
    ASSUME IInv, NEW t \in Threads, NEW ds \in SUBSET Datasources, Discover(t, ds)
    PROVE  IInv'
<1>1. \A u \in Threads : pc'[u] = IF u = t THEN "lock" ELSE pc[u]
  BY DEF Discover, Goto, IInv, Ranges
<1>2. Ranges'
  BY DEF Discover, Goto, IInv, Ranges, Steps, Working, Initialising, mapVars, stateVars,
         cleanVars
<1>3. Store'
  BY StoreStays DEF Discover, IInv, storeVars, mapVars, stateVars, cleanVars
<1>4. LocksOwned' /\ OnceOwned'
  BY <1>1 DEF Discover, IInv, LocksOwned, OnceOwned, Working, Initialising, mapVars,
              stateVars, cleanVars
<1>5. ConnectedOnce'
  BY <1>1 DEF Discover, IInv, Ranges, ConnectedOnce, Clients, stateVars
<1> QED BY <1>2, <1>3, <1>4, <1>5 DEF IInv

\* A thread ends initOnce, at which nobody else is.
LEMMA Initialised ==
    ASSUME IInv, NEW t \in Threads, pc[t] \in Initialising, Goto(t, "register"),
           once' = [once EXCEPT ![state[t]] = "done"],
           lock' \in [States -> Threads \cup Cleaners \cup {None}],
           LocksOwned',
           UNCHANGED <<sessions, made, conn, tools, sid, state, found, cleanVars>>
    PROVE  IInv'
<1> DEFINE o == state[t]
<1>1. /\ o \in 1 .. made /\ made \in 0 .. MaxStates /\ MaxStates \in Nat
      /\ o \in States /\ once[o] = "running"
  BY ProxiedSessionsAssumption DEF IInv, Ranges, OnceOwned, Working, States
<1>2. \A u \in Threads : pc'[u] = IF u = t THEN "register" ELSE pc[u]
  BY DEF Goto, IInv, Ranges
<1>3. \A p \in States : once'[p] = IF p = o THEN "done" ELSE once[p]
  BY DEF IInv, Ranges
<1>4. Ranges'
  BY DEF Goto, IInv, Ranges, Steps, Working, cleanVars
<1>5. MapSound'
  BY <1>1, <1>3 DEF IInv, Store, MapSound, cleanVars
<1>6. CleanedAfterInit'
  BY <1>1, <1>3 DEF IInv, Store, CleanedAfterInit, Live, cleanVars, States
<1>7. CleanedOnce' /\ LiveClientsOpen' /\ LeakOnlyWhenEarly' /\ ToolsMatchClients'
  BY DEF IInv, Store, CleanedOnce, LiveClientsOpen, LeakOnlyWhenEarly, ToolsMatchClients,
         Live, Clients, cleanVars
<1>8. OnceOwned'
  BY <1>1, <1>2, <1>3 DEF IInv, Ranges, OnceOwned, Initialising, Working
<1>9. ConnectedOnce'
  BY <1>1, <1>2, <1>3 DEF IInv, ConnectedOnce, Clients, Initialising
<1> QED BY <1>4, <1>5, <1>6, <1>7, <1>8, <1>9 DEF IInv, Store

LEMMA DiscoveryFailsKeeps ==
    ASSUME IInv, NEW t \in Threads, DiscoveryFails(t)
    PROVE  IInv'
<1>1. \A u \in Threads : pc'[u] = IF u = t THEN "register" ELSE pc[u]
  BY DEF DiscoveryFails, Goto, IInv, Ranges
<1>2. state[t] \in States /\ lock[state[t]] = None
  BY ProxiedSessionsAssumption
     DEF DiscoveryFails, IInv, Ranges, OnceOwned, Working, Initialising, States
<1>3. \A p \in States : once'[p] = "done" \/ once'[p] = once[p]
  BY DEF DiscoveryFails, IInv, Ranges
<1>4. LocksOwned'
  BY <1>1, <1>2, <1>3 DEF DiscoveryFails, IInv, LocksOwned, cleanVars
<1>5. lock' \in [States -> Threads \cup Cleaners \cup {None}]
  BY DEF DiscoveryFails, IInv, Ranges
<1>6. pc[t] \in Initialising
  BY DEF DiscoveryFails, Initialising
<1> QED BY <1>4, <1>5, <1>6, Initialised DEF DiscoveryFails, mapVars

LEMMA LockStateKeeps ==
    ASSUME IInv, NEW t \in Threads, LockState(t)
    PROVE  IInv'
<1> DEFINE o == state[t]
<1>1. \A u \in Threads : pc'[u] = IF u = t THEN "connect" ELSE pc[u]
  BY DEF LockState, Goto, IInv, Ranges
<1>2. o \in States /\ lock[o] = None
  BY ProxiedSessionsAssumption
     DEF LockState, IInv, Ranges, OnceOwned, Working, Initialising, States
<1>3. \A p \in States : lock'[p] = IF p = o THEN t ELSE lock[p]
  BY <1>2 DEF LockState, IInv, Ranges
<1>4. Ranges'
  BY DEF LockState, Goto, IInv, Ranges, Steps, Working, Initialising, mapVars, cleanVars
<1>5. Store'
  BY StoreStays DEF LockState, IInv, storeVars, mapVars, cleanVars
<1>6. \A a \in Cleaners : a # t
  BY ProxiedSessionsAssumption
<1>7. LocksOwned'
  <2>1. None \notin Threads \cup Cleaners
    BY ProxiedSessionsAssumption
  <2>2. \A u \in Threads : pc[u] = "connect" => state[u] # o
    BY <1>2, <2>1 DEF IInv, LocksOwned
  <2> QED BY <1>1, <1>2, <1>3, <1>6, <2>1, <2>2 DEF LockState, IInv, LocksOwned, cleanVars
<1>8. OnceOwned' /\ ConnectedOnce'
  BY <1>1 DEF LockState, IInv, OnceOwned, ConnectedOnce, Clients, Working, Initialising,
              mapVars
<1> QED BY <1>4, <1>5, <1>7, <1>8 DEF IInv

\* What a thread connects was not connected, and its state is not being cleaned.
LEMMA ConnectsNew ==
    ASSUME IInv, NEW t \in Threads, NEW d \in Datasources, pc[t] = "connect", d \in found[t]
    PROVE  /\ state[t] \in States
           /\ once[state[t]] = "running"
           /\ conn[state[t]][d] = "none"
           /\ tools[state[t]] = {}
<1>1. state[t] \in States /\ once[state[t]] = "running"
  BY ProxiedSessionsAssumption DEF IInv, Ranges, OnceOwned, Working, Initialising, States
<1>2. d \notin Clients(state[t])
  BY DEF IInv, ConnectedOnce
<1> QED BY <1>1, <1>2 DEF IInv, ConnectedOnce, Clients

LEMMA ConnectKeeps ==
    ASSUME IInv, NEW t \in Threads, NEW d \in Datasources, NEW ok \in BOOLEAN,
           Connect(t, d, ok)
    PROVE  IInv'
<1> DEFINE o == state[t]
<1>1. /\ o \in States /\ once[o] = "running" /\ conn[o][d] = "none" /\ tools[o] = {}
      /\ pc[t] = "connect"
  BY ConnectsNew DEF Connect
<1>2. \A p \in States, e \in Datasources :
        conn'[p][e] = IF ok /\ p = o /\ e = d THEN "open" ELSE conn[p][e]
  BY <1>1 DEF Connect, IInv, Ranges
<1>3. found'[t] = found[t] \ {d} /\ \A u \in Threads : u # t => found'[u] = found[u]
  BY DEF Connect, IInv, Ranges
<1>4. found' \in [Threads -> SUBSET Datasources]
  BY DEF Connect, IInv, Ranges
<1>5. conn' \in [States -> [Datasources -> {"none", "open", "closed"}]]
  BY <1>1 DEF Connect, IInv, Ranges
<1>6. Ranges'
  BY <1>4, <1>5 DEF Connect, IInv, Ranges, mapVars, cleanVars
<1>7. MapSound' /\ CleanedAfterInit' /\ CleanedOnce' /\ LocksOwned' /\ OnceOwned'
  BY DEF Connect, IInv, Store, MapSound, CleanedAfterInit, CleanedOnce, Live, LocksOwned,
         OnceOwned, mapVars, cleanVars
<1>8. LiveClientsOpen'
  <2>1. Live \subseteq States
    BY DEF IInv, Ranges, Live
  <2> QED BY <1>2, <2>1 DEF Connect, IInv, Store, LiveClientsOpen, Live, mapVars
<1>9. LeakOnlyWhenEarly'
  <2>1. 1 .. made \subseteq States
    BY ProxiedSessionsAssumption DEF IInv, Ranges, States
  <2>2. o \in 1 .. made => o \in Live \cup early \/ \E a \in Cleaners : o \in jobs[a]
    BY <1>1 DEF IInv, Store, CleanedAfterInit
  <2> QED BY <1>2, <2>1, <2>2 DEF Connect, IInv, Store, LeakOnlyWhenEarly, Live, mapVars,
                                  cleanVars
<1>10. \A p \in States : p # o => Clients(p)' = Clients(p)
  BY <1>2 DEF Clients
<1>11. ToolsMatchClients'
  BY <1>1, <1>10 DEF Connect, IInv, Store, ToolsMatchClients
<1>12. ConnectedOnce'
  <2>1. \A u \in Threads : pc[u] \in {"lock", "connect", "discover"} =>
          state[u] \in States /\ (u # t => state[u] # o)
    BY <1>1, ProxiedSessionsAssumption
       DEF IInv, Ranges, OnceOwned, Initialising, Working, States
  <2>2. pc' = pc /\ state' = state /\ once' = once /\ tools' = tools
    BY DEF Connect
  <2>3. \A p \in States : once'[p] = "new" => Clients(p)' = {}
    BY <1>1, <1>10, <2>2 DEF IInv, ConnectedOnce
  <2>4. \A u \in Threads : pc[u] \in {"discover", "lock"} => Clients(state[u])' = {}
    <3> SUFFICES ASSUME NEW u \in Threads, pc[u] \in {"discover", "lock"}
                 PROVE  Clients(state[u])' = {}
      OBVIOUS
    <3>1. state[u] # o /\ state[u] \in States /\ state'[u] = state[u]
      BY <1>1, <2>1, <2>2
    <3>2. \A e \in Datasources : conn'[state'[u]][e] = conn[state[u]][e]
      BY <1>2, <3>1
    <3>3. Clients(state[u]) = {}
      BY DEF IInv, ConnectedOnce
    <3> QED BY <3>2, <3>3 DEF Clients
  <2>5. \A u \in Threads : pc[u] \in {"lock", "connect"} =>
          Clients(state[u])' \cap found'[u] = {}
    <3> SUFFICES ASSUME NEW u \in Threads, pc[u] \in {"lock", "connect"}
                 PROVE  Clients(state[u])' \cap found'[u] = {}
      OBVIOUS
    <3>1. state[u] \in States /\ (u # t => state[u] # o) /\ state'[u] = state[u]
      BY <2>1, <2>2
    <3>2. Clients(state[u]) \cap found[u] = {}
      BY DEF IInv, ConnectedOnce
    <3>3. CASE u = t
      <4>1. \A e \in Datasources : conn'[state'[u]][e] # "none" =>
              conn[state[u]][e] # "none" \/ e = d
        BY <1>2, <3>1
      <4>2. found'[u] = found[u] \ {d}
        BY <1>3, <3>3
      <4> QED BY <3>2, <4>1, <4>2 DEF Clients
    <3>4. CASE u # t
      <4>1. \A e \in Datasources : conn'[state'[u]][e] = conn[state[u]][e]
        BY <1>2, <3>1, <3>4
      <4> QED BY <1>3, <3>2, <3>4, <4>1 DEF Clients
    <3> QED BY <3>3, <3>4
  <2> QED BY <2>2, <2>3, <2>4, <2>5 DEF IInv, ConnectedOnce
<1> QED BY <1>6, <1>7, <1>8, <1>9, <1>11, <1>12 DEF IInv, Store

LEMMA InitDoneKeeps ==
    ASSUME IInv, NEW t \in Threads, InitDone(t)
    PROVE  IInv'
<1>1. \A u \in Threads : pc'[u] = IF u = t THEN "register" ELSE pc[u]
  BY DEF InitDone, Goto, IInv, Ranges
<1>2. state[t] \in States
  BY ProxiedSessionsAssumption
     DEF InitDone, IInv, Ranges, OnceOwned, Working, Initialising, States
<1>3. \A p \in States : lock'[p] = IF p = state[t] THEN None ELSE lock[p]
  BY <1>2 DEF InitDone, IInv, Ranges
<1>4. \A p \in States : once'[p] = "done" \/ once'[p] = once[p]
  BY DEF InitDone, IInv, Ranges
<1>5. LocksOwned'
  <2>1. None \notin Threads \cup Cleaners
    BY ProxiedSessionsAssumption
  <2>2. \A u \in Threads : u # t /\ pc[u] = "connect" => state[u] # state[t]
    BY DEF InitDone, IInv, OnceOwned, Initialising
  <2> QED BY <1>1, <1>2, <1>3, <1>4, <2>1, <2>2 DEF InitDone, IInv, LocksOwned, cleanVars
<1>6. lock' \in [States -> Threads \cup Cleaners \cup {None}]
  BY DEF InitDone, IInv, Ranges
<1>7. pc[t] \in Initialising
  BY DEF InitDone, Initialising
<1> QED BY <1>5, <1>6, <1>7, Initialised DEF InitDone, mapVars

LEMMA RegisterToolsKeeps ==
    ASSUME IInv, NEW t \in Threads, RegisterTools(t)
    PROVE  IInv'
<1> DEFINE o == state[t]
<1>1. o \in States /\ once[o] = "done" /\ pc[t] = "register"
  BY ProxiedSessionsAssumption DEF RegisterTools, IInv, Ranges, OnceOwned, Working, States
<1>2. /\ pc[t] # "connect" /\ Goto(t, "hooked")
      /\ UNCHANGED <<sessions, made, once, conn, lock, sid, state, found, cleanVars>>
  BY DEF RegisterTools, mapVars
<1>3. tools' = tools \/ tools' = [tools EXCEPT ![o] = Clients(o)]
  BY DEF RegisterTools
<1>4. Clients(o) \in SUBSET Datasources
  BY DEF Clients
<1>5. tools' \in [States -> SUBSET Datasources]
  BY <1>1, <1>3, <1>4 DEF IInv, Ranges
<1>6. \A p \in States : tools'[p] = tools[p] \/ (p = o /\ tools'[p] = Clients(o))
  <2>1. tools \in [States -> SUBSET Datasources]
    BY DEF IInv, Ranges
  <2> HIDE DEF o
  <2> QED BY <1>3, <2>1
<1>7. \A u \in Threads : pc'[u] = IF u = t THEN "hooked" ELSE pc[u]
  BY <1>2 DEF Goto, IInv, Ranges
<1>8. Ranges'
  BY <1>2, <1>5 DEF IInv, Ranges, Goto, Steps, cleanVars
<1>9. /\ MapSound' /\ CleanedAfterInit' /\ CleanedOnce' /\ LiveClientsOpen'
      /\ LeakOnlyWhenEarly'
  BY <1>2 DEF IInv, Store, MapSound, CleanedAfterInit, CleanedOnce, LiveClientsOpen,
              LeakOnlyWhenEarly, Live, cleanVars
<1>10. ToolsMatchClients'
  BY <1>2, <1>6 DEF IInv, Store, ToolsMatchClients, Clients
<1>11. LocksOwned' /\ OnceOwned'
  BY <1>1, <1>2, <1>7 DEF IInv, LocksOwned, OnceOwned, Working, Initialising, cleanVars
<1>12. ConnectedOnce'
  BY <1>1, <1>2, <1>6, <1>7 DEF IInv, ConnectedOnce, Clients
<1> QED BY <1>8, <1>9, <1>10, <1>11, <1>12 DEF IInv, Store

-----------------------------------------------------------------------------
\* The cleanup of a state.
LEMMA CleanBeginsKeeps ==
    ASSUME IInv, NEW a \in Cleaners, NEW o \in States, CleanBegins(a, o)
    PROVE  IInv'
<1>1. \A p \in States : lock'[p] = IF p = o THEN a ELSE lock[p]
  BY DEF CleanBegins, IInv, Ranges
<1>2. early \subseteq early' /\ early' \subseteq States /\ (once[o] = "done" \/ o \in early')
  BY DEF CleanBegins, IInv, Ranges
<1>3. Ranges'
  BY <1>2 DEF CleanBegins, IInv, Ranges, mapVars, threadVars
<1>4. MapSound' /\ CleanedOnce' /\ LiveClientsOpen' /\ ToolsMatchClients'
  BY DEF CleanBegins, IInv, Store, MapSound, CleanedOnce, LiveClientsOpen, ToolsMatchClients,
         Live, Clients, mapVars
<1>5. CleanedAfterInit' /\ LeakOnlyWhenEarly'
  BY <1>2 DEF CleanBegins, IInv, Store, CleanedAfterInit, LeakOnlyWhenEarly, Live, mapVars
<1>6. LocksOwned'
  <2>1. None \notin Threads \cup Cleaners /\ a \notin Threads
    BY ProxiedSessionsAssumption
  <2>2. \A t \in Threads : pc[t] = "connect" => state[t] # o /\ state[t] \in States
    BY <2>1, ProxiedSessionsAssumption
       DEF CleanBegins, IInv, Ranges, LocksOwned, OnceOwned, Working, Initialising, States
  <2> QED BY <1>1, <1>2, <2>1, <2>2 DEF CleanBegins, IInv, LocksOwned, threadVars
<1>7. OnceOwned' /\ ConnectedOnce'
  BY DEF CleanBegins, IInv, OnceOwned, ConnectedOnce, Clients, mapVars, threadVars
<1> QED BY <1>3, <1>4, <1>5, <1>6, <1>7 DEF IInv, Store

LEMMA CloseClientKeeps ==
    ASSUME IInv, NEW a \in Cleaners, NEW o \in States, NEW d \in Datasources,
           CloseClient(a, o, d)
    PROVE  IInv'
<1>1. \A p \in States, e \in Datasources :
        conn'[p][e] = IF p = o /\ e = d THEN "closed" ELSE conn[p][e]
  BY DEF CloseClient, IInv, Ranges
<1>2. conn' \in [States -> [Datasources -> {"none", "open", "closed"}]]
  BY DEF CloseClient, IInv, Ranges
<1>3. Ranges'
  BY <1>2 DEF CloseClient, IInv, Ranges, mapVars, threadVars, cleanVars
<1>4. MapSound' /\ CleanedAfterInit' /\ CleanedOnce' /\ LocksOwned' /\ OnceOwned'
  BY DEF CloseClient, IInv, Store, MapSound, CleanedAfterInit, CleanedOnce, Live, LocksOwned,
         OnceOwned, mapVars, threadVars, cleanVars
<1>5. LiveClientsOpen'
  <2>1. o \notin Live
    BY DEF CloseClient, IInv, LocksOwned, Store, CleanedOnce
  <2>2. Live \subseteq States
    BY DEF IInv, Ranges, Live
  <2> QED BY <1>1, <2>1, <2>2 DEF CloseClient, IInv, Store, LiveClientsOpen, Live, mapVars
<1>6. LeakOnlyWhenEarly'
  <2>1. 1 .. made \subseteq States
    BY ProxiedSessionsAssumption DEF IInv, Ranges, States
  <2> QED BY <1>1, <2>1 DEF CloseClient, IInv, Store, LeakOnlyWhenEarly, Live, mapVars,
                            cleanVars
<1>7. \A p \in States : Clients(p)' = Clients(p)
  BY <1>1 DEF CloseClient, Clients
<1>8. ToolsMatchClients'
  BY <1>7 DEF CloseClient, IInv, Store, ToolsMatchClients
<1>9. ConnectedOnce'
  <2>1. \A t \in Threads : pc[t] \in Initialising => state[t] \in States
    BY ProxiedSessionsAssumption DEF IInv, Ranges, OnceOwned, Working, States
  <2>2. \A t \in Threads : pc[t] \in Initialising => Clients(state[t])' = Clients(state[t])
    <3> SUFFICES ASSUME NEW t \in Threads, pc[t] \in Initialising
                 PROVE  Clients(state[t])' = Clients(state[t])
      OBVIOUS
    <3>1. state[t] \in States /\ state'[t] = state[t]
      BY <2>1 DEF CloseClient, threadVars
    <3>2. \A e \in Datasources : conn'[state'[t]][e] # "none" <=> conn[state[t]][e] # "none"
      BY <1>1, <3>1 DEF CloseClient
    <3> QED BY <3>2 DEF Clients
  <2>3. /\ \A p \in States : once[p] = "new" => Clients(p)' = {}
        /\ \A t \in Threads : pc[t] \in {"discover", "lock"} => Clients(state[t])' = {}
        /\ \A t \in Threads : pc[t] \in {"lock", "connect"} =>
             Clients(state[t])' \cap found[t] = {}
    BY <1>7, <2>2 DEF IInv, ConnectedOnce, Initialising
  <2> QED BY <2>3 DEF CloseClient, IInv, ConnectedOnce, threadVars
<1> QED BY <1>3, <1>4, <1>5, <1>6, <1>8, <1>9 DEF IInv, Store

LEMMA CleanEndsKeeps ==
    ASSUME IInv, NEW a \in Cleaners, NEW o \in States, CleanEnds(a, o)
    PROVE  IInv'
<1>1. \A p \in States : lock'[p] = IF p = o THEN None ELSE lock[p]
  BY DEF CleanEnds, IInv, Ranges
<1>2. \A b \in Cleaners : jobs'[b] = IF b = a THEN jobs[a] \ {o} ELSE jobs[b]
  BY DEF CleanEnds, IInv, Ranges
<1>3. jobs' \in [Cleaners -> SUBSET States]
  BY DEF CleanEnds, IInv, Ranges
<1>4. Ranges'
  BY <1>3 DEF CleanEnds, IInv, Ranges, mapVars, threadVars
<1>5. o \in jobs[a] /\ (once[o] = "done" \/ o \in early)
  BY DEF CleanEnds, IInv, LocksOwned
<1>6. MapSound'
  BY <1>2 DEF CleanEnds, IInv, Store, MapSound, Cleaners, mapVars
<1>7. CleanedAfterInit'
  BY <1>2, <1>5 DEF CleanEnds, IInv, Store, CleanedAfterInit, Live, mapVars
<1>8. CleanedOnce'
  BY <1>2 DEF CleanEnds, IInv, Store, CleanedOnce, Live, mapVars
<1>9. LiveClientsOpen' /\ ToolsMatchClients'
  BY DEF CleanEnds, IInv, Store, LiveClientsOpen, ToolsMatchClients, Live, Clients, mapVars
<1>10. LeakOnlyWhenEarly'
  BY <1>2 DEF CleanEnds, IInv, Store, LeakOnlyWhenEarly, Live, mapVars
<1>11. LocksOwned'
  <2>1. None \notin Threads \cup Cleaners /\ a \notin Threads
    BY ProxiedSessionsAssumption
  <2>2. \A b \in Cleaners, p \in States : lock[p] = b /\ p # o => p \in jobs'[b]
    BY <1>2 DEF IInv, LocksOwned
  <2>3. \A t \in Threads : pc[t] = "connect" => state[t] \in States /\ state[t] # o
    BY <2>1, ProxiedSessionsAssumption
       DEF CleanEnds, IInv, Ranges, LocksOwned, OnceOwned, Working, Initialising, States
  <2> QED BY <1>1, <2>1, <2>2, <2>3 DEF CleanEnds, IInv, LocksOwned, threadVars
<1>12. OnceOwned' /\ ConnectedOnce'
  BY DEF CleanEnds, IInv, OnceOwned, ConnectedOnce, Clients, mapVars, threadVars
<1> QED BY <1>4, <1>6, <1>7, <1>8, <1>9, <1>10, <1>11, <1>12 DEF IInv, Store

-----------------------------------------------------------------------------
LEMMA NextIInv == IInv /\ [Next]_vars => IInv'
<1> SUFFICES ASSUME IInv, [Next]_vars PROVE IInv'
  OBVIOUS
<1>1. CASE \E s \in Sessions : RegisterSession(s) \/ RemoveSession(s)
  BY <1>1, RegisterSessionKeeps, RemoveSessionKeeps
<1>2. CASE Reap \/ CloseSweeps
  BY <1>2, ReapKeepsIInv, CloseSweepsKeepsIInv
<1>3. CASE \/ \E o \in States : Tick(o)
           \/ ReaperReturns \/ CloseBegins \/ CloseReturns \/ UNCHANGED vars
  BY <1>3, OthersKeep
<1>4. CASE \E a \in Cleaners : Clean(a)
  BY <1>4, CleanBeginsKeeps, CleanEndsKeeps, CloseClientKeeps DEF Clean
<1>5. CASE \E t \in Threads, s \in Sessions, d \in Datasources \cup {None} : Request(t, s, d)
  BY <1>5, RequestKeeps
<1>6. CASE \E t \in Threads : Step(t)
  BY <1>6, GetStateKeeps, CreateStateKeeps, EnterOnceKeeps, DiscoverKeeps,
     DiscoveryFailsKeeps, LockStateKeeps, ConnectKeeps, InitDoneKeeps, RegisterToolsKeeps,
     DispatchKeeps, HandlerGetsStateKeeps, HandlerGetsClientKeeps, CallsKeep
     DEF Step, LocalStep, RemoteStep
<1> QED BY <1>1, <1>2, <1>3, <1>4, <1>5, <1>6 DEF Next, CloseStep

\* The strengthening holds in every reachable state.
THEOREM SessionsInductive == Spec => []IInv
BY InitIInv, NextIInv, PTL DEF Spec

\* A state is cleaned by exactly one of the removal of its session, the reaper and
\* Close, and is out of the map by then.
THEOREM EachCleanedOnce == Spec => []CleanedOnce
<1>1. IInv => CleanedOnce
  BY DEF IInv, Store
<1> QED BY <1>1, SessionsInductive, PTL

\* A request that finds its session in the map finds no closed client in it.
THEOREM FoundClientsOpen == Spec => []LiveClientsOpen
<1>1. IInv => LiveClientsOpen
  BY DEF IInv, Store
<1> QED BY <1>1, SessionsInductive, PTL

\* The cleanup of a state leaves a client open only if it came before the state's
\* initOnce had run.
THEOREM OnlyEarlyLeaks == Spec => []LeakOnlyWhenEarly
<1>1. IInv => LeakOnlyWhenEarly
  BY DEF IInv, Store
<1> QED BY <1>1, SessionsInductive, PTL

\* The tools a session offers are those of all its clients or none.
THEOREM ToolsComplete == Spec => []ToolsMatchClients
<1>1. IInv => ToolsMatchClients
  BY DEF IInv, Store
<1> QED BY <1>1, SessionsInductive, PTL

\* A client is opened once, by the thread that runs initOnce, and never closed under
\* a call.
ClientStep ==
    \A o \in States, d \in Datasources :
        /\ conn[o][d] = "open" /\ conn'[o][d] = "closed" => Calling(o, d) = {}
        /\ conn'[o][d] = "open" =>
              \/ conn[o][d] = "open"
              \/ conn[o][d] = "none" /\ once[o] = "running"

THEOREM ClientsChangeInOrder == Spec => ClientSteps
<1>1. IInv /\ [Next]_vars => ClientStep
  <2> SUFFICES ASSUME IInv, [Next]_vars PROVE ClientStep
    OBVIOUS
  <2>1. conn \in [States -> [Datasources -> {"none", "open", "closed"}]]
    BY DEF IInv, Ranges
  <2>2. ASSUME NEW a \in Cleaners, NEW o \in States, NEW d \in Datasources,
               CloseClient(a, o, d)
        PROVE  ClientStep
    <3>1. \A p \in States, e \in Datasources :
            conn'[p][e] = IF p = o /\ e = d THEN "closed" ELSE conn[p][e]
      BY <2>1, <2>2 DEF CloseClient
    <3> QED BY <2>2, <3>1 DEF CloseClient, ClientStep
  <2>3. ASSUME NEW t \in Threads, NEW d \in Datasources, NEW ok \in BOOLEAN,
               Connect(t, d, ok)
        PROVE  ClientStep
    <3>1. \A p \in States, e \in Datasources :
            conn'[p][e] = IF ok /\ p = state[t] /\ e = d THEN "open" ELSE conn[p][e]
      BY <2>1, <2>3, ConnectsNew DEF Connect
    <3>2. once[state[t]] = "running" /\ conn[state[t]][d] = "none"
      BY <2>3, ConnectsNew DEF Connect
    <3> QED BY <3>1, <3>2 DEF ClientStep
  <2>4. CASE UNCHANGED conn
    BY <2>4 DEF ClientStep
  <2>5. \/ UNCHANGED conn
        \/ \E a \in Cleaners, o \in States, d \in Datasources : CloseClient(a, o, d)
        \/ \E t \in Threads, d \in Datasources, ok \in BOOLEAN : Connect(t, d, ok)
    BY DEF Next, RegisterSession, RemoveSession, Tick, Reap, ReaperReturns, CloseBegins,
           CloseStep, CloseSweeps, CloseReturns, Clean, CleanBegins, CleanEnds, Request, Step,
           LocalStep, RemoteStep, GetState, CreateState, EnterOnce, Discover, DiscoveryFails, LockState, InitDone,
           RegisterTools, Dispatch, HandlerGetsState, HandlerGetsClient, CallBegins, CallEnds,
           vars, stateVars
  <2> QED BY <2>2, <2>3, <2>4, <2>5
<1> QED BY <1>1, SessionsInductive, PTL DEF Spec, ClientSteps, ClientStep
=============================================================================
