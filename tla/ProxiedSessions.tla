-------------------------- MODULE ProxiedSessions --------------------------
(***************************************************************************)
(* Sessions of the MCP server and their connections to the MCP servers of  *)
(* datasources, for the HTTP transports (skuld-mcp-grafana: session.go,    *)
(* proxied_tools.go, proxied_client.go, proxied_handler.go and the hooks   *)
(* of cmd/mcp-grafana/main.go).                                            *)
(*                                                                         *)
(* Request threads create session states, initialise them once (discovery  *)
(* without a lock, connecting under the state's mutex), register tools and *)
(* forward calls.  Three kinds of cleaner take a state out of the session  *)
(* map under the manager's mutex and close its clients afterwards under    *)
(* the state's mutex: RemoveSession, the reaper and Close.                 *)
(*                                                                         *)
(* A session state is a number, in order of creation; the client of a      *)
(* datasource is the pair of state and datasource, since a state connects  *)
(* to each datasource at most once.  The manager's mutex is held only      *)
(* inside one action; the state's mutex is explicit because it is held     *)
(* across network calls.  proxiedToolsInitialized is written and never     *)
(* read, and is left out.                                                  *)
(***************************************************************************)
EXTENDS Integers, FiniteSets

CONSTANTS
    Sessions,     \* MCP session ids
    Threads,      \* goroutines that serve MCP requests
    Datasources,  \* datasources with MCP support
    ReaperOn,     \* is the session TTL positive
    MaxStates,    \* bound: requests and registrations in a run, each of which
                  \* makes at most one session state
    None          \* no state, no lock holder, no datasource

States == 1 .. MaxStates
Cleaners == Sessions \cup {"reaper", "closer"}

ASSUME ProxiedSessionsAssumption ==
    /\ MaxStates \in Nat
    /\ Sessions # {}
    /\ ReaperOn \in BOOLEAN
    /\ Threads \cap Cleaners = {}
    /\ Sessions \cap {"reaper", "closer"} = {}
    /\ None \notin States
    /\ None \notin Threads \cup Cleaners \cup Datasources

VARIABLES
    sessions,   \* SessionManager.sessions: id -> state or None
    made,       \* number of session states made
    idle,       \* has the state been idle for longer than the TTL
    once,       \* initOnce of each state
    conn,       \* proxiedClients: state -> datasource -> connection
    tools,      \* proxiedTools: datasources whose tools were collected
    lock,       \* state.mutex: its writer or None
    connected,  \* mcp-go: is the session registered with the server
    served,     \* mcp-go: the session's tools, by datasource
    pc,         \* where each thread is
    sid,        \* the session of its request
    want,       \* the datasource it calls, or None for tools/list
    state,      \* the session state it works on, or None
    found,      \* datasources it has yet to connect to
    jobs,       \* states a cleaner has taken out of the map
    phase,      \* Close: running, stopping, sweeping or closed
    reaping,    \* has the reaper goroutine not yet returned
    early,      \* history: states cleaned before their initOnce had run
    events      \* number of requests and registrations begun

mapVars == <<sessions, made, idle>>
stateVars == <<once, conn, tools, lock>>
serverVars == <<connected, served>>
threadVars == <<pc, sid, want, state, found>>
cleanVars == <<jobs, phase, reaping, early>>
vars == <<mapVars, stateVars, serverVars, threadVars, cleanVars, events>>

Clients(o) == {d \in Datasources : conn[o][d] # "none"}
Live == {sessions[s] : s \in Sessions} \ {None}
Calling(o, d) == {t \in Threads : pc[t] = "calling" /\ state[t] = o
                                                    /\ want[t] = d}

Init ==
    /\ sessions = [s \in Sessions |-> None]
    /\ made = 0
    /\ idle = [o \in States |-> FALSE]
    /\ once = [o \in States |-> "new"]
    /\ conn = [o \in States |-> [d \in Datasources |-> "none"]]
    /\ tools = [o \in States |-> {}]
    /\ lock = [o \in States |-> None]
    /\ connected = [s \in Sessions |-> FALSE]
    /\ served = [s \in Sessions |-> {}]
    /\ pc = [t \in Threads |-> "idle"]
    /\ sid = [t \in Threads |-> CHOOSE s \in Sessions : TRUE]
    /\ want = [t \in Threads |-> None]
    /\ state = [t \in Threads |-> None]
    /\ found = [t \in Threads |-> {}]
    /\ jobs = [a \in Cleaners |-> {}]
    /\ phase = "running"
    /\ reaping = ReaperOn
    /\ early = {}
    /\ events = 0

Goto(t, l) == pc' = [pc EXCEPT ![t] = l]

-----------------------------------------------------------------------------
(* SessionManager: the map *)

\* CreateSession under the manager's mutex: only an absent id gets a state.
CreateSession(s) ==
    \/ /\ sessions[s] = None
       /\ made < MaxStates
       /\ made' = made + 1
       /\ sessions' = [sessions EXCEPT ![s] = made + 1]
       /\ idle' = [idle EXCEPT ![made + 1] = FALSE]
    \/ /\ sessions[s] # None
       /\ UNCHANGED mapVars

\* GetSession under the manager's mutex: a state that exists is touched.
GetSession(s) ==
    /\ idle' = [o \in States |-> idle[o] /\ o # sessions[s]]
    /\ UNCHANGED <<sessions, made>>

\* mcp-go registers a session and calls the OnRegisterSession hook.
RegisterSession(s) ==
    /\ ~connected[s]
    /\ events < MaxStates
    /\ events' = events + 1
    /\ connected' = [connected EXCEPT ![s] = TRUE]
    /\ CreateSession(s)
    /\ UNCHANGED <<stateVars, served, threadVars, cleanVars>>

\* mcp-go drops a session and its tools and calls RemoveSession, which takes
\* the state out of the map and then cleans it up in the same goroutine.
RemoveSession(s) ==
    /\ connected[s]
    /\ jobs[s] = {}
    /\ connected' = [connected EXCEPT ![s] = FALSE]
    /\ served' = [served EXCEPT ![s] = {}]
    /\ sessions' = [sessions EXCEPT ![s] = None]
    /\ jobs' = [jobs EXCEPT ![s] = {sessions[s]} \ {None}]
    /\ UNCHANGED <<made, idle, stateVars, threadVars, phase, reaping, early,
                   events>>

\* Time passes: a state in the map has been idle for longer than the TTL.
Tick(o) ==
    /\ o \in Live
    /\ ~idle[o]
    /\ idle' = [idle EXCEPT ![o] = TRUE]
    /\ UNCHANGED <<sessions, made, stateVars, serverVars, threadVars,
                   cleanVars, events>>

\* Mutant of Reap: stale states stay in the map while they are cleaned.
ReapKeeps ==
    LET stale == {o \in Live : idle[o]} IN
    /\ reaping
    /\ jobs["reaper"] = {}
    /\ stale # {}
    /\ jobs' = [jobs EXCEPT !["reaper"] = stale]
    /\ UNCHANGED <<mapVars, stateVars, serverVars, threadVars, phase, reaping,
                   early, events>>

\* Mutant of Reap: only sessions that have proxied clients are reaped.
ReapConnected ==
    LET stale == {o \in Live : idle[o] /\ Clients(o) # {}} IN
    /\ reaping
    /\ jobs["reaper"] = {}
    /\ stale # {}
    /\ sessions' = [s \in Sessions |-> IF sessions[s] \in stale THEN None
                                       ELSE sessions[s]]
    /\ jobs' = [jobs EXCEPT !["reaper"] = stale]
    /\ UNCHANGED <<made, idle, stateVars, serverVars, threadVars, phase,
                   reaping, early, events>>

\* reapStaleSessions, between two jobs of the reaper goroutine.
Reap ==
    LET stale == {o \in Live : idle[o]} IN
    /\ reaping
    /\ jobs["reaper"] = {}
    /\ stale # {}
    /\ sessions' = [s \in Sessions |-> IF sessions[s] \in stale THEN None
                                       ELSE sessions[s]]
    /\ jobs' = [jobs EXCEPT !["reaper"] = stale]
    /\ UNCHANGED <<made, idle, stateVars, serverVars, threadVars, phase,
                   reaping, early, events>>

\* Mutant of ReaperReturns: the reaper first waits for the map to drain.
ReaperDrains ==
    /\ reaping
    /\ phase # "running"
    /\ jobs["reaper"] = {}
    /\ Live = {}
    /\ reaping' = FALSE
    /\ UNCHANGED <<mapVars, stateVars, serverVars, threadVars, jobs, phase,
                   early, events>>

\* The reaper returns when it is told to and has no job left.
ReaperReturns ==
    /\ reaping
    /\ phase # "running"
    /\ jobs["reaper"] = {}
    /\ reaping' = FALSE
    /\ UNCHANGED <<mapVars, stateVars, serverVars, threadVars, jobs, phase,
                   early, events>>

\* Close: stop the reaper, wait for it, swap the map, clean what it held.
CloseBegins ==
    /\ phase = "running"
    /\ phase' = "stopping"
    /\ UNCHANGED <<mapVars, stateVars, serverVars, threadVars, jobs, reaping,
                   early, events>>

\* Mutant of CloseSweeps: the map is copied and not replaced.
CloseSweepsKeeps ==
    /\ phase = "stopping"
    /\ ~reaping
    /\ phase' = "sweeping"
    /\ jobs' = [jobs EXCEPT !["closer"] = Live]
    /\ UNCHANGED <<mapVars, stateVars, serverVars, threadVars, reaping, early,
                   events>>

CloseSweeps ==
    /\ phase = "stopping"
    /\ ~reaping
    /\ phase' = "sweeping"
    /\ jobs' = [jobs EXCEPT !["closer"] = Live]
    /\ sessions' = [s \in Sessions |-> None]
    /\ UNCHANGED <<made, idle, stateVars, serverVars, threadVars, reaping,
                   early, events>>

CloseReturns ==
    /\ phase = "sweeping"
    /\ jobs["closer"] = {}
    /\ phase' = "closed"
    /\ UNCHANGED <<mapVars, stateVars, serverVars, threadVars, jobs, reaping,
                   early, events>>

(* cleanupSessionState: lock the state, close each client, unlock. *)
CleanBegins(a, o) ==
    /\ o \in jobs[a]
    /\ \A p \in States : lock[p] # a
    /\ lock[o] = None
    /\ lock' = [lock EXCEPT ![o] = a]
    /\ early' = IF once[o] # "done" THEN early \cup {o} ELSE early
    /\ UNCHANGED <<mapVars, once, conn, tools, serverVars, threadVars, jobs,
                   phase, reaping, events>>

\* Mutant of CloseClient: a client is closed without taking its mutex.
CloseClientUnlocked(a, o, d) ==
    /\ lock[o] = a
    /\ conn[o][d] = "open"
    /\ conn' = [conn EXCEPT ![o][d] = "closed"]
    /\ UNCHANGED <<mapVars, once, tools, lock, serverVars, threadVars,
                   cleanVars, events>>

\* ProxiedClient.Close takes the client's mutex, which calls hold for reading.
CloseClient(a, o, d) ==
    /\ lock[o] = a
    /\ conn[o][d] = "open"
    /\ Calling(o, d) = {}
    /\ conn' = [conn EXCEPT ![o][d] = "closed"]
    /\ UNCHANGED <<mapVars, once, tools, lock, serverVars, threadVars,
                   cleanVars, events>>

\* Mutant of CleanEnds: the cleanup gives up at a client that fails to close.
CleanGivesUp(a, o) ==
    /\ lock[o] = a
    /\ lock' = [lock EXCEPT ![o] = None]
    /\ jobs' = [jobs EXCEPT ![a] = @ \ {o}]
    /\ UNCHANGED <<mapVars, once, conn, tools, serverVars, threadVars, phase,
                   reaping, early, events>>

CleanEnds(a, o) ==
    /\ lock[o] = a
    /\ \A d \in Datasources : conn[o][d] # "open"
    /\ lock' = [lock EXCEPT ![o] = None]
    /\ jobs' = [jobs EXCEPT ![a] = @ \ {o}]
    /\ UNCHANGED <<mapVars, once, conn, tools, serverVars, threadVars, phase,
                   reaping, early, events>>

-----------------------------------------------------------------------------
(* Requests: the OnBeforeListTools / OnBeforeCallTool hook *)

Request(t, s, d) ==
    /\ pc[t] = "idle"
    /\ events < MaxStates
    /\ events' = events + 1
    /\ sid' = [sid EXCEPT ![t] = s]
    /\ want' = [want EXCEPT ![t] = d]
    /\ Goto(t, "get")
    /\ UNCHANGED <<mapVars, stateVars, serverVars, state, found, cleanVars>>

\* Mutant of GetState: sessions are cleaned under the manager's mutex.
GetStateAfterCleanup(t) ==
    LET o == sessions[sid[t]] IN
    /\ pc[t] \in {"get", "getAgain"}
    /\ \A a \in Cleaners : jobs[a] = {}
    /\ GetSession(sid[t])
    /\ state' = [state EXCEPT ![t] = o]
    /\ Goto(t, IF o # None THEN "once"
               ELSE IF pc[t] = "get" THEN "create" ELSE "hooked")
    /\ UNCHANGED <<stateVars, serverVars, sid, want, found, cleanVars, events>>

\* The state of the session; when there is none, create one and look again.
GetState(t) ==
    LET o == sessions[sid[t]] IN
    /\ pc[t] \in {"get", "getAgain"}
    /\ GetSession(sid[t])
    /\ state' = [state EXCEPT ![t] = o]
    /\ Goto(t, IF o # None THEN "once"
               ELSE IF pc[t] = "get" THEN "create" ELSE "hooked")
    /\ UNCHANGED <<stateVars, serverVars, sid, want, found, cleanVars, events>>

CreateState(t) ==
    /\ pc[t] = "create"
    /\ CreateSession(sid[t])
    /\ Goto(t, "getAgain")
    /\ UNCHANGED <<stateVars, serverVars, sid, want, state, found, cleanVars,
                   events>>

\* Mutant of EnterOnce: every request initialises the state anew.
EnterAlways(t) ==
    /\ pc[t] = "once"
    /\ once' = [once EXCEPT ![state[t]] = "running"]
    /\ Goto(t, "discover")
    /\ UNCHANGED <<mapVars, conn, tools, lock, serverVars, sid, want, state,
                   found, cleanVars, events>>

\* sync.Once: the first runs, the others wait until it has run.
EnterOnce(t) ==
    LET o == state[t] IN
    /\ pc[t] = "once"
    /\ \/ /\ once[o] = "new"
          /\ once' = [once EXCEPT ![o] = "running"]
          /\ Goto(t, "discover")
       \/ /\ once[o] = "done"
          /\ Goto(t, "register")
          /\ UNCHANGED once
    /\ UNCHANGED <<mapVars, conn, tools, lock, serverVars, sid, want, state,
                   found, cleanVars, events>>

\* discoverMCPDatasources, without any lock: it fails or finds some.  A failure
\* ends initOnce for good.
Discover(t, ds) ==
    /\ pc[t] = "discover"
    /\ found' = [found EXCEPT ![t] = ds]
    /\ Goto(t, "lock")
    /\ UNCHANGED <<mapVars, stateVars, serverVars, sid, want, state, cleanVars,
                   events>>

DiscoveryFails(t) ==
    /\ pc[t] = "discover"
    /\ lock[state[t]] = None
    /\ once' = [once EXCEPT ![state[t]] = "done"]
    /\ Goto(t, "register")
    /\ UNCHANGED <<mapVars, conn, tools, lock, serverVars, sid, want, state,
                   found, cleanVars, events>>

LockState(t) ==
    /\ pc[t] = "lock"
    /\ lock[state[t]] = None
    /\ lock' = [lock EXCEPT ![state[t]] = t]
    /\ Goto(t, "connect")
    /\ UNCHANGED <<mapVars, once, conn, tools, serverVars, sid, want, state,
                   found, cleanVars, events>>

\* NewProxiedClient for the next datasource; a failure skips it.
Connect(t, d, ok) ==
    /\ pc[t] = "connect"
    /\ d \in found[t]
    /\ found' = [found EXCEPT ![t] = @ \ {d}]
    /\ conn' = IF ok THEN [conn EXCEPT ![state[t]][d] = "open"] ELSE conn
    /\ UNCHANGED <<mapVars, once, tools, lock, serverVars, pc, sid, want,
                   state, cleanVars, events>>

InitDone(t) ==
    /\ pc[t] = "connect"
    /\ found[t] = {}
    /\ lock' = [lock EXCEPT ![state[t]] = None]
    /\ once' = [once EXCEPT ![state[t]] = "done"]
    /\ Goto(t, "register")
    /\ UNCHANGED <<mapVars, conn, tools, serverVars, sid, want, state, found,
                   cleanVars, events>>

\* Step 2 under the state's mutex: collect the tools of all clients and add
\* them to the session, which mcp-go refuses for a session it does not know.
RegisterTools(t) ==
    LET o == state[t]  s == sid[t] IN
    /\ pc[t] = "register"
    /\ lock[o] = None
    /\ Goto(t, "hooked")
    /\ \/ /\ tools[o] # {} \/ Clients(o) = {}
          /\ UNCHANGED <<tools, served>>
       \/ /\ tools[o] = {} /\ Clients(o) # {}
          /\ tools' = [tools EXCEPT ![o] = Clients(o)]
          /\ served' = IF connected[s]
                       THEN [served EXCEPT ![s] = @ \cup Clients(o)]
                       ELSE served
    /\ UNCHANGED <<mapVars, once, conn, lock, connected, sid, want, state,
                   found, cleanVars, events>>

-----------------------------------------------------------------------------
(* Requests: the tool itself *)

\* tools/list, and a call of a tool the session does not have, end here.
Dispatch(t) ==
    /\ pc[t] = "hooked"
    /\ state' = [state EXCEPT ![t] = None]
    /\ Goto(t, IF want[t] # None /\ served[sid[t]] # {} THEN "handle" ELSE "idle")
    /\ UNCHANGED <<mapVars, stateVars, serverVars, sid, want, found, cleanVars,
                   events>>

\* GetProxiedClient: first the session under the manager's mutex ...
HandlerGetsState(t) ==
    LET o == sessions[sid[t]] IN
    /\ pc[t] = "handle"
    /\ GetSession(sid[t])
    /\ state' = [state EXCEPT ![t] = o]
    /\ Goto(t, IF o = None THEN "idle" ELSE "pick")
    /\ UNCHANGED <<stateVars, serverVars, sid, want, found, cleanVars, events>>

\* ... then the client under the state's mutex.  The server-wide fallback has
\* no clients on the HTTP transports, so a missing client is an error.
HandlerGetsClient(t) ==
    LET o == state[t]  hit == want[t] \in Clients(o) IN
    /\ pc[t] = "pick"
    /\ lock[o] = None
    /\ Goto(t, IF hit THEN "call" ELSE "idle")
    /\ state' = [state EXCEPT ![t] = IF hit THEN o ELSE None]
    /\ UNCHANGED <<mapVars, stateVars, serverVars, sid, want, found, cleanVars,
                   events>>

\* CallTool holds the client's mutex for reading during the remote call.  The
\* client may have been closed since it was looked up: the call then fails.
CallBegins(t) ==
    /\ pc[t] = "call"
    /\ Goto(t, "calling")
    /\ UNCHANGED <<mapVars, stateVars, serverVars, sid, want, state, found,
                   cleanVars, events>>

CallEnds(t) ==
    /\ pc[t] = "calling"
    /\ Goto(t, "idle")
    /\ state' = [state EXCEPT ![t] = None]
    /\ UNCHANGED <<mapVars, stateVars, serverVars, sid, want, found, cleanVars,
                   events>>

-----------------------------------------------------------------------------
\* What a thread does by itself, or with the help of servers that it waits for
\* no longer than a limit: the client of the Grafana API and the probes have one.
LocalStep(t) ==
    \/ GetState(t) \/ CreateState(t) \/ EnterOnce(t)
    \/ \E ds \in SUBSET Datasources : Discover(t, ds)
    \/ DiscoveryFails(t) \/ LockState(t)
    \/ InitDone(t) \/ RegisterTools(t) \/ Dispatch(t)
    \/ HandlerGetsState(t) \/ HandlerGetsClient(t)
    \/ CallBegins(t)

\* What ends when the MCP server of a datasource answers.  Its client has no time
\* limit and the context of a request no deadline.
RemoteStep(t) ==
    \/ \E d \in Datasources, ok \in BOOLEAN : Connect(t, d, ok)
    \/ CallEnds(t)

Step(t) == LocalStep(t) \/ RemoteStep(t)

Clean(a) ==
    \E o \in States :
        \/ CleanBegins(a, o) \/ CleanEnds(a, o)
        \/ \E d \in Datasources : CloseClient(a, o, d)

CloseStep == CloseSweeps \/ CloseReturns

Next ==
    \/ \E s \in Sessions : RegisterSession(s) \/ RemoveSession(s)
    \/ \E o \in States : Tick(o)
    \/ Reap \/ ReaperReturns \/ CloseBegins \/ CloseStep
    \/ \E a \in Cleaners : Clean(a)
    \/ \E t \in Threads, s \in Sessions, d \in Datasources \cup {None} :
           Request(t, s, d)
    \/ \E t \in Threads : Step(t)

\* Goroutines that can run are run and the ticker keeps firing.  Requests, removals,
\* the passage of the TTL and Close are not owed, nor are the answers of the MCP
\* servers of datasources, which may be silent for ever.  Closing a client waits
\* for the calls it serves, then for nothing without a limit.
\* Weak fairness is enough for the mutexes: they are taken finitely often.
Fairness ==
    /\ \A t \in Threads : WF_vars(LocalStep(t))
    /\ \A a \in Cleaners : WF_vars(Clean(a))
    /\ WF_vars(Reap) /\ WF_vars(ReaperReturns) /\ WF_vars(CloseStep)

Spec == Init /\ [][Next]_vars /\ Fairness
=============================================================================
