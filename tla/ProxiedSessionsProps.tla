----------------------- MODULE ProxiedSessionsProps -----------------------
(* The correctness properties of ProxiedSessions. *)
EXTENDS ProxiedSessions

\* A session state is taken out of the map by exactly one of RemoveSession,
\* the reaper and Close, however they race, and is out of it while it is being
\* cleaned: no client is closed twice (session.go 139-152, 166-188, 211-238).
CleanedOnce ==
    \A a \in Cleaners :
        /\ jobs[a] \cap Live = {}
        /\ \A b \in Cleaners : a # b => jobs[a] \cap jobs[b] = {}

\* No request that finds its session in the map finds a closed client there.
LiveClientsOpen ==
    \A o \in Live, d \in Datasources : conn[o][d] # "closed"

\* When the cleanup of a removed state is over its clients are closed, unless
\* the cleanup came before the state's initOnce had run.
LeakOnlyWhenEarly ==
    \A o \in 1 .. made, d \in Datasources :
        /\ o \notin Live \cup early
        /\ \A a \in Cleaners : o \notin jobs[a]
        => conn[o][d] # "open"

\* The tools a state has collected are those of all its clients: no request
\* collects them while another is still connecting.
ToolsMatchClients ==
    \A o \in States : tools[o] # {} => tools[o] = Clients(o)

\* A client is never closed under a call in progress, and a client is opened
\* only by the one thread that runs the state's initOnce.
ClientSteps ==
    [][\A o \in States, d \in Datasources :
          /\ conn[o][d] = "open" /\ conn'[o][d] = "closed" => Calling(o, d) = {}
          /\ conn'[o][d] = "open" =>
                \/ conn[o][d] = "open"
                \/ conn[o][d] = "none" /\ once[o] = "running"
      ]_vars

\* A thread waits for the MCP server of a datasource, which may never answer.
Remote(u) == pc[u] = "calling" \/ (pc[u] = "connect" /\ found[u] # {})

\* Every request ends, however initOnce, the mutexes and the cleanups interleave,
\* unless a server is silent: then it holds up requests of the session state that
\* it was asked for, and no others, not even while that state is being cleaned.
RequestEnds ==
    \A t \in Threads :
        \/ []<>(pc[t] = "idle")
        \/ <>[](state[t] # None /\ \E u \in Threads : Remote(u) /\ state[u] = state[t])

\* Close returns, although it waits for the reaper and both wait for connections
\* and calls in progress.  Only a silent server of a state that one of the two has
\* to clean keeps it from returning.
CloseEnds ==
    \/ phase = "stopping" ~> phase = "closed"
    \/ <>[](\E u \in Threads, a \in {"reaper", "closer"} : Remote(u) /\ state[u] \in jobs[a])

\* An idle session is taken out of the map or used again until Close sweeps the
\* map, unless the reaper is held up for ever in the cleanup of a state that it
\* took before and whose server is silent.
IdleReaped ==
    \A o \in States :
        \/ o \in Live /\ idle[o] ~> \/ o \notin Live \/ ~idle[o]
                                   \/ phase \in {"sweeping", "closed"}
        \/ <>[](\E u \in Threads : Remote(u) /\ state[u] \in jobs["reaper"])

-----------------------------------------------------------------------------
\* "cleanupSessionState closes all proxied clients in a session state."
\* (session.go:154): once a removed state has been cleaned and no thread is
\* initialising it, none of its clients is open.
NothingLeaks ==
    \A o \in 1 .. made, d \in Datasources :
        /\ o \notin Live
        /\ once[o] = "done"
        /\ \A a \in Cleaners : o \notin jobs[a]
        => conn[o][d] # "open"

\* "Sessions idle longer than this duration are automatically reaped."
\* (session.go:74-75): an idle session is taken out of the map or used again, as long
\* as Close does not begin.  The reaper cleans what it took before it looks again.
IdleSessionsReaped ==
    \A o \in States :
        o \in Live /\ idle[o] ~> o \notin Live \/ ~idle[o] \/ phase # "running"
=============================================================================
