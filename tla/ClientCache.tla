---------------------------- MODULE ClientCache ----------------------------
(***************************************************************************)
(* The cache of Grafana and incident clients shared by all HTTP requests   *)
(* of the MCP server (skuld-mcp-grafana/client_cache.go).                  *)
(*                                                                         *)
(* A request thread looks up its Grafana client and then its incident      *)
(* client.  A lookup reads the map under the read lock; on a miss it       *)
(* enters a singleflight group, whose leader reads the map again, calls    *)
(* createFn without any lock, stores the result under the write lock and   *)
(* lands, handing the same client to every thread that joined the flight.  *)
(* Each critical section of the code is one action.                        *)
(***************************************************************************)
EXTENDS Integers, FiniteSets

CONSTANTS
    Threads,      \* goroutines that serve HTTP requests
    Urls,         \* Grafana base URLs
    ApiKeys,      \* non-empty service account tokens
    Logins,       \* non-empty (username, password) pairs
    Orgs,         \* organisation ids
    Stamps,       \* what createFn read while it built a client
    Requests,     \* the credentials requests carry
    MaxRequests,  \* bound: requests served in a run
    MaxCloses,    \* bound: calls of Close
    None          \* an absent credential, client or thread

Kinds == {"grafana", "incident"}

\* clientCacheKey: what a cached client is filed under.
Key == [url: Urls, apiKey: ApiKeys \cup {None},
        login: Logins \cup {None}, orgID: Orgs]

\* clientCacheKey.String(): credentials are reduced to their presence.
Redacted(k) == [url |-> k.url, hasKey |-> k.apiKey # None,
                hasBasic |-> k.login # None, orgID |-> k.orgID]
RedactedKey == [url: Urls, hasKey: BOOLEAN, hasBasic: BOOLEAN, orgID: Orgs]

\* Mutant of SfKey: one flight for requests with and without basic auth.
SfKeyNoBasic(k) == [Redacted(k) EXCEPT !.hasBasic = FALSE]

\* fmt.Sprintf("%v", key) calls the Stringer of its operand, so the
\* singleflight key is the redacted form.
SfKey(k) == Redacted(k)

Client == [key: Key, serial: Nat, stamp: Stamps]

ASSUME ClientCacheAssumption ==
    /\ Requests \subseteq Key
    /\ Requests # {}
    /\ None \notin Threads \cup ApiKeys \cup Logins \cup Client
    /\ MaxRequests \in Nat
    /\ MaxCloses \in Nat

VARIABLES
    clients,   \* the two maps: kind -> key -> client or None
    flight,    \* the two singleflight groups: kind -> SfKey -> leader or None
    pc,        \* where each thread is in its lookup
    kind,      \* which client it is looking up
    req,       \* the credentials of its request
    leader,    \* the thread whose flight it joined, or None
    val,       \* the client it is about to store or return, or None
    lookups, hits, misses, size,   \* the OTel instruments, per kind
    created,   \* history: clients created per kind and key
    requested, \* number of requests begun
    closes     \* number of calls of Close

lookup == <<pc, kind, req, leader, val>>
metrics == <<lookups, hits, misses, size>>
vars == <<clients, flight, lookup, metrics, created, requested, closes>>

Locations == {"idle", "fast", "enter", "wait", "recheck", "create", "store",
              "land", "got"}
Leading == {"recheck", "create", "store", "land"}

\* The grafana key carries the basic auth of the request, the incident key
\* never does.
KeyFor(kd, r) == IF kd = "incident" THEN [r EXCEPT !.login = None] ELSE r

KeyOf(t) == KeyFor(kind[t], req[t])

\* Mutant of Passengers: a flight that forgets who joined it.
NoPassengers(t) == {}

Passengers(t) == {w \in Threads : pc[w] = "wait" /\ leader[w] = t}

Init ==
    /\ clients = [kd \in Kinds |-> [k \in Key |-> None]]
    /\ flight = [kd \in Kinds |-> [s \in RedactedKey |-> None]]
    /\ pc = [t \in Threads |-> "idle"]
    /\ kind = [t \in Threads |-> "grafana"]
    /\ req = [t \in Threads |-> CHOOSE r \in Requests : TRUE]
    /\ leader = [t \in Threads |-> None]
    /\ val = [t \in Threads |-> None]
    /\ lookups = [kd \in Kinds |-> 0]
    /\ hits = [kd \in Kinds |-> 0]
    /\ misses = [kd \in Kinds |-> 0]
    /\ size = [kd \in Kinds |-> 0]
    /\ created = [kd \in Kinds |-> [k \in Key |-> 0]]
    /\ requested = 0
    /\ closes = 0

-----------------------------------------------------------------------------
(* A request arrives; its first lookup is for the Grafana client. *)
Request(t, r) ==
    /\ pc[t] = "idle"
    /\ requested < MaxRequests
    /\ requested' = requested + 1
    /\ pc' = [pc EXCEPT ![t] = "fast"]
    /\ kind' = [kind EXCEPT ![t] = "grafana"]
    /\ req' = [req EXCEPT ![t] = r]
    /\ lookups' = [lookups EXCEPT !["grafana"] = @ + 1]
    /\ UNCHANGED <<clients, flight, leader, val, hits, misses, size, created,
                   closes>>

(* Fast path: one read-locked look at the map. *)
FastHit(t) ==
    /\ pc[t] = "fast"
    /\ clients[kind[t]][KeyOf(t)] # None
    /\ val' = [val EXCEPT ![t] = clients[kind[t]][KeyOf(t)]]
    /\ hits' = [hits EXCEPT ![kind[t]] = @ + 1]
    /\ pc' = [pc EXCEPT ![t] = "got"]
    /\ UNCHANGED <<clients, flight, kind, req, leader, lookups, misses, size,
                   created, requested, closes>>

FastMiss(t) ==
    /\ pc[t] = "fast"
    /\ clients[kind[t]][KeyOf(t)] = None
    /\ pc' = [pc EXCEPT ![t] = "enter"]
    /\ UNCHANGED <<clients, flight, kind, req, leader, val, metrics, created,
                   requested, closes>>

(* singleflight.Group.Do: lead a new flight or join the one in the air. *)
Lead(t) ==
    /\ pc[t] = "enter"
    /\ flight[kind[t]][SfKey(KeyOf(t))] = None
    /\ flight' = [flight EXCEPT ![kind[t]][SfKey(KeyOf(t))] = t]
    /\ pc' = [pc EXCEPT ![t] = "recheck"]
    /\ UNCHANGED <<clients, kind, req, leader, val, metrics, created,
                   requested, closes>>

Join(t) ==
    /\ pc[t] = "enter"
    /\ flight[kind[t]][SfKey(KeyOf(t))] # None
    /\ leader' = [leader EXCEPT ![t] = flight[kind[t]][SfKey(KeyOf(t))]]
    /\ pc' = [pc EXCEPT ![t] = "wait"]
    /\ UNCHANGED <<clients, flight, kind, req, val, metrics, created,
                   requested, closes>>

\* Mutant of Recheck: the leader creates without looking again.
RecheckSkipped(t) ==
    /\ pc[t] = "recheck"
    /\ pc' = [pc EXCEPT ![t] = "create"]
    /\ UNCHANGED <<clients, flight, kind, req, leader, val, metrics, created,
                   requested, closes>>

(* The leader looks again under the read lock. *)
Recheck(t) ==
    LET cached == clients[kind[t]][KeyOf(t)] IN
    /\ pc[t] = "recheck"
    /\ val' = [val EXCEPT ![t] = cached]
    /\ pc' = [pc EXCEPT ![t] = IF cached # None THEN "land" ELSE "create"]
    /\ UNCHANGED <<clients, flight, kind, req, leader, metrics, created,
                   requested, closes>>

\* Mutant of Create: the client is filed under the key of its flight.
CreateForFlight(t, stamp) ==
    LET kd == kind[t]  k == KeyOf(t) IN
    /\ pc[t] = "create"
    /\ created' = [created EXCEPT ![kd][k] = @ + 1]
    /\ val' = [val EXCEPT ![t] = [key |-> SfKey(k), serial |-> created[kd][k],
                                  stamp |-> stamp]]
    /\ pc' = [pc EXCEPT ![t] = "store"]
    /\ UNCHANGED <<clients, flight, kind, req, leader, metrics, requested,
                   closes>>

(* createFn, outside every lock. *)
Create(t, stamp) ==
    LET kd == kind[t]  k == KeyOf(t) IN
    /\ pc[t] = "create"
    /\ created' = [created EXCEPT ![kd][k] = @ + 1]
    /\ val' = [val EXCEPT ![t] = [key |-> k, serial |-> created[kd][k],
                                  stamp |-> stamp]]
    /\ pc' = [pc EXCEPT ![t] = "store"]
    /\ UNCHANGED <<clients, flight, kind, req, leader, metrics, requested,
                   closes>>

Store(t) ==
    LET kd == kind[t] IN
    /\ pc[t] = "store"
    /\ clients' = [clients EXCEPT ![kd][KeyOf(t)] = val[t]]
    /\ misses' = [misses EXCEPT ![kd] = @ + 1]
    /\ size' = [size EXCEPT ![kd] =
                   Cardinality({k \in Key : clients'[kd][k] # None})]
    /\ pc' = [pc EXCEPT ![t] = "land"]
    /\ UNCHANGED <<flight, kind, req, leader, val, lookups, hits, created,
                   requested, closes>>

(* The flight ends: its key is freed and all its passengers get the value. *)
Land(t) ==
    /\ pc[t] = "land"
    /\ flight' = [flight EXCEPT ![kind[t]][SfKey(KeyOf(t))] = None]
    /\ pc' = [w \in Threads |-> IF w \in Passengers(t) \cup {t} THEN "got"
                                ELSE pc[w]]
    /\ val' = [w \in Threads |-> IF w \in Passengers(t) THEN val[t] ELSE val[w]]
    /\ UNCHANGED <<clients, kind, req, leader, metrics, created, requested,
                   closes>>

(* NewGrafanaClient panics on a bad URL or TLS file.  singleflight re-raises *)
(* the panic in every passenger and net/http drops those requests.          *)
CreatePanics(t) ==
    LET lost == Passengers(t) \cup {t} IN
    /\ pc[t] = "create"
    /\ kind[t] = "grafana"
    /\ flight' = [flight EXCEPT !["grafana"][SfKey(KeyOf(t))] = None]
    /\ pc' = [w \in Threads |-> IF w \in lost THEN "idle" ELSE pc[w]]
    /\ leader' = [w \in Threads |-> IF w \in lost THEN None ELSE leader[w]]
    /\ val' = [w \in Threads |-> IF w \in lost THEN None ELSE val[w]]
    /\ UNCHANGED <<clients, kind, req, metrics, created, requested, closes>>

(* The client goes into the request's context; the incident lookup follows  *)
(* the Grafana lookup, and the request's handler follows both.              *)
Return(t) ==
    /\ pc[t] = "got"
    /\ val' = [val EXCEPT ![t] = None]
    /\ leader' = [leader EXCEPT ![t] = None]
    /\ \/ /\ kind[t] = "grafana"
          /\ kind' = [kind EXCEPT ![t] = "incident"]
          /\ pc' = [pc EXCEPT ![t] = "fast"]
          /\ lookups' = [lookups EXCEPT !["incident"] = @ + 1]
       \/ /\ kind[t] = "incident"
          /\ pc' = [pc EXCEPT ![t] = "idle"]
          /\ UNCHANGED <<kind, lookups>>
    /\ UNCHANGED <<clients, flight, req, hits, misses, size, created,
                   requested, closes>>

\* Mutant of Close: the maps are emptied and the gauge keeps its value.
CloseKeepsSize ==
    /\ closes < MaxCloses
    /\ closes' = closes + 1
    /\ clients' = [kd \in Kinds |-> [k \in Key |-> None]]
    /\ UNCHANGED <<flight, lookup, metrics, created, requested>>

(* Close empties both maps under the write lock and leaves flights alone. *)
Close ==
    /\ closes < MaxCloses
    /\ closes' = closes + 1
    /\ clients' = [kd \in Kinds |-> [k \in Key |-> None]]
    /\ size' = [kd \in Kinds |-> 0]
    /\ UNCHANGED <<flight, lookup, lookups, hits, misses, created, requested>>

-----------------------------------------------------------------------------
Step(t) ==
    \/ FastHit(t) \/ FastMiss(t) \/ Lead(t) \/ Join(t) \/ Recheck(t)
    \/ \E stamp \in Stamps : Create(t, stamp)
    \/ Store(t) \/ Land(t) \/ CreatePanics(t) \/ Return(t)

Next ==
    \/ \E t \in Threads, r \in Requests : Request(t, r)
    \/ \E t \in Threads : Step(t)
    \/ Close

\* A goroutine that can run is run, and createFn ends: its only network call
\* has a timeout of five seconds.  Requests and Close are not owed.
Fairness == \A t \in Threads : WF_vars(Step(t))

Spec == Init /\ [][Next]_vars /\ Fairness
=============================================================================
