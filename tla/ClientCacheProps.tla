------------------------- MODULE ClientCacheProps -------------------------
(* The correctness properties of ClientCache. *)
EXTENDS ClientCache

\* Every variable holds a value of its kind.
TypeOK ==
    /\ clients \in [Kinds -> [Key -> Client \cup {None}]]
    /\ flight \in [Kinds -> [RedactedKey -> Threads \cup {None}]]
    /\ pc \in [Threads -> Locations]
    /\ kind \in [Threads -> Kinds]
    /\ req \in [Threads -> Requests]
    /\ leader \in [Threads -> Threads \cup {None}]
    /\ val \in [Threads -> Client \cup {None}]
    /\ lookups \in [Kinds -> Nat]
    /\ hits \in [Kinds -> Nat]
    /\ misses \in [Kinds -> Nat]
    /\ size \in [Kinds -> Nat]
    /\ created \in [Kinds -> [Key -> Nat]]
    /\ requested \in Nat
    /\ closes \in Nat

\* A thread never returns from a lookup without a client, the client talks to
\* the URL and organisation the caller asked for, and it is of another
\* credential only when the thread joined another thread's flight: the map
\* itself never mixes keys (client_cache.go 122-129, 136-156).
ReturnedForTarget ==
    \A t \in Threads : pc[t] = "got" =>
        /\ val[t] # None
        /\ Redacted(val[t].key) = Redacted(KeyOf(t))
        /\ leader[t] = None => val[t].key = KeyOf(t)

\* createFn runs once per key between two calls of Close, however many threads
\* miss together (the claim of TestClientCache_ConcurrentAccess): the
\* double-check after winning the flight is what keeps a late leader from
\* creating a second client.  A flight in the air during Close adds its own.
OneClientPerKey ==
    \A kd \in Kinds, k \in Key : created[kd][k] <= 1 + closes

\* A cached client is never replaced by another one under the same key: it
\* stays until Close drops it, so the transports of a key are not duplicated.
EntryNeverReplaced ==
    [][\A kd \in Kinds, k \in Key :
          clients[kd][k] # None => clients'[kd][k] \in {clients[kd][k], None}]_vars

\* The size gauge equals the number of cached clients of its kind, also when
\* a store lands after Close.
GaugeMatchesMap ==
    \A kd \in Kinds :
        size[kd] = Cardinality({k \in Key : clients[kd][k] # None})

\* Every request gets through both lookups (or is dropped by a panic), also
\* the ones that wait for another thread's flight.
LookupEnds == \A t \in Threads : pc[t] # "idle" ~> pc[t] = "idle"

-----------------------------------------------------------------------------
\* "Use fmt.Sprintf("%v", key) for the singleflight key to include actual
\* credential values (the struct fields), not the redacted String() output"
\* (client_cache.go:132-133): a lookup returns a client of its own key.
ReturnedForKey ==
    \A t \in Threads : pc[t] = "got" => val[t].key = KeyOf(t)
=============================================================================
