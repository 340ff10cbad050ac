------------------------- MODULE ClientCacheProofs -------------------------
(***************************************************************************)
(* Proofs about ClientCache for any number of threads, credentials and     *)
(* requests: type correctness, what a lookup returns, and that a cached    *)
(* client is never replaced.                                               *)
(***************************************************************************)
EXTENDS ClientCacheProps, FiniteSetTheorems, TLAPS

Cached(kd) == {k \in Key : clients[kd][k] # None}

\* A thread leads a flight exactly when the group's map names it under the
\* singleflight key of what it looks up.
LeadersOwnFlights ==
    /\ \A t \in Threads : pc[t] \in Leading => flight[kind[t]][SfKey(KeyOf(t))] = t
    /\ \A kd \in Kinds, s \in RedactedKey : flight[kd][s] # None =>
          /\ pc[flight[kd][s]] \in Leading
          /\ kind[flight[kd][s]] = kd
          /\ SfKey(KeyOf(flight[kd][s])) = s

\* A thread waits only for a flight that is in the air under its own
\* singleflight key.
WaitersHaveLeaders ==
    \A w \in Threads : pc[w] = "wait" =>
        /\ leader[w] # None
        /\ flight[kind[w]][SfKey(KeyOf(w))] = leader[w]

\* The map files each client under the key it was created for.
CachedUnderOwnKey ==
    \A kd \in Kinds, k \in Key : clients[kd][k] # None => clients[kd][k].key = k

\* What a leader is about to store or hand out was made for its own key.
LeadersHoldOwnClient ==
    \A t \in Threads : pc[t] \in {"store", "land"} =>
        /\ val[t] # None
        /\ val[t].key = KeyOf(t)

\* While a leader creates a client, nobody stores one under its key.
NothingCachedMeanwhile ==
    \A t \in Threads : pc[t] \in {"create", "store"} =>
        clients[kind[t]][KeyOf(t)] = None

\* Only finitely many clients are cached.
CachedFinite == \A kd \in Kinds : IsFiniteSet(Cached(kd))

\* The inductive invariant.
IInv ==
    /\ TypeOK
    /\ LeadersOwnFlights
    /\ WaitersHaveLeaders
    /\ CachedUnderOwnKey
    /\ LeadersHoldOwnClient
    /\ NothingCachedMeanwhile
    /\ CachedFinite
    /\ ReturnedForTarget

-----------------------------------------------------------------------------
\* A lookup key is a key, whichever client is looked up.
LEMMA KeyForType ==
    ASSUME NEW kd \in Kinds, NEW r \in Requests
    PROVE  KeyFor(kd, r) \in Key
  BY ClientCacheAssumption DEF KeyFor, Key

\* Redacting a key gives a key of the singleflight groups.
LEMMA SfKeyType ==
    ASSUME NEW k \in Key
    PROVE  SfKey(k) \in RedactedKey
  BY DEF Key, RedactedKey, SfKey, Redacted

\* What a thread looks up, and the flight it would join, are keys.
LEMMA KeyOfType ==
    ASSUME TypeOK, NEW t \in Threads
    PROVE  /\ kind[t] \in Kinds
           /\ KeyOf(t) \in Key
           /\ SfKey(KeyOf(t)) \in RedactedKey
  BY KeyForType, SfKeyType DEF TypeOK, KeyOf

\* None is neither a thread nor a client.
LEMMA NoneIsNone == None \notin Threads /\ None \notin Client
  BY ClientCacheAssumption

\* The two kinds of clients.
LEMMA KindsAre == "grafana" \in Kinds /\ "incident" \in Kinds
  BY DEF Kinds

-----------------------------------------------------------------------------
\* The cache starts well typed.
LEMMA TypeOKInit == Init => TypeOK
  <1> SUFFICES ASSUME Init PROVE TypeOK
    OBVIOUS
  <1>1. (CHOOSE r \in Requests : TRUE) \in Requests
    BY ClientCacheAssumption
  <1>2. QED
    BY <1>1 DEF Init, TypeOK, Locations, Kinds

\* Every step of a lookup and of Close keeps the cache well typed; a store
\* records a size that is a number because a cache is finite.
LEMMA TypeOKStep ==
    ASSUME TypeOK, CachedFinite, [Next]_vars
    PROVE  TypeOK'
  <1> USE DEF TypeOK, Locations
  <1>1. ASSUME NEW t \in Threads, NEW r \in Requests, Request(t, r)
        PROVE  TypeOK'
    BY <1>1, KindsAre DEF Request
  <1>2. ASSUME NEW t \in Threads, FastHit(t)
        PROVE  TypeOK'
    BY <1>2, KeyOfType DEF FastHit
  <1>3. ASSUME NEW t \in Threads, FastMiss(t)
        PROVE  TypeOK'
    BY <1>3 DEF FastMiss, metrics
  <1>4. ASSUME NEW t \in Threads, Lead(t)
        PROVE  TypeOK'
    BY <1>4, KeyOfType DEF Lead, metrics
  <1>5. ASSUME NEW t \in Threads, Join(t)
        PROVE  TypeOK'
    BY <1>5, KeyOfType DEF Join, metrics
  <1>6. ASSUME NEW t \in Threads, Recheck(t)
        PROVE  TypeOK'
    BY <1>6, KeyOfType DEF Recheck, metrics
  <1>7. ASSUME NEW t \in Threads, NEW stamp \in Stamps, Create(t, stamp)
        PROVE  TypeOK'
    <2> DEFINE kd == kind[t]
               k == KeyOf(t)
               c == [key |-> k, serial |-> created[kd][k], stamp |-> stamp]
    <2>1. kd \in Kinds /\ k \in Key
      BY KeyOfType
    <2>2. c \in Client
      BY <2>1 DEF Client
    <2>3. created' \in [Kinds -> [Key -> Nat]]
      BY <1>7, <2>1 DEF Create
    <2>4. val' \in [Threads -> Client \cup {None}]
      BY <1>7, <2>2 DEF Create
    <2>5. pc' \in [Threads -> Locations]
      BY <1>7 DEF Create
    <2>6. QED
      BY <1>7, <2>3, <2>4, <2>5 DEF Create, metrics
  <1>8. ASSUME NEW t \in Threads, Store(t)
        PROVE  TypeOK'
    <2>1. kind[t] \in Kinds /\ KeyOf(t) \in Key
      BY KeyOfType
    <2>2. clients' \in [Kinds -> [Key -> Client \cup {None}]]
      BY <1>8, <2>1 DEF Store
    <2>3. Cached(kind[t])' \subseteq Cached(kind[t]) \cup {KeyOf(t)}
      BY <1>8, <2>1 DEF Store, Cached
    <2>4. IsFiniteSet(Cached(kind[t])')
      BY <2>1, <2>3, FS_AddElement, FS_Subset DEF CachedFinite
    <2>5. Cardinality({k \in Key : clients'[kind[t]][k] # None}) \in Nat
      BY <1>8, <2>4, FS_CardinalityType DEF Store, Cached
    <2>6. size' \in [Kinds -> Nat] /\ misses' \in [Kinds -> Nat]
      BY <1>8, <2>5, <2>1 DEF Store
    <2>7. pc' \in [Threads -> Locations]
      BY <1>8 DEF Store
    <2>8. QED
      BY <1>8, <2>2, <2>6, <2>7 DEF Store
  <1>9. ASSUME NEW t \in Threads, Land(t)
        PROVE  TypeOK'
    BY <1>9, KeyOfType DEF Land, metrics
  <1>10. ASSUME NEW t \in Threads, CreatePanics(t)
         PROVE  TypeOK'
    BY <1>10, KeyOfType, KindsAre DEF CreatePanics, metrics
  <1>11. ASSUME NEW t \in Threads, Return(t)
         PROVE  TypeOK'
    <2>1. /\ kind' \in [Threads -> Kinds]
          /\ pc' \in [Threads -> Locations]
          /\ lookups' \in [Kinds -> Nat]
      <3>1. CASE kind[t] = "grafana"
        <4>1. /\ kind' = [kind EXCEPT ![t] = "incident"]
              /\ pc' = [pc EXCEPT ![t] = "fast"]
              /\ lookups' = [lookups EXCEPT !["incident"] = @ + 1]
          BY <1>11, <3>1 DEF Return
        <4>2. QED
          BY <4>1, KindsAre
      <3>2. CASE kind[t] = "incident"
        <4>1. kind' = kind /\ lookups' = lookups /\ pc' = [pc EXCEPT ![t] = "idle"]
          BY <1>11, <3>2 DEF Return
        <4>2. QED
          BY <4>1
      <3>3. QED
        BY <1>11, <3>1, <3>2 DEF Return
    <2>2. leader' \in [Threads -> Threads \cup {None}] /\ val' \in [Threads -> Client \cup {None}]
      BY <1>11 DEF Return
    <2>3. QED
      BY <1>11, <2>1, <2>2 DEF Return
  <1>12. ASSUME Close
         PROVE  TypeOK'
    BY <1>12 DEF Close, lookup
  <1>13. CASE UNCHANGED vars
    BY <1>13 DEF vars, lookup, metrics
  <1>14. QED
    BY <1>1, <1>2, <1>3, <1>4, <1>5, <1>6, <1>7, <1>8, <1>9, <1>10, <1>11,
       <1>12, <1>13 DEF Next, Step

-----------------------------------------------------------------------------
\* Flights and their leaders stay matched.
LEMMA LeadersOwnFlightsStep ==
    ASSUME TypeOK, LeadersOwnFlights, [Next]_vars
    PROVE  LeadersOwnFlights'
  <1> USE DEF TypeOK, LeadersOwnFlights, Leading, KeyOf, lookup, metrics
  <1>1. ASSUME NEW t \in Threads, NEW r \in Requests, Request(t, r)
        PROVE  LeadersOwnFlights'
    BY <1>1, KeyOfType, KindsAre, NoneIsNone DEF Request
  <1>2. ASSUME NEW t \in Threads, FastHit(t)
        PROVE  LeadersOwnFlights'
    BY <1>2, KeyOfType, KindsAre, NoneIsNone DEF FastHit
  <1>3. ASSUME NEW t \in Threads, FastMiss(t)
        PROVE  LeadersOwnFlights'
    BY <1>3, KeyOfType, KindsAre, NoneIsNone DEF FastMiss
  <1>4. ASSUME NEW t \in Threads, Lead(t)
        PROVE  LeadersOwnFlights'
    BY <1>4, KeyOfType, KindsAre, NoneIsNone DEF Lead
  <1>5. ASSUME NEW t \in Threads, Join(t)
        PROVE  LeadersOwnFlights'
    BY <1>5, KeyOfType, KindsAre, NoneIsNone DEF Join
  <1>6. ASSUME NEW t \in Threads, Recheck(t)
        PROVE  LeadersOwnFlights'
    BY <1>6, KeyOfType, KindsAre, NoneIsNone DEF Recheck
  <1>7. ASSUME NEW t \in Threads, NEW stamp \in Stamps, Create(t, stamp)
        PROVE  LeadersOwnFlights'
    BY <1>7, KeyOfType, KindsAre, NoneIsNone DEF Create
  <1>8. ASSUME NEW t \in Threads, Store(t)
        PROVE  LeadersOwnFlights'
    BY <1>8, KeyOfType, KindsAre, NoneIsNone DEF Store
  <1>9. ASSUME NEW t \in Threads, Land(t)
        PROVE  LeadersOwnFlights'
    <2>1. ASSUME NEW u \in Threads, pc'[u] \in Leading
          PROVE  flight'[kind'[u]][SfKey(KeyOf(u)')] = u
      <3>1. u # t /\ pc[u] \in Leading
        BY <1>9, <2>1 DEF Land, Passengers
      <3>2. /\ flight[kind[u]][SfKey(KeyOf(u))] = u
            /\ flight[kind[t]][SfKey(KeyOf(t))] = t
        BY <1>9, <3>1 DEF Land
      <3>3. kind'[u] = kind[u] /\ KeyOf(u)' = KeyOf(u)
        BY <1>9 DEF Land
      <3>4. QED
        BY <1>9, <3>1, <3>2, <3>3, KeyOfType, KindsAre DEF Land
    <2>2. ASSUME NEW kd \in Kinds, NEW s \in RedactedKey, flight'[kd][s] # None
          PROVE  /\ pc'[flight'[kd][s]] \in Leading
                 /\ kind'[flight'[kd][s]] = kd
                 /\ SfKey(KeyFor(kind'[flight'[kd][s]], req'[flight'[kd][s]])) = s
      <3>1. flight'[kd][s] = flight[kd][s] /\ ~(kd = kind[t] /\ s = SfKey(KeyOf(t)))
        BY <1>9, <2>2, KeyOfType, KindsAre DEF Land
      <3> DEFINE l == flight[kd][s]
      <3>2. l \in Threads /\ pc[l] \in Leading /\ kind[l] = kd /\ SfKey(KeyOf(l)) = s
        BY <2>2, <3>1
      <3>3. l # t /\ l \notin Passengers(t)
        BY <3>1, <3>2 DEF Passengers
      <3>4. pc'[l] = pc[l] /\ kind'[l] = kind[l] /\ KeyOf(l)' = KeyOf(l)
        BY <1>9, <3>2, <3>3 DEF Land
      <3>5. QED
        BY <3>1, <3>2, <3>4
    <2>3. QED
      BY <1>9, <2>1, <2>2 DEF Land
  <1>10. ASSUME NEW t \in Threads, CreatePanics(t)
        PROVE  LeadersOwnFlights'
    <2>1. ASSUME NEW u \in Threads, pc'[u] \in Leading
          PROVE  flight'[kind'[u]][SfKey(KeyOf(u)')] = u
      <3>1. u # t /\ pc[u] \in Leading
        BY <1>10, <2>1 DEF CreatePanics, Passengers
      <3>2. /\ flight[kind[u]][SfKey(KeyOf(u))] = u
            /\ flight[kind[t]][SfKey(KeyOf(t))] = t
        BY <1>10, <3>1 DEF CreatePanics
      <3>3. kind'[u] = kind[u] /\ KeyOf(u)' = KeyOf(u)
        BY <1>10 DEF CreatePanics
      <3>4. QED
        BY <1>10, <3>1, <3>2, <3>3, KeyOfType, KindsAre DEF CreatePanics
    <2>2. ASSUME NEW kd \in Kinds, NEW s \in RedactedKey, flight'[kd][s] # None
          PROVE  /\ pc'[flight'[kd][s]] \in Leading
                 /\ kind'[flight'[kd][s]] = kd
                 /\ SfKey(KeyFor(kind'[flight'[kd][s]], req'[flight'[kd][s]])) = s
      <3>1. flight'[kd][s] = flight[kd][s] /\ ~(kd = kind[t] /\ s = SfKey(KeyOf(t)))
        BY <1>10, <2>2, KeyOfType, KindsAre DEF CreatePanics
      <3> DEFINE l == flight[kd][s]
      <3>2. l \in Threads /\ pc[l] \in Leading /\ kind[l] = kd /\ SfKey(KeyOf(l)) = s
        BY <2>2, <3>1
      <3>3. l # t /\ l \notin Passengers(t)
        BY <3>1, <3>2 DEF Passengers
      <3>4. pc'[l] = pc[l] /\ kind'[l] = kind[l] /\ KeyOf(l)' = KeyOf(l)
        BY <1>10, <3>2, <3>3 DEF CreatePanics
      <3>5. QED
        BY <3>1, <3>2, <3>4
    <2>3. QED
      BY <1>10, <2>1, <2>2 DEF CreatePanics
  <1>11. ASSUME NEW t \in Threads, Return(t)
        PROVE  LeadersOwnFlights'
    <2>1. /\ flight' = flight
          /\ pc'[t] \notin Leading /\ pc[t] \notin Leading
          /\ \A u \in Threads \ {t} : /\ pc'[u] = pc[u]
                                       /\ kind'[u] = kind[u]
                                       /\ KeyOf(u)' = KeyOf(u)
      BY <1>11 DEF Return
    <2> HIDE DEF KeyOf
    <2>2. \A u \in Threads : pc'[u] \in Leading =>
             flight'[kind'[u]][SfKey(KeyOf(u)')] = u
      BY <2>1
    <2>3. ASSUME NEW kd \in Kinds, NEW s \in RedactedKey, NEW l,
                 l = flight'[kd][s], l # None
          PROVE  /\ pc'[l] \in Leading
                 /\ kind'[l] = kd
                 /\ SfKey(KeyOf(l)') = s
      <3>1. l = flight[kd][s] /\ l \in Threads \ {t}
        BY <2>1, <2>3
      <3>2. QED
        BY <2>1, <2>3, <3>1
    <2>4. QED
      BY <2>2, <2>3
  <1>12. ASSUME Close
        PROVE  LeadersOwnFlights'
    BY <1>12, KeyOfType, KindsAre, NoneIsNone DEF Close
  <1>13. CASE UNCHANGED vars
    BY <1>13 DEF vars
  <1>14. QED
    BY <1>1, <1>2, <1>3, <1>4, <1>5, <1>6, <1>7, <1>8, <1>9, <1>10,
       <1>11, <1>12, <1>13 DEF Next, Step

\* A flight in the air keeps its passengers until it lands.
LEMMA WaitersHaveLeadersStep ==
    ASSUME TypeOK, LeadersOwnFlights, WaitersHaveLeaders, [Next]_vars
    PROVE  WaitersHaveLeaders'
  <1> USE DEF TypeOK, LeadersOwnFlights, WaitersHaveLeaders, Leading, KeyOf, Passengers, lookup, metrics
  <1>1. ASSUME NEW t \in Threads, NEW r \in Requests, Request(t, r)
        PROVE  WaitersHaveLeaders'
    BY <1>1, KeyOfType, KindsAre, NoneIsNone DEF Request
  <1>2. ASSUME NEW t \in Threads, FastHit(t)
        PROVE  WaitersHaveLeaders'
    BY <1>2, KeyOfType, KindsAre, NoneIsNone DEF FastHit
  <1>3. ASSUME NEW t \in Threads, FastMiss(t)
        PROVE  WaitersHaveLeaders'
    BY <1>3, KeyOfType, KindsAre, NoneIsNone DEF FastMiss
  <1>4. ASSUME NEW t \in Threads, Lead(t)
        PROVE  WaitersHaveLeaders'
    BY <1>4, KeyOfType, KindsAre, NoneIsNone DEF Lead
  <1>5. ASSUME NEW t \in Threads, Join(t)
        PROVE  WaitersHaveLeaders'
    BY <1>5, KeyOfType, KindsAre, NoneIsNone DEF Join
  <1>6. ASSUME NEW t \in Threads, Recheck(t)
        PROVE  WaitersHaveLeaders'
    BY <1>6, KeyOfType, KindsAre, NoneIsNone DEF Recheck
  <1>7. ASSUME NEW t \in Threads, NEW stamp \in Stamps, Create(t, stamp)
        PROVE  WaitersHaveLeaders'
    BY <1>7, KeyOfType, KindsAre, NoneIsNone DEF Create
  <1>8. ASSUME NEW t \in Threads, Store(t)
        PROVE  WaitersHaveLeaders'
    BY <1>8, KeyOfType, KindsAre, NoneIsNone DEF Store
  <1>9. ASSUME NEW t \in Threads, Land(t)
        PROVE  WaitersHaveLeaders'
    BY <1>9, KeyOfType, KindsAre, NoneIsNone DEF Land
  <1>10. ASSUME NEW t \in Threads, CreatePanics(t)
        PROVE  WaitersHaveLeaders'
    BY <1>10, KeyOfType, KindsAre, NoneIsNone DEF CreatePanics
  <1>11. ASSUME NEW t \in Threads, Return(t)
        PROVE  WaitersHaveLeaders'
    BY <1>11, KeyOfType, KindsAre, NoneIsNone DEF Return
  <1>12. ASSUME Close
        PROVE  WaitersHaveLeaders'
    BY <1>12, KeyOfType, KindsAre, NoneIsNone DEF Close
  <1>13. CASE UNCHANGED vars
    BY <1>13 DEF vars
  <1>14. QED
    BY <1>1, <1>2, <1>3, <1>4, <1>5, <1>6, <1>7, <1>8, <1>9, <1>10,
       <1>11, <1>12, <1>13 DEF Next, Step

\* What a leader carries is of its own key.
LEMMA LeadersHoldOwnClientStep ==
    ASSUME TypeOK, CachedUnderOwnKey, LeadersHoldOwnClient, [Next]_vars
    PROVE  LeadersHoldOwnClient'
  <1> USE DEF TypeOK, CachedUnderOwnKey, LeadersHoldOwnClient, KeyOf, Passengers, lookup, metrics
  <1>1. ASSUME NEW t \in Threads, NEW r \in Requests, Request(t, r)
        PROVE  LeadersHoldOwnClient'
    BY <1>1, KeyOfType, KindsAre, NoneIsNone DEF Request
  <1>2. ASSUME NEW t \in Threads, FastHit(t)
        PROVE  LeadersHoldOwnClient'
    BY <1>2, KeyOfType, KindsAre, NoneIsNone DEF FastHit
  <1>3. ASSUME NEW t \in Threads, FastMiss(t)
        PROVE  LeadersHoldOwnClient'
    BY <1>3, KeyOfType, KindsAre, NoneIsNone DEF FastMiss
  <1>4. ASSUME NEW t \in Threads, Lead(t)
        PROVE  LeadersHoldOwnClient'
    BY <1>4, KeyOfType, KindsAre, NoneIsNone DEF Lead
  <1>5. ASSUME NEW t \in Threads, Join(t)
        PROVE  LeadersHoldOwnClient'
    BY <1>5, KeyOfType, KindsAre, NoneIsNone DEF Join
  <1>6. ASSUME NEW t \in Threads, Recheck(t)
        PROVE  LeadersHoldOwnClient'
    BY <1>6, KeyOfType, KindsAre, NoneIsNone DEF Recheck
  <1>7. ASSUME NEW t \in Threads, NEW stamp \in Stamps, Create(t, stamp)
        PROVE  LeadersHoldOwnClient'
    <2>1. KeyOf(t)' = KeyOf(t) /\ val'[t].key = KeyOf(t) /\ val'[t] \in Client
      BY <1>7, KeyOfType DEF Create, Client
    <2>2. \A u \in Threads \ {t} : /\ val'[u] = val[u]
                                  /\ pc'[u] = pc[u]
                                  /\ KeyOf(u)' = KeyOf(u)
      BY <1>7 DEF Create
    <2>3. QED
      BY <2>1, <2>2, NoneIsNone
  <1>8. ASSUME NEW t \in Threads, Store(t)
        PROVE  LeadersHoldOwnClient'
    BY <1>8, KeyOfType, KindsAre, NoneIsNone DEF Store
  <1>9. ASSUME NEW t \in Threads, Land(t)
        PROVE  LeadersHoldOwnClient'
    BY <1>9, KeyOfType, KindsAre, NoneIsNone DEF Land
  <1>10. ASSUME NEW t \in Threads, CreatePanics(t)
        PROVE  LeadersHoldOwnClient'
    BY <1>10, KeyOfType, KindsAre, NoneIsNone DEF CreatePanics
  <1>11. ASSUME NEW t \in Threads, Return(t)
        PROVE  LeadersHoldOwnClient'
    BY <1>11, KeyOfType, KindsAre, NoneIsNone DEF Return
  <1>12. ASSUME Close
        PROVE  LeadersHoldOwnClient'
    BY <1>12, KeyOfType, KindsAre, NoneIsNone DEF Close
  <1>13. CASE UNCHANGED vars
    BY <1>13 DEF vars
  <1>14. QED
    BY <1>1, <1>2, <1>3, <1>4, <1>5, <1>6, <1>7, <1>8, <1>9, <1>10,
       <1>11, <1>12, <1>13 DEF Next, Step

\* Only the leader's own client is stored, under the leader's key.
LEMMA CachedUnderOwnKeyStep ==
    ASSUME TypeOK, CachedUnderOwnKey, LeadersHoldOwnClient, [Next]_vars
    PROVE  CachedUnderOwnKey'
  <1> USE DEF TypeOK, CachedUnderOwnKey, LeadersHoldOwnClient, KeyOf, lookup, metrics
  <1>1. ASSUME NEW t \in Threads, NEW r \in Requests, Request(t, r)
        PROVE  CachedUnderOwnKey'
    BY <1>1, KeyOfType, KindsAre, NoneIsNone DEF Request
  <1>2. ASSUME NEW t \in Threads, FastHit(t)
        PROVE  CachedUnderOwnKey'
    BY <1>2, KeyOfType, KindsAre, NoneIsNone DEF FastHit
  <1>3. ASSUME NEW t \in Threads, FastMiss(t)
        PROVE  CachedUnderOwnKey'
    BY <1>3, KeyOfType, KindsAre, NoneIsNone DEF FastMiss
  <1>4. ASSUME NEW t \in Threads, Lead(t)
        PROVE  CachedUnderOwnKey'
    BY <1>4, KeyOfType, KindsAre, NoneIsNone DEF Lead
  <1>5. ASSUME NEW t \in Threads, Join(t)
        PROVE  CachedUnderOwnKey'
    BY <1>5, KeyOfType, KindsAre, NoneIsNone DEF Join
  <1>6. ASSUME NEW t \in Threads, Recheck(t)
        PROVE  CachedUnderOwnKey'
    BY <1>6, KeyOfType, KindsAre, NoneIsNone DEF Recheck
  <1>7. ASSUME NEW t \in Threads, NEW stamp \in Stamps, Create(t, stamp)
        PROVE  CachedUnderOwnKey'
    BY <1>7, KeyOfType, KindsAre, NoneIsNone DEF Create
  <1>8. ASSUME NEW t \in Threads, Store(t)
        PROVE  CachedUnderOwnKey'
    BY <1>8, KeyOfType, KindsAre, NoneIsNone DEF Store
  <1>9. ASSUME NEW t \in Threads, Land(t)
        PROVE  CachedUnderOwnKey'
    BY <1>9, KeyOfType, KindsAre, NoneIsNone DEF Land
  <1>10. ASSUME NEW t \in Threads, CreatePanics(t)
        PROVE  CachedUnderOwnKey'
    BY <1>10, KeyOfType, KindsAre, NoneIsNone DEF CreatePanics
  <1>11. ASSUME NEW t \in Threads, Return(t)
        PROVE  CachedUnderOwnKey'
    BY <1>11, KeyOfType, KindsAre, NoneIsNone DEF Return
  <1>12. ASSUME Close
        PROVE  CachedUnderOwnKey'
    BY <1>12, KeyOfType, KindsAre, NoneIsNone DEF Close
  <1>13. CASE UNCHANGED vars
    BY <1>13 DEF vars
  <1>14. QED
    BY <1>1, <1>2, <1>3, <1>4, <1>5, <1>6, <1>7, <1>8, <1>9, <1>10,
       <1>11, <1>12, <1>13 DEF Next, Step

\* Two leaders of one key would lead the same flight.
LEMMA NothingCachedMeanwhileStep ==
    ASSUME TypeOK, LeadersOwnFlights, NothingCachedMeanwhile, [Next]_vars
    PROVE  NothingCachedMeanwhile'
  <1> USE DEF TypeOK, LeadersOwnFlights, NothingCachedMeanwhile, Leading, KeyOf, lookup, metrics
  <1>1. ASSUME NEW t \in Threads, NEW r \in Requests, Request(t, r)
        PROVE  NothingCachedMeanwhile'
    BY <1>1, KeyOfType, KindsAre, NoneIsNone DEF Request
  <1>2. ASSUME NEW t \in Threads, FastHit(t)
        PROVE  NothingCachedMeanwhile'
    BY <1>2, KeyOfType, KindsAre, NoneIsNone DEF FastHit
  <1>3. ASSUME NEW t \in Threads, FastMiss(t)
        PROVE  NothingCachedMeanwhile'
    BY <1>3, KeyOfType, KindsAre, NoneIsNone DEF FastMiss
  <1>4. ASSUME NEW t \in Threads, Lead(t)
        PROVE  NothingCachedMeanwhile'
    BY <1>4, KeyOfType, KindsAre, NoneIsNone DEF Lead
  <1>5. ASSUME NEW t \in Threads, Join(t)
        PROVE  NothingCachedMeanwhile'
    BY <1>5, KeyOfType, KindsAre, NoneIsNone DEF Join
  <1>6. ASSUME NEW t \in Threads, Recheck(t)
        PROVE  NothingCachedMeanwhile'
    BY <1>6, KeyOfType, KindsAre, NoneIsNone DEF Recheck
  <1>7. ASSUME NEW t \in Threads, NEW stamp \in Stamps, Create(t, stamp)
        PROVE  NothingCachedMeanwhile'
    BY <1>7, KeyOfType, KindsAre, NoneIsNone DEF Create
  <1>8. ASSUME NEW t \in Threads, Store(t)
        PROVE  NothingCachedMeanwhile'
    BY <1>8, KeyOfType, KindsAre, NoneIsNone DEF Store
  <1>9. ASSUME NEW t \in Threads, Land(t)
        PROVE  NothingCachedMeanwhile'
    BY <1>9, KeyOfType, KindsAre, NoneIsNone DEF Land
  <1>10. ASSUME NEW t \in Threads, CreatePanics(t)
        PROVE  NothingCachedMeanwhile'
    BY <1>10, KeyOfType, KindsAre, NoneIsNone DEF CreatePanics
  <1>11. ASSUME NEW t \in Threads, Return(t)
        PROVE  NothingCachedMeanwhile'
    <2>1. /\ clients' = clients
          /\ pc'[t] \notin Leading /\ pc[t] \notin Leading
          /\ \A u \in Threads \ {t} : /\ pc'[u] = pc[u]
                                       /\ kind'[u] = kind[u]
                                       /\ KeyOf(u)' = KeyOf(u)
      BY <1>11 DEF Return
    <2> HIDE DEF KeyOf
    <2>2. ASSUME NEW u \in Threads, pc'[u] \in {"create", "store"}
          PROVE  clients'[kind'[u]][KeyOf(u)'] = None
      <3>1. u \in Threads \ {t} /\ pc[u] \in {"create", "store"}
        BY <2>1, <2>2
      <3>2. clients[kind[u]][KeyOf(u)] = None
        BY <3>1
      <3>3. QED
        BY <2>1, <3>1, <3>2
    <2>3. QED
      BY <2>2
  <1>12. ASSUME Close
        PROVE  NothingCachedMeanwhile'
    BY <1>12, KeyOfType, KindsAre, NoneIsNone DEF Close
  <1>13. CASE UNCHANGED vars
    BY <1>13 DEF vars
  <1>14. QED
    BY <1>1, <1>2, <1>3, <1>4, <1>5, <1>6, <1>7, <1>8, <1>9, <1>10,
       <1>11, <1>12, <1>13 DEF Next, Step

\* A passenger's key and its leader's key share their redacted form.
LEMMA ReturnedForTargetStep ==
    ASSUME TypeOK, WaitersHaveLeaders, LeadersOwnFlights, CachedUnderOwnKey, LeadersHoldOwnClient,
           ReturnedForTarget, [Next]_vars
    PROVE  ReturnedForTarget'
  <1> USE DEF TypeOK, WaitersHaveLeaders, LeadersOwnFlights, CachedUnderOwnKey,
              LeadersHoldOwnClient, ReturnedForTarget, Leading, KeyOf, SfKey,
              Passengers, lookup, metrics
  <1>1. ASSUME NEW t \in Threads, NEW r \in Requests, Request(t, r)
        PROVE  ReturnedForTarget'
    BY <1>1, KeyOfType, KindsAre, NoneIsNone DEF Request
  <1>2. ASSUME NEW t \in Threads, FastHit(t)
        PROVE  ReturnedForTarget'
    BY <1>2, KeyOfType, KindsAre, NoneIsNone DEF FastHit
  <1>3. ASSUME NEW t \in Threads, FastMiss(t)
        PROVE  ReturnedForTarget'
    BY <1>3, KeyOfType, KindsAre, NoneIsNone DEF FastMiss
  <1>4. ASSUME NEW t \in Threads, Lead(t)
        PROVE  ReturnedForTarget'
    BY <1>4, KeyOfType, KindsAre, NoneIsNone DEF Lead
  <1>5. ASSUME NEW t \in Threads, Join(t)
        PROVE  ReturnedForTarget'
    BY <1>5, KeyOfType, KindsAre, NoneIsNone DEF Join
  <1>6. ASSUME NEW t \in Threads, Recheck(t)
        PROVE  ReturnedForTarget'
    BY <1>6, KeyOfType, KindsAre, NoneIsNone DEF Recheck
  <1>7. ASSUME NEW t \in Threads, NEW stamp \in Stamps, Create(t, stamp)
        PROVE  ReturnedForTarget'
    BY <1>7, KeyOfType, KindsAre, NoneIsNone DEF Create
  <1>8. ASSUME NEW t \in Threads, Store(t)
        PROVE  ReturnedForTarget'
    BY <1>8, KeyOfType, KindsAre, NoneIsNone DEF Store
  <1>9. ASSUME NEW t \in Threads, Land(t)
        PROVE  ReturnedForTarget'
    BY <1>9, KeyOfType, KindsAre, NoneIsNone DEF Land
  <1>10. ASSUME NEW t \in Threads, CreatePanics(t)
        PROVE  ReturnedForTarget'
    BY <1>10, KeyOfType, KindsAre, NoneIsNone DEF CreatePanics
  <1>11. ASSUME NEW t \in Threads, Return(t)
        PROVE  ReturnedForTarget'
    BY <1>11, KeyOfType, KindsAre, NoneIsNone DEF Return
  <1>12. ASSUME Close
        PROVE  ReturnedForTarget'
    BY <1>12, KeyOfType, KindsAre, NoneIsNone DEF Close
  <1>13. CASE UNCHANGED vars
    BY <1>13 DEF vars
  <1>14. QED
    BY <1>1, <1>2, <1>3, <1>4, <1>5, <1>6, <1>7, <1>8, <1>9, <1>10,
       <1>11, <1>12, <1>13 DEF Next, Step

\* A store adds one key to a finite set of keys; Close leaves none.
LEMMA CachedFiniteStep ==
    ASSUME TypeOK, CachedFinite, [Next]_vars
    PROVE  CachedFinite'
  <1>1. ASSUME clients' = clients
        PROVE  CachedFinite'
    BY <1>1 DEF CachedFinite, Cached
  <1>2. ASSUME NEW t \in Threads, Store(t)
        PROVE  CachedFinite'
    <2> SUFFICES ASSUME NEW kd \in Kinds
                 PROVE  IsFiniteSet(Cached(kd)')
      BY DEF CachedFinite
    <2>1. Cached(kd)' \subseteq Cached(kd) \cup {KeyOf(t)}
      BY <1>2, KeyOfType DEF Store, Cached, TypeOK
    <2>2. QED
      BY <2>1, FS_AddElement, FS_Subset DEF CachedFinite
  <1>3. ASSUME Close
        PROVE  CachedFinite'
    <2>1. \A kd \in Kinds : Cached(kd)' = {}
      BY <1>3 DEF Close, Cached
    <2>2. QED
      BY <2>1, FS_EmptySet DEF CachedFinite
  <1>4. QED
    BY <1>1, <1>2, <1>3
    DEF Next, Step, vars, Request, FastHit, FastMiss, Lead, Join, Recheck,
        Create, Land, CreatePanics, Return

-----------------------------------------------------------------------------
\* The inductive invariant holds of the empty cache.
LEMMA IInvInit == Init => IInv
  <1> SUFFICES ASSUME Init PROVE IInv
    OBVIOUS
  <1>1. TypeOK
    BY TypeOKInit
  <1>2. LeadersOwnFlights /\ WaitersHaveLeaders
    BY DEF Init, LeadersOwnFlights, WaitersHaveLeaders, Leading
  <1>3. CachedUnderOwnKey /\ LeadersHoldOwnClient /\ NothingCachedMeanwhile
    BY DEF Init, CachedUnderOwnKey, LeadersHoldOwnClient, NothingCachedMeanwhile
  <1>4. CachedFinite
    <2>1. \A kd \in Kinds : Cached(kd) = {}
      BY DEF Init, Cached
    <2>2. QED
      BY <2>1, FS_EmptySet DEF CachedFinite
  <1>5. ReturnedForTarget
    BY DEF Init, ReturnedForTarget
  <1>6. QED
    BY <1>1, <1>2, <1>3, <1>4, <1>5 DEF IInv

\* Every step preserves the inductive invariant: one lemma per conjunct.
LEMMA IInvStep == IInv /\ [Next]_vars => IInv'
  BY TypeOKStep, LeadersOwnFlightsStep, WaitersHaveLeadersStep,
     CachedUnderOwnKeyStep, LeadersHoldOwnClientStep,
     NothingCachedMeanwhileStep, CachedFiniteStep, ReturnedForTargetStep
  DEF IInv

\* The inductive invariant holds in every reachable state, for any number of
\* threads, credentials, requests and calls of Close.
THEOREM Inductive == Spec => []IInv
  BY IInvInit, IInvStep, PTL DEF Spec

\* Type correctness of the cache.
THEOREM TypeCorrect == Spec => []TypeOK
  <1>1. IInv => TypeOK
    BY DEF IInv
  <1>2. QED
    BY <1>1, Inductive, PTL

\* Every lookup of the code returns a client for the URL and organisation its
\* caller asked for, and one of the caller's own key unless it joined a flight.
THEOREM LookupsReturnTarget == Spec => []ReturnedForTarget
  <1>1. IInv => ReturnedForTarget
    BY DEF IInv
  <1>2. QED
    BY <1>1, Inductive, PTL

\* The double-check under the flight makes the map write-once per key between
\* calls of Close: no store ever replaces a cached client.
THEOREM EntriesStay == Spec => EntryNeverReplaced
  <1> DEFINE Kept == \A kd \in Kinds, k \in Key :
                clients[kd][k] # None => clients'[kd][k] \in {clients[kd][k], None}
  <1>1. ASSUME IInv, [Next]_vars
        PROVE  Kept
    <2>1. ASSUME clients' = clients
          PROVE  Kept
      BY <2>1
    <2>2. ASSUME NEW t \in Threads, Store(t)
          PROVE  Kept
      BY <1>1, <2>2, KeyOfType DEF IInv, NothingCachedMeanwhile, Store, TypeOK
    <2>3. ASSUME Close
          PROVE  Kept
      BY <2>3 DEF Close
    <2>4. QED
      BY <1>1, <2>1, <2>2, <2>3
      DEF Next, Step, vars, Request, FastHit, FastMiss, Lead, Join, Recheck,
          Create, Land, CreatePanics, Return
  <1>2. QED
    BY <1>1, Inductive, PTL DEF Spec, EntryNeverReplaced

\* The recorded size of each cache is the number of clients it holds.
THEOREM GaugeExact == Spec => []GaugeMatchesMap
  <1>1. Init => GaugeMatchesMap
    <2> SUFFICES ASSUME Init, NEW kd \in Kinds
                 PROVE  size[kd] = Cardinality(Cached(kd))
      BY DEF GaugeMatchesMap, Cached
    <2>1. Cached(kd) = {} /\ size[kd] = 0
      BY DEF Init, Cached
    <2>2. QED
      BY <2>1, FS_EmptySet
  <1>2. ASSUME IInv, GaugeMatchesMap, [Next]_vars
        PROVE  GaugeMatchesMap'
    <2>1. ASSUME clients' = clients, size' = size
          PROVE  GaugeMatchesMap'
      BY <1>2, <2>1 DEF GaugeMatchesMap
    <2>2. ASSUME NEW t \in Threads, Store(t)
          PROVE  GaugeMatchesMap'
      BY <1>2, <2>2, KeyOfType DEF GaugeMatchesMap, Store, IInv, TypeOK
    <2>3. ASSUME Close
          PROVE  GaugeMatchesMap'
      <3> SUFFICES ASSUME NEW kd \in Kinds
                   PROVE  size'[kd] = Cardinality(Cached(kd)')
        BY DEF GaugeMatchesMap, Cached
      <3>1. Cached(kd)' = {} /\ size'[kd] = 0
        BY <2>3 DEF Close, Cached
      <3>2. QED
        BY <3>1, FS_EmptySet
    <2>4. QED
      BY <1>2, <2>1, <2>2, <2>3
      DEF Next, Step, vars, metrics, Request, FastHit, FastMiss, Lead, Join,
          Recheck, Create, Land, CreatePanics, Return
  <1>3. QED
    BY <1>1, <1>2, Inductive, PTL DEF Spec

-----------------------------------------------------------------------------
\* A key that is neither cached nor about to be stored has used up no more
\* creations than there were calls of Close.
Building(kd, k) ==
    \E t \in Threads : pc[t] = "store" /\ kind[t] = kd /\ KeyOf(t) = k

CreationsSpent ==
    \A kd \in Kinds, k \in Key :
        clients[kd][k] = None /\ ~Building(kd, k) => created[kd][k] <= closes

\* A creation spends the allowance of its key only when the key is neither
\* cached nor about to be, and only Close gives it back.
LEMMA CreationsStep ==
    ASSUME IInv, OneClientPerKey, CreationsSpent, [Next]_vars
    PROVE  OneClientPerKey' /\ CreationsSpent'
  <1> USE DEF OneClientPerKey, CreationsSpent, Building
  <1>0. TypeOK /\ TypeOK'
    BY IInvStep DEF IInv
  <1>1. ASSUME clients' = clients, created' = created, closes' = closes,
               \A u \in Threads : /\ pc'[u] = "store" <=> pc[u] = "store"
                                  /\ pc[u] = "store" => /\ kind'[u] = kind[u]
                                                        /\ req'[u] = req[u]
        PROVE  OneClientPerKey' /\ CreationsSpent'
    BY <1>1 DEF KeyOf
  <1>2. ASSUME NEW t \in Threads, NEW stamp \in Stamps, Create(t, stamp)
        PROVE  OneClientPerKey' /\ CreationsSpent'
    <2>1. kind[t] \in Kinds /\ KeyOf(t) \in Key
      BY <1>0, KeyOfType
    <2>2. clients[kind[t]][KeyOf(t)] = None
      BY <1>2 DEF Create, IInv, NothingCachedMeanwhile
    <2>3. ~Building(kind[t], KeyOf(t))
      <3> SUFFICES ASSUME NEW u \in Threads, pc[u] = "store",
                          kind[u] = kind[t], KeyOf(u) = KeyOf(t)
                   PROVE  FALSE
        OBVIOUS
      <3>1. /\ flight[kind[u]][SfKey(KeyOf(u))] = u
            /\ flight[kind[t]][SfKey(KeyOf(t))] = t
        BY <1>2 DEF Create, IInv, LeadersOwnFlights, Leading
      <3>2. QED
        BY <1>2, <3>1 DEF Create
    <2>4. created[kind[t]][KeyOf(t)] <= closes
      BY <2>1, <2>2, <2>3
    <2>5. ASSUME NEW kd \in Kinds, NEW k \in Key
          PROVE  created'[kd][k] <= 1 + closes'
      <3>1. closes' = closes /\ closes \in Nat /\ created[kd][k] \in Nat
        BY <1>0, <1>2 DEF Create, TypeOK
      <3>2. CASE kd = kind[t] /\ k = KeyOf(t)
        BY <1>0, <1>2, <2>4, <3>1, <3>2 DEF Create, TypeOK
      <3>3. CASE ~(kd = kind[t] /\ k = KeyOf(t))
        BY <1>0, <1>2, <2>1, <3>1, <3>3 DEF Create, TypeOK
      <3>4. QED
        BY <3>2, <3>3
    <2>6. ASSUME NEW kd \in Kinds, NEW k \in Key,
                 clients'[kd][k] = None, ~Building(kd, k)'
          PROVE  created'[kd][k] <= closes'
      <3>1. /\ pc'[t] = "store" /\ kind'[t] = kind[t] /\ KeyOf(t)' = KeyOf(t)
            /\ clients' = clients /\ closes' = closes
            /\ \A u \in Threads \ {t} : pc'[u] = pc[u]
            /\ kind' = kind /\ req' = req
        BY <1>0, <1>2 DEF Create, TypeOK, KeyOf
      <3>2. ~(kd = kind[t] /\ k = KeyOf(t))
        BY <2>6, <3>1
      <3>3. created'[kd][k] = created[kd][k]
        BY <1>0, <1>2, <2>1, <3>2 DEF Create, TypeOK
      <3>4. ~Building(kd, k)
        BY <1>2, <2>6, <3>1 DEF Create, KeyOf
      <3>5. QED
        BY <2>6, <3>1, <3>3, <3>4
    <2>7. QED
      BY <2>5, <2>6
  <1>3. ASSUME NEW t \in Threads, Store(t)
        PROVE  OneClientPerKey' /\ CreationsSpent'
    <2>1. kind[t] \in Kinds /\ KeyOf(t) \in Key /\ val[t] # None
      BY <1>0, <1>3, KeyOfType DEF Store, IInv, LeadersHoldOwnClient
    <2>2. clients'[kind[t]][KeyOf(t)] # None
      BY <1>0, <1>3, <2>1 DEF Store, TypeOK
    <2>3. ASSUME NEW kd \in Kinds, NEW k \in Key,
                 clients'[kd][k] = None, ~Building(kd, k)'
          PROVE  created'[kd][k] <= closes'
      <3>1. ~(kd = kind[t] /\ k = KeyOf(t))
        BY <2>2, <2>3
      <3>2. clients[kd][k] = None
        BY <1>0, <1>3, <2>1, <2>3, <3>1 DEF Store, TypeOK
      <3>3. ~Building(kd, k)
        BY <1>3, <2>3, <3>1 DEF Store, KeyOf
      <3>4. QED
        BY <1>3, <3>2, <3>3 DEF Store
    <2>4. OneClientPerKey'
      BY <1>3 DEF Store
    <2>5. QED
      BY <2>3, <2>4
  <1>4. ASSUME Close
        PROVE  OneClientPerKey' /\ CreationsSpent'
    BY <1>0, <1>4 DEF Close, TypeOK, lookup
  <1>5. ASSUME NEW t \in Threads, Land(t) \/ CreatePanics(t)
        PROVE  OneClientPerKey' /\ CreationsSpent'
    <2>1. clients' = clients /\ created' = created /\ closes' = closes
      BY <1>5 DEF Land, CreatePanics
    <2>2. \A u \in Threads : /\ pc'[u] = "store" <=> pc[u] = "store"
                             /\ kind'[u] = kind[u]
                             /\ req'[u] = req[u]
      BY <1>5 DEF Land, CreatePanics, Passengers
    <2>3. QED
      BY <1>1, <2>1, <2>2
  <1>6. CASE UNCHANGED vars
    BY <1>6 DEF vars, lookup, KeyOf
  <1>7. ASSUME NEW t \in Threads,
               \/ \E r \in Requests : Request(t, r)
               \/ FastHit(t) \/ FastMiss(t) \/ Lead(t) \/ Join(t)
               \/ Recheck(t) \/ Return(t)
        PROVE  OneClientPerKey' /\ CreationsSpent'
    <2>1. /\ pc[t] # "store" /\ pc'[t] # "store"
          /\ clients' = clients /\ created' = created /\ closes' = closes
      BY <1>0, <1>7
      DEF Request, FastHit, FastMiss, Lead, Join, Recheck, Return, TypeOK
    <2>2. \A u \in Threads \ {t} : /\ pc'[u] = pc[u]
                                  /\ kind'[u] = kind[u]
                                  /\ req'[u] = req[u]
      BY <1>0, <1>7
      DEF Request, FastHit, FastMiss, Lead, Join, Recheck, Return, TypeOK
    <2>3. QED
      BY <1>1, <2>1, <2>2
  <1>8. QED
    BY <1>2, <1>3, <1>4, <1>5, <1>6, <1>7 DEF Next, Step

\* createFn of the code runs at most once per key between calls of Close, in
\* every interleaving of any number of lookups.
THEOREM CreatedOnce == Spec => []OneClientPerKey
  <1>1. Init => OneClientPerKey /\ CreationsSpent
    BY DEF Init, OneClientPerKey, CreationsSpent
  <1>2. IInv /\ OneClientPerKey /\ CreationsSpent /\ [Next]_vars
           => (OneClientPerKey /\ CreationsSpent)'
    BY CreationsStep
  <1>3. QED
    BY <1>1, <1>2, Inductive, PTL DEF Spec

=============================================================================
