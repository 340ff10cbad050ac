----------------------- MODULE GrafanaClientsProofs -----------------------
(***************************************************************************)
(* Proofs about GrafanaClients, for any number of threads, credentials and *)
(* Grafana instances: the cache with its real createFn is a ClientCache,   *)
(* and clients of one instance agree on its public URL.                    *)
(***************************************************************************)
EXTENDS GrafanaClients, ClientCacheProofs

Fetching == {"recheck", "fetch", "keep", "land"}

UrlTypes ==
    /\ urlCache \in [Urls -> AppUrls \cup {Empty}]
    /\ urlFlight \in [Urls -> Threads \cup {None}]
    /\ ppc \in [Threads -> Fetching \cup {"idle", "enter", "wait", "done"}]
    /\ purl \in [Threads -> Urls]
    /\ pleader \in [Threads -> Threads \cup {None}]
    /\ answer \in [Threads -> AppUrls \cup {Empty}]
    /\ knew \in [Threads -> BOOLEAN]

\* A caller fetches a URL exactly when the flight of the URL is its own, and those
\* who wait, wait for one that fetches the same URL.
FetchersOwnFlights ==
    /\ \A t \in Threads : ppc[t] \in Fetching => urlFlight[purl[t]] = t
    /\ \A u \in Urls : urlFlight[u] # None =>
         /\ ppc[urlFlight[u]] \in Fetching
         /\ purl[urlFlight[u]] = u
    /\ \A w \in Threads : ppc[w] = "wait" => urlFlight[purl[w]] = pleader[w]
                                             /\ pleader[w] # None

\* While an instance is asked for its public URL none is known, and what is answered
\* afterwards is what is known then.
AnswersCached ==
    \A t \in Threads :
        /\ ppc[t] \in {"fetch", "keep"} => urlCache[purl[t]] = Empty
        /\ ppc[t] \in {"land", "done"} /\ answer[t] # Empty => answer[t] = urlCache[purl[t]]

\* fetchPublicURL is called by createFn of the Grafana cache, for the URL of the request.
CalledByCreate ==
    \A t \in Threads : ppc[t] # "idle" =>
        pc[t] = "create" /\ kind[t] = "grafana" /\ purl[t] = req[t].url

\* A request that found the public URL known also finds it in fetchPublicURL.
KnownFound ==
    \A t \in Threads : knew[t] =>
        /\ pc[t] # "idle" => urlCache[req[t].url] # Empty
        /\ ppc[t] # "idle" => ppc[t] = "done" /\ answer[t] # Empty

\* A thread between two requests holds no client.
IdleHoldsNone == \A t \in Threads : pc[t] = "idle" => val[t] = None

\* The inductive invariant of the composition, besides that of the cache.
UrlInv ==
    /\ UrlTypes
    /\ FetchersOwnFlights
    /\ AnswersCached
    /\ CalledByCreate
    /\ KnownFound
    /\ IdleHoldsNone
    /\ StampsAgree
    /\ FreshClientKnowsUrl

-----------------------------------------------------------------------------
(* The composition is a cache *)

\* A step of the composition is a step of the cache or leaves the cache alone:
\* what createFn puts into a client is a stamp.
LEMMA StepsOfCache == UrlTypes /\ [GCNext]_allvars => [Next]_vars
<1> SUFFICES ASSUME UrlTypes, [GCNext]_allvars PROVE [Next]_vars
  OBVIOUS
<1>1. ASSUME NEW t \in Threads, NEW r \in Requests, Arrive(t, r)
      PROVE  Next
  BY <1>1 DEF Arrive, Next
<1>2. Empty \in Stamps /\ \A t \in Threads : answer[t] \in Stamps
  BY StampsAssumption DEF UrlTypes
<1>3. ASSUME NEW t \in Threads, Lookup(t)
      PROVE  Next
  BY <1>2, <1>3 DEF Lookup, Next, Step
<1>4. ASSUME NEW t \in Threads, NewGrafanaClient(t)
      PROVE  Next
  BY <1>2, <1>4 DEF NewGrafanaClient, Next, Step
<1>5. ASSUME NEW t \in Threads, BeginFetch(t) \/ FetchUrl(t)
      PROVE  UNCHANGED vars
  BY <1>5 DEF BeginFetch, FetchUrl
<1>6. CloseCache => Next
  BY DEF CloseCache, Next
<1> QED BY <1>1, <1>3, <1>4, <1>5, <1>6 DEF GCNext, GCStep, allvars

LEMMA UrlInvInit == GCInit => UrlInv
<1> SUFFICES ASSUME GCInit PROVE UrlInv
  OBVIOUS
<1>1. (CHOOSE u \in Urls : TRUE) \in Urls
  BY ClientCacheAssumption DEF Key
<1>2. UrlTypes
  BY <1>1 DEF GCInit, PU!PInit, UrlTypes
<1>3. FetchersOwnFlights /\ AnswersCached /\ CalledByCreate /\ KnownFound /\ IdleHoldsNone
  BY DEF GCInit, PU!PInit, Init, FetchersOwnFlights, AnswersCached, CalledByCreate,
         KnownFound, IdleHoldsNone, Fetching
<1>4. StampsAgree /\ FreshClientKnowsUrl
  BY KindsAre DEF GCInit, Init, StampsAgree, FreshClientKnowsUrl
<1> QED BY <1>2, <1>3, <1>4 DEF UrlInv

-----------------------------------------------------------------------------
(* Steps of fetchPublicURL *)

\* The cached URLs only change where none is known.
LEMMA UrlsOnlyAdded ==
    ASSUME UrlInv, [GCNext]_allvars, NEW u \in Urls, urlCache[u] # Empty
    PROVE  urlCache'[u] = urlCache[u]
<1>1. ASSUME NEW t \in Threads, PU!Keep(t)
      PROVE  urlCache'[u] = urlCache[u]
  BY <1>1 DEF PU!Keep, UrlInv, UrlTypes, AnswersCached
<1>2. ASSUME NEW t \in Threads, FetchUrl(t)
      PROVE  urlCache'[u] = urlCache[u]
  BY <1>1, <1>2 DEF FetchUrl, PU!FetchStep, PU!LeadFetch, PU!JoinFetch, PU!RecheckUrl,
                    PU!Fetch, PU!LandFetch
<1> QED BY <1>2 DEF GCNext, GCStep, Arrive, Lookup, BeginFetch, NewGrafanaClient, CloseCache,
                    allvars, urlvars, PU!Call, PU!CallReturns

\* Who fetches, and with what answer, stays in order through a step of the fetch.
LEMMA FetchKeeps ==
    ASSUME UrlInv, TypeOK, NEW t \in Threads, FetchUrl(t)
    PROVE  UrlTypes' /\ FetchersOwnFlights' /\ AnswersCached'
<1>0. None \notin Threads
  BY NoneIsNone
<1> USE DEF UrlInv, UrlTypes, FetchersOwnFlights, AnswersCached, Fetching
<1>1. CASE PU!LeadFetch(t)
  BY <1>0, <1>1 DEF PU!LeadFetch, FetchUrl
<1>2. CASE PU!JoinFetch(t)
  BY <1>0, <1>2 DEF PU!JoinFetch, FetchUrl
<1>3. CASE PU!RecheckUrl(t)
  BY <1>0, <1>3 DEF PU!RecheckUrl, FetchUrl
<1>4. ASSUME NEW a \in AppUrls \cup {Empty}, PU!Fetch(t, a)
      PROVE  UrlTypes' /\ FetchersOwnFlights' /\ AnswersCached'
  BY <1>0, <1>4 DEF PU!Fetch, FetchUrl
<1>5. CASE PU!Keep(t)
  <2>1. UrlTypes'
    BY <1>5 DEF PU!Keep, FetchUrl
  <2>2. FetchersOwnFlights'
    BY <1>0, <1>5 DEF PU!Keep, FetchUrl
  <2>3. AnswersCached'
    BY <1>0, <1>5 DEF PU!Keep
  <2> QED BY <2>1, <2>2, <2>3
<1>6. CASE PU!LandFetch(t)
  <2>1. UrlTypes'
    BY <1>6 DEF PU!LandFetch, FetchUrl
  <2>2. FetchersOwnFlights'
    BY <1>0, <1>6 DEF PU!LandFetch, PU!Riders
  <2>3. AnswersCached'
    BY <1>0, <1>6 DEF PU!LandFetch, PU!Riders
  <2> QED BY <2>1, <2>2, <2>3
<1> QED BY <1>1, <1>2, <1>3, <1>4, <1>5, <1>6 DEF FetchUrl, PU!FetchStep

\* The call that createFn makes, and its return, touch only the caller.
LEMMA CallKeeps ==
    ASSUME UrlInv, TypeOK, NEW t \in Threads, BeginFetch(t) \/ NewGrafanaClient(t)
    PROVE  UrlTypes' /\ FetchersOwnFlights' /\ AnswersCached'
<1>0. None \notin Threads /\ req[t].url \in Urls
  BY NoneIsNone, ClientCacheAssumption DEF TypeOK, Key
<1> USE DEF UrlInv, UrlTypes, FetchersOwnFlights, AnswersCached, Fetching
<1>1. CASE BeginFetch(t)
  BY <1>0, <1>1 DEF BeginFetch, PU!Call
<1>2. CASE NewGrafanaClient(t)
  BY <1>0, <1>2 DEF NewGrafanaClient, PU!CallReturns
<1> QED BY <1>1, <1>2

-----------------------------------------------------------------------------
(* Steps of the cache *)

\* No thread is taken out of createFn while it asks for the public URL, and its
\* request stays what it is.
LEMMA CreatorsStay ==
    ASSUME IInv, UrlInv, NEW t \in Threads, Lookup(t), NEW u \in Threads, ppc[u] # "idle"
    PROVE  pc'[u] = pc[u] /\ kind'[u] = kind[u] /\ req'[u] = req[u]
<1>1. pc[u] = "create" /\ kind[u] = "grafana"
  BY DEF UrlInv, CalledByCreate
<1>2. CASE t = u
  BY <1>1, <1>2 DEF Lookup, FastHit, FastMiss, Lead, Join, Recheck, Store, Land, Return, Create
<1>3. CASE t # u
  BY <1>1, <1>3 DEF Lookup, FastHit, FastMiss, Lead, Join, Recheck, Store, Land, Return, Create,
                    CreatePanics, Passengers, IInv, TypeOK
<1> QED BY <1>2, <1>3

\* Clients that a thread is handed are of its URL and kind.
LEMMA PassengersOfUrl ==
    ASSUME IInv, NEW t \in Threads, pc[t] \in Leading, NEW w \in Passengers(t)
    PROVE  kind[w] = kind[t] /\ req[w].url = req[t].url
<1>1. w \in Threads /\ flight[kind[w]][SfKey(KeyOf(w))] = t
  BY DEF Passengers, IInv, WaitersHaveLeaders
<1>2. /\ kind[w] \in Kinds /\ SfKey(KeyOf(w)) \in RedactedKey
      /\ req[w] \in Key /\ req[t] \in Key
  BY <1>1, KeyOfType, ClientCacheAssumption DEF IInv, TypeOK
<1>3. kind[t] = kind[w] /\ SfKey(KeyOf(t)) = SfKey(KeyOf(w))
  BY <1>1, <1>2, NoneIsNone DEF IInv, LeadersOwnFlights
<1>4. SfKey(KeyOf(t)).url = req[t].url /\ SfKey(KeyOf(w)).url = req[w].url
  BY <1>2 DEF SfKey, Redacted, KeyOf, KeyFor, Key
<1> QED BY <1>3, <1>4

\* What the cache looks up has the URL of the request.
LEMMA KeyHasUrl ==
    ASSUME TypeOK, NEW t \in Threads
    PROVE  KeyOf(t) \in Key /\ KeyOf(t).url = req[t].url /\ req[t].url \in Urls
BY KeyOfType, ClientCacheAssumption DEF TypeOK, KeyOf, KeyFor, Key

\* Clients in the cache agree with the known URL, and what threads hold ...
CacheAgrees ==
    \A k \in Key : LET c == clients["grafana"][k] IN
        c # None /\ c.stamp # Empty => c.stamp = urlCache[k.url]

HandsAgree ==
    \A t \in Threads :
        kind[t] = "grafana" /\ val[t] # None /\ val[t].stamp # Empty
            => val[t].stamp = urlCache[req[t].url]

LEMMA AgreeParts == StampsAgree <=> (Threads = {} \/ CacheAgrees) /\ (Key = {} \/ HandsAgree)
BY DEF StampsAgree, CacheAgrees, HandsAgree

\* ... through every step: a client whose URL is known comes from the cache, from a
\* leader of the same instance, or from the fetch.
LEMMA LookupAgrees ==
    ASSUME IInv, UrlInv, CacheAgrees, HandsAgree, NEW t \in Threads, Lookup(t)
    PROVE  CacheAgrees' /\ HandsAgree' /\ IdleHoldsNone'
<1> USE DEF IInv, TypeOK
<1>1. KeyOf(t) \in Key /\ KeyOf(t).url = req[t].url /\ kind[t] \in Kinds
  BY KeyHasUrl
<1>2. urlCache' = urlCache
  BY DEF Lookup, urlvars
<1>3. CASE FastHit(t)
  BY <1>1, <1>2, <1>3 DEF FastHit, CacheAgrees, HandsAgree, UrlInv, IdleHoldsNone
<1>4. CASE Recheck(t)
  BY <1>1, <1>2, <1>4 DEF Recheck, CacheAgrees, HandsAgree, UrlInv, IdleHoldsNone
<1>5. CASE FastMiss(t) \/ Lead(t) \/ Join(t)
  BY <1>2, <1>5 DEF FastMiss, Lead, Join, CacheAgrees, HandsAgree, UrlInv, IdleHoldsNone
<1>6. CASE Store(t)
  BY <1>1, <1>2, <1>6, KindsAre DEF Store, CacheAgrees, HandsAgree, UrlInv, IdleHoldsNone
<1>7. CASE Land(t)
  <2>1. pc[t] \in Leading
    BY <1>7 DEF Land, Leading
  <2>2. \A w \in Passengers(t) : kind[w] = kind[t] /\ req[w].url = req[t].url
    BY <2>1, PassengersOfUrl
  <2>3. HandsAgree'
    BY <1>2, <1>7, <2>2 DEF Land, HandsAgree
  <2>4. IdleHoldsNone'
    BY <1>7 DEF Land, UrlInv, IdleHoldsNone, Passengers
  <2> QED BY <1>2, <1>7, <2>3, <2>4 DEF Land, CacheAgrees
<1>8. CASE Return(t)
  BY <1>2, <1>8 DEF Return, CacheAgrees, HandsAgree, UrlInv, IdleHoldsNone
<1>9. CASE CreatePanics(t)
  BY <1>2, <1>9 DEF CreatePanics, CacheAgrees, HandsAgree, UrlInv, IdleHoldsNone
<1>10. CASE kind[t] = "incident" /\ Create(t, Empty)
  BY <1>2, <1>10 DEF Create, CacheAgrees, HandsAgree, UrlInv, IdleHoldsNone
<1> QED BY <1>3, <1>4, <1>5, <1>6, <1>7, <1>8, <1>9, <1>10 DEF Lookup

\* A leader that found the URL known when its request began stores a client with it.
LEMMA LookupFresh ==
    ASSUME IInv, UrlInv, NEW t \in Threads, Lookup(t)
    PROVE  FreshClientKnowsUrl'
<1> SUFFICES ASSUME NEW u \in Threads, pc'[u] = "store", kind'[u] = "grafana", knew'[u]
             PROVE  val'[u].stamp # Empty
  BY DEF FreshClientKnowsUrl
<1>1. pc[u] = "store" /\ kind[u] = "grafana" /\ val'[u] = val[u]
  <2>1. CASE t = u
    BY <2>1 DEF Lookup, FastHit, FastMiss, Lead, Join, Recheck, Store, Land, Return, Create,
                CreatePanics, IInv, TypeOK
  <2>2. CASE t # u
    BY <2>2 DEF Lookup, FastHit, FastMiss, Lead, Join, Recheck, Store, Land, Return, Create,
                CreatePanics, Passengers, IInv, TypeOK
  <2> QED BY <2>1, <2>2
<1> QED BY <1>1 DEF Lookup, UrlInv, FreshClientKnowsUrl

-----------------------------------------------------------------------------
(* Every step *)

\* What is known when a request begins, is found by its fetch.
LEMMA KnownFoundStep ==
    ASSUME IInv, UrlInv, [GCNext]_allvars, CalledByCreate'
    PROVE  KnownFound'
<1> SUFFICES ASSUME NEW u \in Threads, knew'[u]
             PROVE  /\ pc'[u] # "idle" => urlCache'[req'[u].url] # Empty
                    /\ ppc'[u] # "idle" => ppc'[u] = "done" /\ answer'[u] # Empty
  BY DEF KnownFound
<1>1. \A x \in Urls : urlCache[x] # Empty => urlCache'[x] = urlCache[x]
  BY UrlsOnlyAdded
<1>2. \A t \in Threads : req[t].url \in Urls
  BY KeyHasUrl DEF IInv
<1> USE DEF IInv, TypeOK, UrlInv, UrlTypes, KnownFound
<1>3. ASSUME NEW t \in Threads, NEW r \in Requests, Arrive(t, r)
      PROVE  KnownFound'
  <2>1. pc[t] = "idle" /\ pc'[t] # "idle" /\ ppc[t] = "idle"
    BY <1>3 DEF Arrive, Request, CalledByCreate
  <2>2. req' = [req EXCEPT ![t] = r] /\ UNCHANGED urlvars
    BY <1>3 DEF Arrive, Request
  <2>3. knew' = [knew EXCEPT ![t] = urlCache[r.url] # Empty]
    BY <1>3 DEF Arrive
  <2>4. \A v \in Threads : v # t => pc'[v] = pc[v]
    BY <1>3 DEF Arrive, Request
  <2>5. ASSUME NEW v \in Threads, knew'[v]
        PROVE  /\ pc'[v] # "idle" => urlCache'[req'[v].url] # Empty
               /\ ppc'[v] # "idle" => ppc'[v] = "done" /\ answer'[v] # Empty
    <3>1. CASE v = t
      BY <2>1, <2>2, <2>3, <2>5, <3>1 DEF urlvars
    <3>2. CASE v # t
      BY <2>2, <2>3, <2>4, <2>5, <3>2 DEF urlvars
    <3> QED BY <3>1, <3>2
  <2> QED BY <2>5 DEF KnownFound
<1>4. ASSUME NEW t \in Threads, Lookup(t)
      PROVE  KnownFound'
  <2>1. /\ UNCHANGED <<urlvars, knew>>
        /\ req' = req
        /\ \A v \in Threads : pc[v] = "idle" => pc'[v] = "idle"
    BY <1>4 DEF Lookup, FastHit, FastMiss, Lead, Join, Recheck, Store, Land, Return, Create,
                CreatePanics, Passengers
  <2> QED BY <2>1 DEF urlvars
<1>5. ASSUME NEW t \in Threads, BeginFetch(t)
      PROVE  KnownFound'
  BY <1>2, <1>5 DEF BeginFetch, PU!Call, vars, lookup
<1>6. ASSUME NEW t \in Threads, FetchUrl(t)
      PROVE  KnownFound'
  <2>1. \A v \in Threads : knew[v] => ppc[v] \in {"idle", "done"} /\ ppc'[v] = ppc[v]
                                                    /\ answer'[v] = answer[v]
    BY <1>6 DEF FetchUrl, PU!FetchStep, PU!LeadFetch, PU!JoinFetch, PU!RecheckUrl, PU!Fetch,
                PU!Keep, PU!LandFetch, PU!Riders
  <2> QED BY <1>1, <1>2, <1>6, <2>1 DEF FetchUrl, vars, lookup
<1>7. ASSUME NEW t \in Threads, NewGrafanaClient(t)
      PROVE  KnownFound'
  BY <1>7 DEF NewGrafanaClient, PU!CallReturns, Create
<1>8. CASE CloseCache \/ UNCHANGED allvars
  BY <1>8 DEF CloseCache, Close, urlvars, allvars, vars, lookup
<1> QED BY <1>3, <1>4, <1>5, <1>6, <1>7, <1>8 DEF GCNext, GCStep

LEMMA UrlInvStep == IInv /\ UrlInv /\ [GCNext]_allvars => UrlInv'
<1> SUFFICES ASSUME IInv, UrlInv, [GCNext]_allvars PROVE UrlInv'
  OBVIOUS
<1>1. TypeOK
  BY DEF IInv
<1>2. \A x \in Urls : urlCache[x] # Empty => urlCache'[x] = urlCache[x]
  BY UrlsOnlyAdded
<1>3. \A t \in Threads : req[t].url \in Urls /\ KeyOf(t) \in Key /\ KeyOf(t).url = req[t].url
  BY <1>1, KeyHasUrl
<1>4. ASSUME NEW t \in Threads, NEW r \in Requests, Arrive(t, r)
      PROVE  UrlInv'
  <2>1. UrlTypes' /\ FetchersOwnFlights' /\ AnswersCached'
    BY <1>1, <1>4, ClientCacheAssumption
       DEF Arrive, urlvars, UrlInv, UrlTypes, FetchersOwnFlights, AnswersCached, Key
  <2>2. CalledByCreate'
    BY <1>1, <1>4 DEF Arrive, Request, urlvars, UrlInv, CalledByCreate, TypeOK
  <2>3. KnownFound'
    BY <2>2, KnownFoundStep
  <2>4. IdleHoldsNone' /\ StampsAgree' /\ FreshClientKnowsUrl'
    BY <1>1, <1>4 DEF Arrive, Request, urlvars, UrlInv, IdleHoldsNone, StampsAgree,
                      FreshClientKnowsUrl, TypeOK
  <2> QED BY <2>1, <2>2, <2>3, <2>4 DEF UrlInv
<1>5. ASSUME NEW t \in Threads, Lookup(t)
      PROVE  UrlInv'
  <2>1. UrlTypes' /\ FetchersOwnFlights' /\ AnswersCached'
    BY <1>5 DEF Lookup, urlvars, UrlInv, UrlTypes, FetchersOwnFlights, AnswersCached
  <2>2. CalledByCreate'
    BY <1>5, CreatorsStay DEF Lookup, urlvars, UrlInv, CalledByCreate
  <2>3. KnownFound'
    BY <2>2, KnownFoundStep
  <2>4. Threads # {} /\ Key # {}
    BY <1>3
  <2>5. CacheAgrees /\ HandsAgree
    BY <2>4, AgreeParts DEF UrlInv
  <2>6. CacheAgrees' /\ HandsAgree' /\ IdleHoldsNone'
    BY <1>5, <2>5, LookupAgrees
  <2>7. StampsAgree'
    BY <2>6 DEF StampsAgree, CacheAgrees, HandsAgree
  <2> QED BY <1>5, <2>1, <2>2, <2>3, <2>6, <2>7, LookupFresh DEF UrlInv
<1>6. ASSUME NEW t \in Threads, BeginFetch(t)
      PROVE  UrlInv'
  <2>1. CalledByCreate'
    BY <1>6 DEF BeginFetch, PU!Call, vars, lookup, UrlInv, UrlTypes, CalledByCreate
  <2>2. IdleHoldsNone' /\ StampsAgree' /\ FreshClientKnowsUrl'
    BY <1>6 DEF BeginFetch, PU!Call, vars, lookup, UrlInv, IdleHoldsNone, StampsAgree,
                FreshClientKnowsUrl
  <2> QED BY <1>1, <1>6, <2>1, <2>2, CallKeeps, KnownFoundStep DEF UrlInv
<1>7. ASSUME NEW t \in Threads, FetchUrl(t)
      PROVE  UrlInv'
  <2>1. CalledByCreate'
    BY <1>7 DEF FetchUrl, PU!FetchStep, PU!LeadFetch, PU!JoinFetch, PU!RecheckUrl, PU!Fetch,
                PU!Keep, PU!LandFetch, PU!Riders, vars, lookup, UrlInv, UrlTypes,
                CalledByCreate
  <2>2. StampsAgree'
    BY <1>2, <1>3, <1>7 DEF FetchUrl, vars, lookup, UrlInv, UrlTypes, StampsAgree, Key
  <2>3. IdleHoldsNone' /\ FreshClientKnowsUrl'
    BY <1>7 DEF FetchUrl, vars, lookup, UrlInv, IdleHoldsNone, FreshClientKnowsUrl
  <2> QED BY <1>1, <1>7, <2>1, <2>2, <2>3, FetchKeeps, KnownFoundStep DEF UrlInv
<1>8. ASSUME NEW t \in Threads, NewGrafanaClient(t)
      PROVE  UrlInv'
  <2>1. ppc[t] = "done" /\ purl[t] = req[t].url
    BY <1>8 DEF NewGrafanaClient, PU!CallReturns, UrlInv, CalledByCreate
  <2>2. val' = [val EXCEPT ![t] = [key |-> KeyOf(t), serial |-> created[kind[t]][KeyOf(t)],
                                   stamp |-> answer[t]]]
    BY <1>8 DEF NewGrafanaClient, Create
  <2>3. CalledByCreate' /\ IdleHoldsNone'
    BY <1>1, <1>8 DEF NewGrafanaClient, PU!CallReturns, Create, UrlInv, UrlTypes,
                      CalledByCreate, IdleHoldsNone, TypeOK
  <2>4. StampsAgree'
    BY <1>1, <1>8, <2>1, <2>2 DEF NewGrafanaClient, PU!CallReturns, Create, UrlInv,
                                  AnswersCached, StampsAgree, TypeOK
  <2>5. FreshClientKnowsUrl'
    BY <1>1, <1>8, <2>1, <2>2 DEF NewGrafanaClient, PU!CallReturns, Create, UrlInv, KnownFound,
                                  FreshClientKnowsUrl, TypeOK
  <2> QED BY <1>1, <1>8, <2>3, <2>4, <2>5, CallKeeps, KnownFoundStep DEF UrlInv
<1>9. CASE CloseCache
  BY <1>9, KindsAre DEF CloseCache, Close, urlvars, lookup, UrlInv, UrlTypes,
     FetchersOwnFlights, AnswersCached, CalledByCreate, KnownFound, IdleHoldsNone, StampsAgree,
     FreshClientKnowsUrl
<1>10. CASE UNCHANGED allvars
  BY <1>10 DEF allvars, urlvars, vars, lookup, UrlInv, UrlTypes, FetchersOwnFlights,
     AnswersCached, CalledByCreate, KnownFound, IdleHoldsNone, StampsAgree, FreshClientKnowsUrl
<1> QED BY <1>4, <1>5, <1>6, <1>7, <1>8, <1>9, <1>10 DEF GCNext, GCStep

-----------------------------------------------------------------------------
\* The strengthening, with that of the cache, holds in every reachable state.
THEOREM ClientsInductive == GCSpec => [](IInv /\ UrlInv)
<1>1. GCInit => IInv /\ UrlInv
  BY IInvInit, UrlInvInit DEF GCInit
<1>2. IInv /\ UrlInv /\ [GCNext]_allvars => (IInv /\ UrlInv)'
  BY StepsOfCache, IInvStep, UrlInvStep DEF UrlInv
<1> QED BY <1>1, <1>2, PTL DEF GCSpec

\* The cache whose createFn is NewGrafanaClient implements the cache whose createFn
\* returns any client: what holds of the cache by its steps, holds of it.
THEOREM ClientsImplementCache == GCSpec => Init /\ [][Next]_vars
<1>1. GCInit => Init
  BY DEF GCInit
<1>2. UrlInv /\ [GCNext]_allvars => [Next]_vars
  BY StepsOfCache DEF UrlInv
<1> QED BY <1>1, <1>2, ClientsInductive, PTL DEF GCSpec

\* Clients of one instance that know its public URL agree on it.
THEOREM ClientsAgree == GCSpec => []StampsAgree
<1>1. UrlInv => StampsAgree
  BY DEF UrlInv
<1> QED BY <1>1, ClientsInductive, PTL

\* A client created for a request that found the URL known carries it.
THEOREM CreatedWithUrl == GCSpec => []FreshClientKnowsUrl
<1>1. UrlInv => FreshClientKnowsUrl
  BY DEF UrlInv
<1> QED BY <1>1, ClientsInductive, PTL

\* A known public URL is never lost or replaced.
THEOREM KnownUrlsKept == GCSpec => UrlKept
<1>1. UrlInv /\ [GCNext]_allvars =>
        \A u \in Urls : urlCache[u] # Empty => urlCache'[u] = urlCache[u]
  BY UrlsOnlyAdded
<1> QED BY <1>1, ClientsInductive, PTL DEF GCSpec, UrlKept
=============================================================================
