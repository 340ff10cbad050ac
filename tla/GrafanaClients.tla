--------------------------- MODULE GrafanaClients ---------------------------
(***************************************************************************)
(* ClientCache composed with PublicURL: createFn of the Grafana cache is   *)
(* NewGrafanaClient, which calls fetchPublicURL and keeps its answer in    *)
(* the client it returns, as the client's stamp.                           *)
(***************************************************************************)
EXTENDS ClientCacheProps

CONSTANTS AppUrls, Empty, MaxCalls

VARIABLES urlCache, urlFlight, ppc, purl, pleader, answer, calls,
          knew   \* history: was the public URL known when the lookup began

PU == INSTANCE PublicURL WITH Callers <- Threads

ASSUME StampsAssumption ==
    /\ Empty \notin AppUrls
    /\ Stamps = AppUrls \cup {Empty}
    /\ MaxCalls \in Nat

urlvars == <<urlCache, urlFlight, ppc, purl, pleader, answer, calls>>
allvars == <<vars, urlvars, knew>>

GCInit == Init /\ PU!PInit /\ knew = [t \in Threads |-> FALSE]

Arrive(t, r) ==
    /\ Request(t, r)
    /\ knew' = [knew EXCEPT ![t] = urlCache[r.url] # Empty]
    /\ UNCHANGED urlvars

\* Lookup steps outside createFn.
Lookup(t) ==
    /\ \/ FastHit(t) \/ FastMiss(t) \/ Lead(t) \/ Join(t) \/ Recheck(t)
       \/ Store(t) \/ Land(t) \/ Return(t)
       \/ ppc[t] = "idle" /\ CreatePanics(t)
       \/ kind[t] = "incident" /\ Create(t, Empty)
    /\ UNCHANGED <<urlvars, knew>>

\* NewGrafanaClient: everything up to its call of fetchPublicURL, the steps of
\* that call, and the client it returns.
BeginFetch(t) ==
    /\ pc[t] = "create"
    /\ kind[t] = "grafana"
    /\ PU!Call(t, req[t].url)
    /\ UNCHANGED <<vars, knew>>

FetchUrl(t) == PU!FetchStep(t) /\ UNCHANGED <<vars, knew>>

\* Mutant of NewGrafanaClient: the fetched URL is not put into the client.
NewClientWithoutUrl(t) ==
    /\ PU!CallReturns(t)
    /\ Create(t, Empty)
    /\ UNCHANGED knew

NewGrafanaClient(t) ==
    /\ PU!CallReturns(t)
    /\ Create(t, answer[t])
    /\ UNCHANGED knew

CloseCache == Close /\ UNCHANGED <<urlvars, knew>>

GCStep(t) == Lookup(t) \/ BeginFetch(t) \/ FetchUrl(t) \/ NewGrafanaClient(t)

GCNext ==
    \/ \E t \in Threads, r \in Requests : Arrive(t, r)
    \/ \E t \in Threads : GCStep(t)
    \/ CloseCache

GCSpec == GCInit /\ [][GCNext]_allvars
                 /\ \A t \in Threads : WF_allvars(GCStep(t))

-----------------------------------------------------------------------------
\* Two clients for one instance that both know its public URL agree on it, in
\* the cache or in the hands of a request: links built from them are the same.
StampsAgree ==
    \A k \in Key, t \in Threads :
        LET c == clients["grafana"][k] IN
        /\ c # None /\ c.stamp # Empty => c.stamp = urlCache[k.url]
        /\ kind[t] = "grafana" /\ val[t] # None /\ val[t].stamp # Empty
              => val[t].stamp = urlCache[req[t].url]

\* A client of the Grafana cache lacks a public URL only if the fetch its
\* creator took part in failed: a client created by a thread that found the
\* URL known when its request began always carries it.
FreshClientKnowsUrl ==
    \A t \in Threads :
        pc[t] = "store" /\ kind[t] = "grafana" /\ knew[t] => val[t].stamp # Empty

\* A known public URL is never lost or replaced: no failing or late goroutine
\* overwrites a successful result (the comment on publicURLFlight).
UrlKept ==
    [][\A u \in Urls : urlCache[u] # Empty => urlCache'[u] = urlCache[u]]_allvars

\* "failures are retried on subsequent calls so that transient errors at
\* startup don't permanently disable the feature" (mcpgrafana.go:546-548): a
\* request that begins when the public URL is known gets a client that has it.
ReturnedWithKnownUrl ==
    \A t \in Threads :
        pc[t] = "got" /\ kind[t] = "grafana" /\ knew[t] => val[t].stamp # Empty
=============================================================================
