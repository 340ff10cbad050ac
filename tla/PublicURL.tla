----------------------------- MODULE PublicURL -----------------------------
(***************************************************************************)
(* fetchPublicURL (skuld-mcp-grafana/mcpgrafana.go): the process-wide      *)
(* cache of the public URL of each Grafana instance.  Only successful      *)
(* answers are kept; concurrent calls for one Grafana URL share a          *)
(* singleflight whose leader asks the instance.                            *)
(***************************************************************************)
EXTENDS Integers

CONSTANTS
    Callers,     \* goroutines that may call fetchPublicURL
    Urls,        \* Grafana base URLs
    AppUrls,     \* public URLs an instance may report
    Empty,       \* the empty string: no public URL
    MaxCalls,    \* bound: calls in a run
    None         \* no caller

VARIABLES
    urlCache,    \* publicURLCache: url -> app URL, or Empty when absent
    urlFlight,   \* publicURLFlight: url -> leading caller or None
    ppc,         \* where each caller is
    purl,        \* the Grafana URL it asks about
    pleader,     \* the caller whose flight it joined, or None
    answer,      \* the string it is about to return
    calls        \* number of calls begun

pvars == <<urlCache, urlFlight, ppc, purl, pleader, answer, calls>>

Riders(t) == {w \in Callers : ppc[w] = "wait" /\ pleader[w] = t}

PInit ==
    /\ urlCache = [u \in Urls |-> Empty]
    /\ urlFlight = [u \in Urls |-> None]
    /\ ppc = [t \in Callers |-> "idle"]
    /\ purl = [t \in Callers |-> CHOOSE u \in Urls : TRUE]
    /\ pleader = [t \in Callers |-> None]
    /\ answer = [t \in Callers |-> Empty]
    /\ calls = 0

(* The call looks at the cache without any lock. *)
Call(t, u) ==
    /\ ppc[t] = "idle"
    /\ calls < MaxCalls
    /\ calls' = calls + 1
    /\ purl' = [purl EXCEPT ![t] = u]
    /\ answer' = [answer EXCEPT ![t] = urlCache[u]]
    /\ ppc' = [ppc EXCEPT ![t] = IF urlCache[u] # Empty THEN "done" ELSE "enter"]
    /\ UNCHANGED <<urlCache, urlFlight, pleader>>

LeadFetch(t) ==
    /\ ppc[t] = "enter"
    /\ urlFlight[purl[t]] = None
    /\ urlFlight' = [urlFlight EXCEPT ![purl[t]] = t]
    /\ ppc' = [ppc EXCEPT ![t] = "recheck"]
    /\ UNCHANGED <<urlCache, purl, pleader, answer, calls>>

JoinFetch(t) ==
    /\ ppc[t] = "enter"
    /\ urlFlight[purl[t]] # None
    /\ pleader' = [pleader EXCEPT ![t] = urlFlight[purl[t]]]
    /\ ppc' = [ppc EXCEPT ![t] = "wait"]
    /\ UNCHANGED <<urlCache, urlFlight, purl, answer, calls>>

\* Mutant of RecheckUrl: the leader asks the instance without looking again.
RecheckUrlSkipped(t) ==
    /\ ppc[t] = "recheck"
    /\ ppc' = [ppc EXCEPT ![t] = "fetch"]
    /\ UNCHANGED <<urlCache, urlFlight, purl, pleader, answer, calls>>

RecheckUrl(t) ==
    /\ ppc[t] = "recheck"
    /\ answer' = [answer EXCEPT ![t] = urlCache[purl[t]]]
    /\ ppc' = [ppc EXCEPT ![t] = IF urlCache[purl[t]] # Empty THEN "land"
                                 ELSE "fetch"]
    /\ UNCHANGED <<urlCache, urlFlight, purl, pleader, calls>>

(* doFetchPublicURL: an app URL, or Empty for every error and time-out. *)
Fetch(t, a) ==
    /\ ppc[t] = "fetch"
    /\ answer' = [answer EXCEPT ![t] = a]
    /\ ppc' = [ppc EXCEPT ![t] = "keep"]
    /\ UNCHANGED <<urlCache, urlFlight, purl, pleader, calls>>

(* Only a non-empty answer is stored. *)
Keep(t) ==
    /\ ppc[t] = "keep"
    /\ urlCache' = IF answer[t] = Empty THEN urlCache
                   ELSE [urlCache EXCEPT ![purl[t]] = answer[t]]
    /\ ppc' = [ppc EXCEPT ![t] = "land"]
    /\ UNCHANGED <<urlFlight, purl, pleader, answer, calls>>

LandFetch(t) ==
    /\ ppc[t] = "land"
    /\ urlFlight' = [urlFlight EXCEPT ![purl[t]] = None]
    /\ ppc' = [w \in Callers |-> IF w \in Riders(t) \cup {t} THEN "done"
                                 ELSE ppc[w]]
    /\ answer' = [w \in Callers |-> IF w \in Riders(t) THEN answer[t]
                                    ELSE answer[w]]
    /\ UNCHANGED <<urlCache, purl, pleader, calls>>

CallReturns(t) ==
    /\ ppc[t] = "done"
    /\ ppc' = [ppc EXCEPT ![t] = "idle"]
    /\ pleader' = [pleader EXCEPT ![t] = None]
    /\ answer' = [answer EXCEPT ![t] = Empty]
    /\ UNCHANGED <<urlCache, urlFlight, purl, calls>>

FetchStep(t) ==
    \/ LeadFetch(t) \/ JoinFetch(t) \/ RecheckUrl(t)
    \/ \E a \in AppUrls \cup {Empty} : Fetch(t, a)
    \/ Keep(t) \/ LandFetch(t)
=============================================================================
