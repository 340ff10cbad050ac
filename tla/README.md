# TLA+ models of Skuld: the Grafana MCP server and its companion services

This directory models the concurrent core of the repository, and the tools of its
MCP server, in TLA+. TLC checks
the models on small instances; TLAPS proves the most important invariants for
every instance. `PROJECT.json` lists, for every definition, the source lines it
models.

## 1. The system

| Part | Source | State it keeps | Operations |
|---|---|---|---|
| Client cache | `skuld-mcp-grafana/client_cache.go` | two maps (Grafana and incident clients) by credentials, two singleflight groups, counters and gauges | lookup-or-create, Close |
| Public URL cache | `skuld-mcp-grafana/mcpgrafana.go` | process-wide map of Grafana URL to public URL, a singleflight group | fetchPublicURL, called while a client is created |
| Sessions | `session.go` | map of session id to state, last activity, reaper goroutine | create, get (touches), remove, reap, close |
| Proxied tools | `proxied_tools.go`, `proxied_client.go`, `proxied_handler.go` | per session: initOnce, clients of the datasources' MCP servers, collected tools | discover, connect, register, forward a call |
| Server command | `cmd/mcp-grafana/main.go` | none | connects the hooks of the MCP library to sessions and tools |
| Dashboard tools | `tools/dashboard*.go`, `tools/run_panel_query.go` | none beyond a request: the dashboard as it was fetched | patch and save a dashboard, run the queries of its panels, show them |
| Requests to Grafana | `mcpgrafana.go`, `tools/fallback_transport.go`, the builders of clients | process-wide record of the paths that need the other one | settings of a call, headers, fallback between two paths, retries |
| Datasource and alerting tools | `tools/loki*.go`, `clickhouse.go`, `prom*.go`, `cloudwatch.go`, `pyroscope.go`, `elasticsearch.go`, `alerting*.go` | none beyond a call: its requests and what they returned | query logs, SQL, metrics, profiles; list, read and write alert rules |
| Other Grafana tools | `tools/*.go`, `tools.go`, `k8s_*.go` | none beyond a request | translations between MCP and Grafana APIs |
| Chunk and graph workflow | `chunk&graph/*.py` | a Qdrant collection and a Neo4j graph, both external | one endpoint: store the analysis of a project |
| Java parser | `ast-java-parser` | clones of GitLab projects on disk | clone, analyse, scheduled cleanup |
| Drain3 service | `skuld-drain3/service.py` | one template miner | cluster log messages |
| Slash command bot | `skuld-slash-cmd/index.js` | none | forward a command to a workflow, with a deadline |
| n8n workflows | `Workflows/*.json` | MongoDB collection | refresh: delete, query, insert |
| Deployment | `wazuh`, manifests, values | configuration | |

How they interact: every HTTP request to the MCP server passes through the
client cache twice (a Grafana and an incident client), a miss creates a client
and so asks for the public URL; the request then reaches its session through the
hooks and may be forwarded by a proxied client to the MCP server of a
datasource. The bot calls n8n workflows, which call the MCP server. The Java
parser clones a project and returns its analysis, which a workflow posts to the
chunk and graph endpoint; that endpoint replaces the data of the project in the
two stores.

What is hard here: double-checked caches under two nested singleflights; session
states that three independent cleaners and several requests take hold of, with
mutexes held across network calls; two external stores that are updated in many
calls, any of which may fail, by scans that run side by side; a file tree
that is cloned, read and deleted at the same time; edits of a dashboard that
others edit, and substitutions in the order of a Go map; requests of some twenty
clients that must all speak for one caller, over a record of paths that all calls
share; answers put together from several requests, of which some may fail, and cut
to limits in several places. The list is under `hazards` in
`PROJECT.json`.

What makes the parts correct:

* Client cache: a lookup returns a client for what it asked for; one client per
  key; an entry is not replaced; metrics agree with the map.
* Public URL: a known URL is never lost; clients of one instance agree on it.
* Sessions: a state is cleaned once, no request finds closed clients in it, no
  client outlives it; idle states go, and Close and requests end, unless the MCP
  server of a datasource is silent: then only what waits for its session is held up.
* Workflow: after a scan the stores hold its analysis and nothing else of the
  project; what is kept is never missing meanwhile; other projects are untouched.
* Dashboard tools: a patch means the elements that the caller saw; a query goes
  to a datasource in its own language, and is the one that was shown.
* Requests: each speaks for its caller, to the Grafana of the caller; what one call
  learnt about paths does not keep another from the path that works; a retry
  repeats the whole query, though a body can be read only once.
* Datasource tools: nothing that was found is lost or counted twice except by the
  limit, which is told; a failed request costs what it was for and nothing else (the
  caller is told of a missing panel or part, while missing templates and rule states
  are only logged); windows run forward; limits hold.
* Alert rules: a detail is of one rule; a list is the beginning of what matches.
* Clone store: an analysis reads a whole tree; the cleanup spares a clone in use
  for the retention time, and takes every other one in the end.

## 2. Modules

| Module | Contents |
|---|---|
| `ClientCache` | the cache: one action per critical section of a lookup, panicking creation, Close |
| `ClientCacheProps` | its properties |
| `ClientCacheProofs` | theorems about it |
| `PublicURL` | fetchPublicURL |
| `GrafanaClients` | `ClientCache` composed with `PublicURL` (INSTANCE): createFn of the Grafana cache is the call of fetchPublicURL, and its answer is the stamp of the client; its properties |
| `GrafanaClientsProofs` | theorems about the composition |
| `ProxiedSessions`, `ProxiedSessionsProps` | session map, cleaners, initialisation and calls; their properties |
| `ProxiedSessionsProofs` | theorems about them |
| `ScanSync`, `ScanSyncProps` | scans and the two stores; their properties |
| `ScanSyncProofs` | theorems about them |
| `CloneStore`, `CloneStoreProps` | clones on disk, requests, scheduled cleanup; their properties |
| `CloneStoreProofs` | theorems about them |
| `DashboardPatches` | operators: how patch operations change a JSON document |
| `PanelQueries` | operators: panels, datasources, variables and their substitution |
| `GrafanaTools`, `GrafanaToolsProps` | one call of a dashboard tool, step by step, while others save; properties |
| `LokiLogs` | operators: limits, windows, templates, grouping and merging of log lines |
| `SqlQueries` | operators: limits, macros and windows of ClickHouse queries |
| `MetricQueries` | operators: windows, steps, frames and pages of Prometheus, Cloud Monitoring, CloudWatch, Pyroscope and Elasticsearch |
| `AlertRules` | operators: conversion, filters, limits and merging of alert rules |
| `DatasourceTools`, `DatasourceToolsProps` | one call of a datasource or alerting tool, request by request; properties |
| `Lists` | operators: the elements of a list that pass a test or stand at some places, Go's maps |
| `GrafanaToolsProofs` | lemmas: induction, folds, substitution, patches, and the invariants of the dashboard tools |
| `DatasourceToolsProofs` | theorems about all tools |
| `GrafanaRequests`, `GrafanaRequestsProps` | requests of all clients, their headers, the fallback transport; properties |
| `GrafanaRequestsProofs` | theorems about them |
| `MC*` | instances for TLC; one `.cfg` per run |

Definitions whose comment begins with *Mutant of* are changed forms of an
operation, as a plausible bug would change it; each property is known to fail
when one of them replaces the operation.

### ClientCache

`clients` are the two maps, `flight` the two singleflight groups (the leader of
each key), `pc`, `kind`, `req`, `leader` and `val` the local state of the
goroutines, the rest metrics and history. A lookup runs
`FastHit | FastMiss -> Lead | Join -> Recheck -> Create -> Store -> Land -> Return`.
The singleflight library is modelled by what it does: a leader per key, joiners
that get its value, and its panic re-raised in all of them. `Redacted` is
`clientCacheKey.String()`, which `%v` calls: flights are per redacted key, map
entries per key. `lookups` is counted at the start, `hits` only on the fast path
and `misses` only where a client is stored, so lookups that join a flight or are
answered by the second look at the map count as neither (`client_cache.go:124-153`).

### PublicURL and GrafanaClients

The fetch may answer any public URL or fail, also differently each time.
`GrafanaClients` refines the atomic creation of `ClientCache`: while the lookup of
a thread is at `create`, the thread runs through the steps of `PublicURL`; the two
flights are keyed differently, so lookups that are two flights of the cache meet
in one flight of the fetch. `knew` is a history variable: was the URL known when
the request began. A panic of NewGrafanaClient comes before the fetch in the
code, and so in the model.

### ProxiedSessions

For the HTTP transports. A session state is a number; `sessions` is the manager's
map; the manager's mutex is held within one action only, the state's mutex
(`lock`) is explicit since it is held while clients connect and are closed; a
client's mutex is represented by the calls in progress. `jobs` are the states a
cleaner took out of the map and has yet to clean. The MCP library is external:
`connected` and `served` are its registered sessions and their tools, as the hooks
and `AddSessionTools` show them. A remote server offers at least one tool. Time
is a flag per state: idle for longer than the TTL. The steps of a thread are
`LocalStep`, what the code does by itself or within a time limit, and `RemoteStep`,
what waits for the MCP server of a datasource: connecting and calling. That server
may be silent for ever, since its client has no timeout (`proxied_client.go:46-49`)
and the context of a request no deadline. The cleanup of a state waits for its mutex
and then for the calls in progress, so a silent server reaches the reaper and Close.

### ScanSync

An item is a component of the source with one document and one node; a stored
document, node or relationship is represented by the scan that wrote it. `pc`
names the next call of a scan; each call of a store is one action and may fail,
after which the scan ends. Settings are the two modes of the stores
(`*_RECREATE`, `*_DELETE_MISSING`), fixed while the service runs. Scan ids are
arbitrary, so two scans may share one. Abstracted: node labels, scrolling in
pages (one page), batches (one item each, which allows more interleavings), and
calls that take effect after the client has given up on them. Both stores are
enabled; the summariser and the embedder only can fail, which `Fail` covers.

### CloneStore

A clone is the set of its entries, numbered in the order of their names with
`.git` as 0: a recursive delete goes from the greatest to the least
(`GitLabService.java` sorts in reverse order), so a delete that stops half way
leaves `.git`, which the next request takes for a clone. JGit is external: its
check that the directory is empty and the creation of `.git` are one action,
entries then appear in any order, and a clone that fails is removed or left as it
is. `mtime` is the modification time of the directory, which each entry that
appears or goes renews, and `touchCloneTree` sets. The analysis has two passes,
which list the files separately. A restart deletes all clones or stops half way;
the cleanup at shutdown is the same delete, and the start that follows covers it.
Pruning removes directories that hold no clone's entries, which the model does
not tell from absent ones. `whole`, `doomed`, `touched` and `broken` are history.

### DashboardPatches, PanelQueries and GrafanaTools

`GrafanaTools` is one call of a tool: it fetches the dashboard (`fetched`), works
on it and answers; `stored` is the dashboard in Grafana, which others may save or
move before a patched one overwrites it. A JSON value is a pair of a kind and its
contents, and a path the segments that `parseJSONPath` returns (`Segments`); lists
cut at some places are `ElementsAt` of `Lists`. A text is a
sequence of literals and references in the four forms of Grafana; neighbouring
pieces are taken not to form a new reference. The order in which Go iterates over
a map is a choice of the model (`Orders`), one for all texts of a call. Types of
datasources are the normalised ones. `get_dashboard_panel_queries` without a
panel returns the concatenation of what the model returns for each. Here a query
is what is sent, and may fail; what comes back is in `DatasourceTools`.

The two operations on variables are separate code and differ: for a variable with
several values `run_panel_query` takes the first one and the preview all of them,
only the preview knows defaults and options (`${x:csv}`). `ShowsWhatRuns` states
for which dashboards they agree.

### LokiLogs, SqlQueries, MetricQueries, AlertRules and DatasourceTools

`DatasourceTools` extends `GrafanaTools` and uses its variables: `call` the
arguments, `stored` what the datasource or Grafana holds, `todo` the requests that
are left, `fetched` what each has returned, `errors` those that failed, `results`
the answer. `Begin` checks the arguments, `Ask` and `AskFails` are one request each,
`Reply` puts the answer together with the operators of the other modules, and
`Write` and `Delete` change a rule. Other users edit rules between the requests of a
detail (`OtherEdits`). A handler that would index out of range ends as "panicked". A
log line is a record of what the code reads from it (level, message,
stack trace, where it comes from); a SQL text is a sequence of pieces: text,
variables, macros, and limits with the clause they belong to; a frame is its columns
with each sample a number or unreadable. Times are numbers, `Now` and `Hour`
constants; rounding of times to steps is left out. The Drain3 service is external:
a template for a message, or no answer. So is Loki: it holds each stream in order of
time and answers with the first lines of the whole log in the direction asked for
(`Answer`); grouping by labels and merging of equal lines are both `Alike` of `Lists`,
which joins what has the same key where the key comes first.

### GrafanaRequests

A thread serves one call: `Arrive` computes its configuration from the environment
and the headers of the request (`InfoFromReq`). A round of the fallback transport is
`Load` (reads the shared record `fallback`; a path without a record is tried first,
with the body read, kept in `kept` and put back), `Send`, then `AnswerFirst` (403 or
500: the same request for the other path, with the kept body) and `AnswerSecond`
(records that path unless 403 or 500), or `AnswerLast` when there is one path only.
Other threads may take any step between these, so a record read by `Load` may be out
of date when the request is sent. `Finish` ends a round: the Prometheus client sends
its form by POST and repeats it as GET after 405; a transport that only lets GET
through moves the form to the URL. `body` is what can still be read of the form: it
is gone once sent. `Serves` says by which paths each Grafana forwards, `Refuses` with
which statuses it answers on the others; 500 and 404 stand for all failures of a
path that works, those that lead to the other path and those that do not. A call
ends with `ok`, an error status or a broken connection. `HeadersOf` is the nine ways
in which clients are built; where one header is set twice, the innermost transport
has the last word. `sent` is the history of the call.

## 3. Runs

| Run | Instance | What it shows |
|---|---|---|
| `client_cache` | 3 threads, 2 tokens, one login, 3 requests, 1 Close | the safety of the cache |
| `grafana_clients` | 2 threads, request with and without a token, 2 answers, 1 Close | known URLs stay, clients agree on them, and lookups end under nested flights |
| `sessions` | 1 session id, 2 threads, 2 datasources, 2 states | safety of states and clients |
| `sessions_live` | the same with one datasource, whose server may be silent | requests, Close and reaping end unless they wait for a silent server of their own session state |
| `scan_sync` | 2 scans, 2 projects, 2 scan ids, 2 items, 1 edge, all settings | what a scan leaves, also after a failed scan and beside a scan of another project |
| `clone_store` | 2 threads, 1 project, 4 entries, 3 requests, 1 failure or restart | what a touch protects, why a partial tree exists, that expired clones go |
| `tools` | patches of up to 3 of 13 operations; 240 dashboards to query, 3 variables, 4 datasources; logs of up to 3 lines in 2 streams; SQL of up to 2 pieces; answers of up to 2 frames; 3 or 4 rules in 2 groups, of which others delete or move one | what each tool does to what it found |
| `grafana_requests` | 2 threads, 17 clients, 4 kinds of requests, 2 environments, 3 Grafanas, 1 fault | whose requests are sent, that retries carry the whole query, that the shared record hides no path that works, that timed calls end |
| `flight_key` | 2 threads, 2 tokens | a comment the code contradicts |
| `stale_url` | 2 threads, 3 requests | a comment the code contradicts |
| `session_leak` | 2 threads, 1 datasource | a comment the code contradicts |
| `reaper_stuck` | the instance of `sessions_live` | a comment the code contradicts |

Bounds. Three threads are a leader, a joiner and a late leader, which is every
role in a flight; three requests let each role use another credential. One Close
can fall into every gap of a flight. In `sessions`, two events (`MaxStates`) make
the hardest cases: registration and request, two requests, or a request after a
removal; two states of one id meet in the cleaners. In `scan_sync` two scans
suffice for one that is disturbed, one that follows a finished or failed one and
one beside another project; two items let a scan stop half way. In `tools` a patch
of three operations holds two removals of one array around another operation, the
least in which their order and places matter; the variables cover every kind of
current value, and one value that refers to another variable; a log has more lines
than the limit, equal lines next to each other, in two streams and in three, and
messages that share a template; limits lie below, at and above what there is;
windows have every order of their ends, given or not; two frames are the least whose
statistics can be mixed up. In `grafana_requests` one thread calls every client with
every mixture of settings, the other those with a fallback, which is the least in
which one learns while the other sends; each Grafana forwards by another set of
paths, and one fault makes a path look refused that works, or the other one fail.
There `Refuses` holds 403 and 500 only and each uid belongs to one Grafana, as
`TriedServedPath` supposes. In `clone_store` the clock
runs to 2 with a retention of 1, the least in which a clone expires both before
and after a touch; two threads clone, touch and read one project side by side.
Threads (and
datasources, scans, projects, scan ids) are symmetric in the safety runs; no
liveness run, and neither `tools` nor `grafana_requests`, uses symmetry. Deadlock checking is off everywhere: the counters of
requests run out, and a system that has served all requests may stop.

The runs that expect a violation:

* `flight_key`: the comment in `client_cache.go:132-134` says the flight key
  contains the credentials; `%v` calls `String()`, so it does not.
* `stale_url`: the comment in `mcpgrafana.go:545-548` promises that a failed
  fetch is retried; a cached client never is.
* `session_leak`: the comment at `session.go:154`; a state cleaned before its
  initialisation has finished keeps the clients connected later.
  `LeakOnlyWhenEarly` shows that this is the only way to leak one.
* `reaper_stuck`: the comment at `session.go:74-75` says that idle sessions are
  reaped; the reaper cleans what it took one after the other, and a cleanup waits
  for the mutex that is held while a silent server is connected to. `IdleReaped`
  shows that this is all that keeps an idle session.

Contradictions of a comment or schema that no run checks, since a step of the model
shows each at once or an instance of its own would be needed: the record of paths is
keyed by path and uid alone, so where two Grafanas hold a datasource of one uid,
what one of the two deployments that `fallback_transport.go:14-16` names has taught
is used for the other, and the path that works there is never tried; "if the
fallback succeeded" (`fallback_transport.go:78`) is said of every second answer but
403 and 500, so a 404 or 502 is recorded too (`TriedServedPath` says when the record
is harmless); and `$.panels[2]/-` of a patch appends to the outer array and ignores
the index, where the schema (`dashboard.go:38`) says that it appends to the nested
array at index 2 (`SetAtSegment` in `DashboardPatches`).

Seen while modelling and not listed as findings, since no text promises anything else:
a value of a variable that holds a reference is substituted or not, depending on
the order of a map; a caller who names a datasource without its type has the query
sent in the language of the panel's own; a patch overwrites what others saved
since it fetched;
lookups are not the sum of hits and misses; tools collected for a session the
library no longer knows are never offered; overlapping scans of one project delete
each other's documents and nodes, and a later scan without rivals repairs that;
requests on the side that fail (templates of log lines, the state of a rule) are
logged and not told to the caller, and the lists of label names and values of Cloud
Monitoring drop an error in the body of an answer; a rule of
which some queries come with a letter and others get one by position may have one
letter twice, and what a caller leaves out of a rule that is written is lost; the first
entry that a cleanup deletes renews the time of the clone, so that a cleanup that
stops there (`PartialExplained`) lets the rest stay for another retention time, which
is all that `ExpiredGoes` allows; one end of a window alone
may lie on the wrong side of the other's default (`WindowForward` says for which
tools); a negative limit or page panics (`PanicsExplained`); a list of rules that is
cut by the server may miss matching rules (`ListComplete` says when it does not);
and the analysis of a partial tree is an ordinary answer, so that a scan which
follows in a deleting mode removes what the missing files had contributed.

What some properties leave out by their premise: `SoloExact`, `GraphFollowsVectors`
and `NoGap` speak of scans that no other scan of the project overlaps and whose id,
a time in seconds, no earlier one has; overlapping scans and scans within a second
do lose data, which nothing in the code prevents.

## 4. Fairness

`ClientCache`, `PublicURL` (as composed in `GrafanaClients`): weak fairness of each thread's steps; Go schedules
runnable goroutines, and the fetch has a timeout of five seconds. `ProxiedSessions`:
weak fairness of `LocalStep` of each thread, of each cleaner, the reaper, and Close,
as the ticker keeps firing. No fairness of `RemoteStep`: the answers of the MCP servers
of datasources are not owed, and the properties say what their silence costs. What
else waits on the network has a limit: the client of the Grafana API (ten seconds
for an answer unless configured, `mcpgrafana.go:715-751`) and the probes of the discovery. Weak fairness
is enough for the mutexes because the bounded number of events lets each be taken
only finitely often; Go's mutexes hand over to waiters in the general case.
Arrival of requests, registration, removal, the passing of the TTL and the call
of Close are never assumed. `ScanSync` states safety only. `CloneStore`: weak
fairness of the cleanup as a whole, which the scheduler starts again and again in
a thread of its own; nothing is assumed of requests or of the clock.
`GrafanaTools` and `DatasourceTools` state safety only. `GrafanaRequests`: weak
fairness of `Load`, `Send`, and of the time limit of a client that has one; servers
need not answer.

## 5. Proofs

`ClientCacheProofs`, for all threads, keys, requests and bounds, from
`ClientCacheAssumption` (requests are keys, `None` is no client, the bounds are
numbers) and, where cardinalities occur, that cached keys are finitely many,
which is proved since every store adds one.

| Theorem | States |
|---|---|
| `TypeCorrect` | `Spec => []TypeOK` |
| `LookupsReturnTarget` | `Spec => []ReturnedForTarget` |
| `EntriesStay` | `Spec => EntryNeverReplaced` |
| `GaugeExact` | `Spec => []GaugeMatchesMap` |
| `CreatedOnce` | `Spec => []OneClientPerKey` |
| `Inductive` | `Spec => []IInv`, on which all of them rest |

None of these properties is inductive. That the store of a leader replaces
nothing needs: between its second look and its store, no other thread stores
under its key. So `IInv` adds: a leading thread owns the flight of its key
(`LeadersOwnFlights`), and hence is alone; a waiting thread waits for one that
leads a flight of the same redacted key (`WaitersHaveLeaders`); entries are filed
under their own key (`CachedUnderOwnKey`); the value of a leader is of its key
(`LeadersHoldOwnClient`); and a leader past its second look has nothing cached
under its key (`NothingCachedMeanwhile`), which Close only helps. `CreatedOnce`
counts in addition what a creation has used up: `CreationsSpent`. TLC checked
`IInv` as an invariant before it was proved.

`GrafanaRequestsProofs`, for all threads, callers, settings, Grafanas and bounds,
from `RequestsAssumption`: calls are of one of the seventeen kinds, organisations
are numbers, negative ones included since `ParseInt` reads them, and logins are as
they were typed.

| Theorem | States |
|---|---|
| `RequestIdentified` | the headers that `HeadersOf` builds satisfy `Identified`, for every kind and setting |
| `AllCallersIdentified` | `Spec => []CallerIdentified` |
| `AllQueriesWhole` | `Spec => []QueriesWhole` |
| `ServedPathsTried` | `Spec => []TriedServedPath` |
| `OwnRequestsOnly` | `Spec => []IInv`, on which the last three rest |

The first is about data only: each transport sets one header and keeps the others
(`GetOrg`, `GetAuth`, `GetBearer`, `GetExtra`), whichever order a client puts them
in. The others are not inductive. `CallerIdentified` speaks of requests and not of the
configuration they were made from; `OwnRequests` adds that a thread holds the
configuration of its own call and has sent requests of that call only.
`QueriesWhole` speaks of what was sent and not of what can be read when it is sent;
`BodyThere` adds that a form is readable before every `Send`, and kept as long as the
first path may still be refused. For `TriedServedPath`, `PathsTried` says at each step
which paths were tried, and that one path alone is tried only if the other is
recorded; `RecordsServed` says that a record was made by a call whose Grafana forwards
by the other path, if that Grafana refuses with 403 or 500. Records of one uid so
concern the Grafana of every call with that uid, unless two Grafanas share it.

`CloneStoreProofs`, for all threads, projects, files and retention times, from
`CloneStoreAssumption`.

| Theorem | States |
|---|---|
| `TouchesProtect` | `Spec => []TouchProtects` |
| `PartialsExplained` | `Spec => []PartialExplained` |
| `StoreInductive` | `Spec => []IInv`, on which both rest |

`TouchProtects` speaks of the end of an analysis; `IInv` says why it holds before.
While the touch of an analysis is young (`Young`), its clone is `Shielded`: whole,
cloned by nobody, not at the hands of the cleanup, and as new as the touch. A young
shielded clone is no victim, because the time by which the cleanup judges is never
later than the retention time ago (`CleanupSound`): it was taken when the round
began, and time has only passed since. `ShieldKept` is this argument for the steps
of other threads, which may touch the clone but not clone it, as it has a `.git`.

`GrafanaClientsProofs`, for all threads, credentials, instances and bounds, from
`ClientCacheAssumption` and `StampsAssumption`.

| Theorem | States |
|---|---|
| `ClientsImplementCache` | `GCSpec => Init /\ [][Next]_vars`: the composition refines `ClientCache` |
| `ClientsAgree` | `GCSpec => []StampsAgree` |
| `CreatedWithUrl` | `GCSpec => []FreshClientKnowsUrl` |
| `KnownUrlsKept` | `GCSpec => UrlKept` |
| `ClientsInductive` | `GCSpec => [](IInv /\ UrlInv)`, on which all of them rest |

The refinement is a step-by-step one: a step of the fetch is a stutter of the cache,
its return is one of the outcomes of createFn. It carries `IInv` of the cache over to
the composition, so `UrlInv` need only speak of the fetch: the one who asks an
instance owns the flight of its URL (`FetchersOwnFlights`), nothing is cached while it
asks and what it answers is what is cached then (`AnswersCached`), it is called by the
creation of a client for that URL (`CalledByCreate`), and a request that found the URL
known finds it again (`KnownFound`).

`ProxiedSessionsProofs`, for all sessions, threads and datasources, from
`ProxiedSessionsAssumption`.

| Theorem | States |
|---|---|
| `EachCleanedOnce` | `Spec => []CleanedOnce` |
| `FoundClientsOpen` | `Spec => []LiveClientsOpen` |
| `OnlyEarlyLeaks` | `Spec => []LeakOnlyWhenEarly` |
| `ToolsComplete` | `Spec => []ToolsMatchClients` |
| `ClientsChangeInOrder` | `Spec => ClientSteps` |
| `SessionsInductive` | `Spec => []IInv`, on which all of them rest |

`IInv` has what the code relies on without saying so: a state is filed under one id
(`MapSound`), so two cleaners cannot both take it out of the map; the mutex of a state
is held by a cleaner that has the state among its jobs or by the thread that connects
it (`LocksOwned`), so no client opens while another is closed; one thread runs
initOnce (`OnceOwned`) and connects each datasource once (`ConnectedOnce`); and a
state that all cleaners are done with had been initialised, or is one of those cleaned
too early (`CleanedAfterInit`), which is the only way to a leak. `TakesOut`, `Creates`
and `Moves` group the steps by what they do to the map.

`ScanSyncProofs`, for all scans, projects, components, links, scan ids and settings of
the two stores, from `ScanSyncAssumption` (components are numbered in list order, links
join components).

| Theorem | States |
|---|---|
| `ScansLeaveTheirAnalysis` | `Spec => []SoloExact` |
| `VectorsComeFirst` | `Spec => []GraphFollowsVectors` |
| `ScansLeaveNoGap` | `Spec => NoGap` |
| `ScansInductive` | `Spec => []IInv`, on which all of them rest |

`IInv` says at each step of an undisturbed scan what the stores hold for its project
(`VectorsSoFar`, `VectorsStay`, `GraphSoFar`): which of its own documents, nodes and
links are written, and, once the stale ones are deleted, that nothing else is there.
Two facts about all scans make that last: while a scan is undisturbed no running scan
shares its data (`NoRivals`), and what is stored was written by a scan of its project
whose analysis has it, a link with both its nodes (`Written`). The latter is why
deleting the stale nodes also takes the last links: a link of the scan itself whose
end is no component of its analysis hangs on a stale node. `OthersAside` is the part
about steps of other scans, `StepKeeps` reduces a step to the scan that takes it.

`DatasourceToolsProofs`, with the lemmas of `GrafanaToolsProofs`, for all calls,
dashboards, texts, lists, limits, times and numbers of other users' edits.

| Theorem | States |
|---|---|
| `RoutingHolds` | `AllSpec => []RoutedByType` |
| `SubstitutionHolds` | `AllSpec => []SubstitutedOnce` |
| `ShowingHolds` | `AllSpec => []ShowsWhatRuns` |
| `FailuresStayApart` | `AllSpec => []FailuresContained` |
| `WindowsHold` | `AllSpec => []WindowForward` |
| `SqlHolds` | `AllSpec => []SqlBounded` |
| `SamplesHold` | `AllSpec => []SamplesKept` |
| `DetailHolds` | `AllSpec => []DetailOfOneRule` |
| `ListsHold` | `AllSpec => []ListComplete` |
| `LogsHold` | `AllSpec => []LogsAccounted` |
| `PatchesHold` | `AllSpec => PatchKeepsRest` |
| `ToolsHold` (a lemma) | `AllSpec => []ToolsInv`, on which all of them rest |

They are proved from assumptions about what a call may hold: that the mark of a
dashboard not yet fetched is no text (`UnsetAssumption`), that indices, limits and
times are numbers and that lists are lists, as Go's decoders leave them
(`CallsAssumption`, `ArgumentsAssumption`), that the arrays of a dashboard, at the
start and as others save it, are lists (`IsDocument`, `OthersAssumption`), that the
times of a log are numbers (`IsLog`), and that the default window and the limits are positive (`WindowAssumption`,
`RowsAssumption`). TLC evaluates them for every call of the runs.

The properties speak of answers, `ToolsInv` of the steps before. Its four parts:

* `DashboardInv`: what a panel query reads is the dashboard as it was fetched; after
  k panels each of them has its outcome, and every result is what `PanelQuery` makes
  of its panel in some order of the variables.
* `CallInv`: arguments are those of a start; so is what the datasource holds, unless
  the tool is one beside which rules change.
* `AskInv`: the requests of a call are split into answered, failed and left
  (`Splits`), each at most once; a failure that ends the call is the last request;
  the answer is one of `Outcomes` of what was fetched.
* `RuleReadsInv`: the two reads of a detail are of the rule that was asked for, and
  of rules that are stored as long as nobody edits.

The rest is about data, and goes by induction over lists. The provers cannot
instantiate an induction theorem whose parameter is an operator, so `NatInd` and
`SeqInd` state induction of a set, and `SetRecursionExists` gives the function that
a fold of the community modules chooses. From these come what `FlattenSeq`, `Those`
and `FoldLeft` compute (`FlattenAppend`, `ThoseAppend`, `TotalAppend`), and from
these what the tools do: that replacing one reference after the other, in any
order, fills all of them (`Filled`, `FoldFilled`); that macros, limits and variables
of a query of any length leave one LIMIT (`QueryBounded`); that filtering what the
server cut gives a beginning of what filtering everything gives (`ThosePrefix`);
that joining frames adds up their samples (`JoinedParts`).

`LogsHold` follows a log through the tool. Loki returns the lines whose rank among
the times is below the limit; since ranks in an order leave no gap (`Ranks`), at least
so many lines come back, or the whole log (`FirstOnes`). Merging and
grouping keep the places at which a key comes first and join the rest to them;
summing over the places of each key gives the total over all places. So occurrences
add up whatever the templates are, and a line that is not templated is only merged
with its equals.

`PatchesHold` has three parts. One operation: an array behind a path of one or two
segments loses an element, gets one at its end, or is the same array still, when the
operation concerns it or not (`OneOperation`); an operation on what holds it
concerns it too. The order: within the
places that the removals of an array take among all operations, the sort puts them
by the rank of their index, so each removal there comes before those of lesser
indices, and leaves all other operations in their places (`SortedIs`). All
operations (`PatchIs`): by induction over their number, the array is what it was
without the elements at the places removed so far, then what was added so far;
since what is removed next lies before all that was removed, its place is still the
one the caller saw. That a patch has paths and documents of this form at every save
is `PatchInv`, an invariant beside `ToolsInv`: a dashboard may have been saved by
others before it was fetched.

What the attempts showed. `ListComplete` said that the limits of server and tool
never hide a rule when the matching rules are within the limit; the server counts
also those that record or have other labels, and the property now says so.
`SamplesKept` spoke of any frame; of a frame with two columns of numbers only the
last one counts, so it now speaks of time series, one column of times and one of
numbers. Both had passed because the instances of TLC hold no such data. The
model itself changed only in form: guards of a CASE that overlapped, and hence were
a choice, exclude each other now, recursive operators became recursive functions,
and a sort that the community modules define by the choice of a permutation is
said with the places of a list.

Only model-checked. Every safety property of the passing runs is a theorem. The
liveness properties are all only checked: liveness, with ENABLED, is outside the
prover.

## 6. Not modelled

* The stdio transport and the filter of discovery, flags, TLS: sequential set-up.
* Tools that pass one request through and return its answer (Sift, Asserts,
  incidents, OnCall, administration, annotations, folders, search, links): their
  requests are in `GrafanaRequests`, nothing else of them has state.
* Observability: exporters around the server.
* The parsers, summaries and embeddings: third-party libraries between a source tree
  and the items of `ScanSync`; a state that outlives a request exists only in the
  clone store and the two databases, which are modelled.
* The Drain3 service (its answers are inputs of `LokiLogs`), the bot and the n8n
  workflows: the first wraps a library, the second a handler
  with one timer, the third run by an engine whose scheduling the repository does
  not state. What can go wrong in them is among the hazards.
* Deployment: configuration.
