# nasty-go in TLA+

TLA+ models of nasty-go, the WebSocket client of the NASty storage API, with
the TLC runs that check them and the proofs TLAPS checks about them. Line
numbers refer to the repository at the commit these files sit beside;
`PROJECT.json` maps every definition to the lines it stands for.

## The system

| Part | Where | State it keeps | Operations |
|---|---|---|---|
| Transport core | `client.go:254-710, 779-802` | `conn`, `pending`, `reqID`, `closed`, `reconnecting`, `closeCh`; the program counters of callers and of `readLoop` | `Call`, `callOnce`, `readLoop`, `processResponse`, `reconnect`, `reinitializeConnection`, `connect`, `doAuth`, `Close`, `IsConnected` |
| Keepalive | `client.go:709-777` | `failures`, the captured `conn` | `pingLoop` |
| Startup | `client.go:143-252` | the attempt and the current client structure | `NewClient` |
| API wrappers, lookups | `client.go:804-1341`, `interface.go` | none | one `Call` each; searches by property, IQN, NQN |
| CSI properties | `properties.go` | none | conversions |
| Dashboard queries | `dashboard/data.go` | none of their own; several calls each over a changing storage | `FindManaged*`, `FindUnmanagedVolumes`, `GetVolumeDetails`, `ExtractVolumes` |
| Dashboard health | `dashboard/health.go`, `helpers.go` | maps and report of one check | `CheckVolumeHealth`, `AnnotateHealthFromMaps`, `AnnotateVolumesWithHealth`, `CalculateSummary` |
| Dashboard pages | `dashboard/pagination.go` | the caller's slice | `ParsePaginationParams`, `Paginate*` |
| Types, metrics, logging | `dashboard/types.go`, `ClientMetrics`, klog | none that is read back | |

How they interact: any number of goroutines are in `Call`; they share `c.mu`,
the map `pending` and the connection. One reader goroutine takes responses off
the connection, hands each to the caller whose id is pending, and is the only
one that reconnects. `pingLoop` reads `conn` under the lock and closes it
outside. The program may call `Close` and end a call's context at any time. The
server answers late, out of order or not at all, and a link can break at any
time, with requests and responses on it. The dashboard is built of calls.

What is hard: a mutation whose response was lost must not be sent again, while
a call that was never sent must be retried; four places close the channels that
callers wait on; a connection is replaced under callers, under `pingLoop` and
under `Close`; and everything must end after `Close` with no goroutine left
waiting. What makes each part correct is the list of properties below. The hazards
of the code, with their lines, are listed in `PROJECT.json`.

## The modules

`NastyClient` is the transport core. Each section under `c.mu` is one step, as is
every wait on a channel, timer or network operation.

* Callers: `pc[c]` is `attempt` (the loop of `Call`), `send` (`callOnce` before
  the lock), `wait` (its select), `decide` (back in `Call`), `backoff`,
  `returned`. `Write` and `WriteError` are the whole locked section, with the new
  id, the entry in `pending` and the write. The select's cases are
  `ReceiveReply`, `ReceiveClosed`, `ContextDone` and `ReceiveCloseCh`, each
  enabled when its case is ready, so that any ready case may be taken.
* The reader: `rl` is `read`, then `lost` (in `handleReadError`), `purge`,
  `backoff`, `dial`, `token`, `confirm`, `resume` (`reconnect`), `giveUp` and
  `recheck` (after a failed `reconnect`), `exit` and `signal`
  (`cleanupReadLoop`), `done`. `via` tells whether `reconnect` or
  `reinitializeConnection` runs the dial and the handshake.
* Links: connections are numbered as they are dialled, and `conn` is the number
  that `Client.conn` points to; `link[k]` is `unused`, `open`, `down` (broken,
  perhaps with responses still to be read) or `closed` by the client;
  `session[k]` is what the server takes the link to be: `new`, `rejected`,
  `authed`, or `misread` when it accepted the token and `doAuth` cannot read its
  answer (`Misread`: the link stays open, unlike after a timeout,
  `ConfirmFails`). `Serve` handles a written
  request at any later time, also after the link is gone, and answers or not.
* `isConnectionError` matches the text of any error. The kinds of outcome keep
  what this can tell apart: `netError` is any error, an API error included,
  whose text it matches.
* History: `sent`, `answers`, `from`, `notified` and `pending`'s `link`. No guard
  reads them.

`RpcContract` says what `Call` promises its caller with no connection in sight;
`ClientContract` is the refinement mapping from `NastyClient` to it.

`Keepalive` puts the concrete `pingLoop` beside the core. In `NastyClient` the
keepalive may close any link at any time; here it does what the code does, and
a peer may fall silent, that is, stop answering on a link that gives no read error.

`Startup` is the attempt loop of `NewClient`; `NastyClient!Init` is what it
returns.

`Pagination` is a user who opens and turns pages of a list. The four item types
are filtered, sorted and sliced by the same code, written out four times, and are
one definition here. `kept` tells whether the caller fetches the list for every
request or passes one slice again, which the sort permutes in place. A fetched
list may consist of two filesystems' items (`border`) that come in either order,
as `FindManagedSnapshots` lists them. `Determined` says when pages of separate
requests fit together, which the properties of turning pages are about.

`Queries` is one query of the dashboard: `FindManagedVolumes`, `FindManagedSnapshots`,
`FindUnmanagedVolumes` or `GetVolumeDetails`. `step` is the call it makes next, `held`
the subvolumes it has read, `rows` what it shows. Each call is one step that reads the
storage or fails; before each, `StorageChanges` may create, delete, tag or release a
subvolume or change a snapshot, a share or a target, as other clients do. A call is
one step because its answer is of one moment: the server reads once per request, and a
read that `Call` replays counts with its last one. `past` is the sequence of storages
the server had since the query began, against which the properties compare: a query of
several calls shows no single one of them. A target is `<<prefix, id>>`, an NQN or IQN
that ends in `":"` and the name, with the client's default prefix before it or
something else. NFS stands for SMB and NVMe-oF for iSCSI, whose lookups are the same
code written twice. Property maps keep the four properties that a query decides on.

`Health` reads the subvolumes and then the four resource lists one after the other,
while `StorageChanges` may happen between any two. The list that is annotated
(`listed`) is the caller's, of an earlier query that may have been of one cluster: it
may lack volumes the check sees and have some it does not. The pure part is the
per-protocol checks, the report, both ways of annotating a volume list, and the
summary.

Loops over a list (the search and the sort of a page, the ways of annotating a
list) are functions on the places of the list, recursive where a round uses the
last one: `Found`, and `Sorted`, which inserts item after item as
`sort.SliceStable` does with up to 20 of them. Proofs can reason about these.

`ClientInvariant` holds the inductive invariants of the core. The proofs are in
`NastyClient_proofs` (the core, and the lemmas on its steps that the next two use),
`Pending_proofs` (the map `pending`), `Contract_proofs` (the refinement of
`RpcContract`), `Keepalive_proofs`, `Startup_proofs`, `Pagination_proofs`,
`Queries_proofs` and `Health_proofs`. `MC_NastyClient`, `MC_Keepalive`, `MC_Queries`
and `MC_Health` declare the model values of the runs. Each property has a mutant, a
plausible bug in one definition, written before that definition and named in
`PROJECT.json`; TLC finds the property violated by it.

## Runs that pass

| Run | Instance | Shows |
|---|---|---|
| `mutation` | one cancellable mutation, 3 attempts, all four kinds of reply, 2 reconnection attempts, 3 links | it is written again only after its answer (`LostMutationNotReplayed`); a certain outcome leaves nothing to happen later (`CertainOutcome`); the reader never gives up; regained links are announced, but for one that `reinitializeConnection` could not authenticate; no link stays open behind `conn` or behind `Close`, with the same exception (`OpenLinksAreHeld`); `Call` implements `RpcContract` |
| `readonly` | one cancellable read-only call, 3 attempts, 2 links | the contract for calls that are replayed; after `Close` the reader ends and the call returns; a cancelled call returns |
| `shared` | a mutation and a read-only call, 2 links | answers never cross; no pending channel is closed twice; no waiting caller is forgotten |
| `keepalive` | one mutation, 2 links, 2 failed pings | a silent peer's link is closed; `pingLoop` outlives reconnection; the core with `pingLoop` implements `NastyClient` |
| `startup` | the code's five attempts | `NewClient` returns, leaves no failed connection open, never retries on a closed structure |
| `pages` | lists of up to 3 items, 3 keys, pages of 1 or 2; fetched anew in a fixed order or filesystem by filesystem, or kept, in both sort orders | pages are full; wherever the order is determined, turning pages shows each item once, in order, and turning back shows the same page |
| `queries` | two subvolumes of one name in two filesystems, 2 volume names, 2 clusters, 2 protocols, 2 changes during the query, failing calls | a snapshot that is shown existed at a moment, and its subvolume was that volume's and cluster's then or earlier in the query; unmanaged volumes, details and targets that are shown were so at some moment, and those that were so all the time are shown; a cluster sees the same volumes in both lists; "volume not found" is true unless the lookup by name failed |
| `health` | up to 2 subvolumes, found by path, by name or of no known kind, with 2 names, shared or not; an earlier list of up to 2 volumes; failing queries, 1 change during the check | what the report says was true of the resource at some moment of the check, unless the query that lists it failed; both ways of annotating agree on any earlier list; where no two subvolumes have one name, the summary of the list counts its volumes that are problems, and as many as the report when the list has every reported volume once |

### Bounds

`MaxLinks` bounds the dialled connections: three suffice for one lost link, one failed
attempt and one regained link, and so for a reply of the first link, a request on the
second and its retry on the third. `MaxReconnects` is 2 (5 in the code) so that the
loop of `reconnect` goes round and also fails; `MaxAttempts` is the code's 3 where
replay is the question. Two calls are enough for `shared`: its properties relate one
entry or one reply to one caller, and a third call adds no kind of pair. Page sizes
are scaled down (10, 50 and 200 in the code) so that a list of three items has three
pages, or two with the last one not full, and an unknown size is clipped at both ends.
`MaxChanges` is 2 in `queries`, so that a volume is deleted and another created
between two calls. In `health` it is 1: each resource is read once, and its initial
state is any, so that one change before or after the reading makes what was read
differ from what is. Two names are the fewest of which a list may have one that the
check does not see while it lacks one that the check does; they are interchangeable,
and the symmetry uses it. In `queries` only what the running query reads is varied
(`ParamsSet`, `SnapPaths`, `SharePaths`, `Subsystems`); filesystems, volume names and
clusters are interchangeable, which the symmetry uses. One name in two filesystems
makes the case that a name alone would confuse. The four resource lists are of two
kinds, found by path or by name; one of each, the first and the last that is asked
for, has volumes.

### Fairness

Weak fairness of the reader and of each caller: the Go scheduler runs what can
run, timers fire, dial, handshake and write have ten-second timeouts. Nothing is
assumed of the server, the network, `Close` or a context: none of them has to
happen. `pingLoop` is weakly fair because its ticker fires and a ping ends by its
timeout. `NewClient` runs in its caller's goroutine.

## Runs that disagree with the code's own words

Each checks one property that a comment, the README or a test states, and TLC
shows how the code departs from it; `PROJECT.json` quotes the line.

| Run | What happens |
|---|---|
| `api_error_replayed` | an API error whose text reads like a broken connection makes `Call` send a mutation again |
| `orphaned_call` | a call written while `reinitializeConnection` sleeps stays pending on a link that is then replaced; no one tells it |
| `overtakes_token` | at the same time a request can be written on a link before its token, or after its token was rejected |
| `health_false_alarm` | a failed listing counts as empty, and healthy volumes are reported Unhealthy |

Further observations that the models contain but no run is about: `IsConnected` is
true while `reinitializeConnection` sleeps and dials, of a connection the client
closed; `pingLoop`'s failures are not tied to a connection, so those of a replaced
link count against its successor; a network error with "401" in its text ends
`NewClient` as a rejected token; a disabled NVMe-oF subsystem or iSCSI target is
Healthy, and so is a volume of no known protocol; subvolumes with one CSI volume name
all show the health of the last. When the answer to a token cannot be read, in
`reinitializeConnection`, the reader goes back to a link whose requests the server
carries out and which nobody was told of; when this or a rejection happens to the last
attempt of `reconnect`, `reinitializeConnection` replaces the link without closing it,
and it stays open also after `Close`. In `Pagination`, descending order negates the
comparison, so each request on one kept slice reverses equal items again, and a list
of two filesystems changes its order: outside `Determined` an item may be shown twice
and another never. In `Queries`, a snapshot made after its subvolume was released and
tagged for another volume is shown as the first one's, if the subvolume was read
before; all subvolumes are listed as unmanaged when the managed ones cannot be read; a
lookup by name that fails, whatever the reason, ends in "volume not found";
`FindUnmanagedVolumes` uses neither `showAll` nor `clusterID`, and `FindClonedVolumes`
reads and shows nothing. Writing `VolumeProperties` again over a subvolume leaves the
properties that are now empty as they were (`SetSubvolumeProperties` merges), the
cluster among them.

## Proofs

TLAPS proves every safety property of the passing runs, action properties and the
two refinements included, for every value of the constants: any set of calls and
any allowlist, any number of attempts, links and failures, any locations,
clusters and properties, lists of any length, any page size. Assumed is only what
the `ASSUME` of each module says of its constants: `ClientAssumption`,
`KeepaliveAssumption`, `StartupAssumption`, `PaginationAssumption`,
`QueriesAssumption` and `HealthAssumption`; TLC evaluates each on the runs.
`PROJECT.json` lists the theorems with the properties they state.

**Transport core** (`NastyClient_proofs`). `TypeCorrect` needs that a caller in
`backoff` has an attempt left, so what is proved is `TypeInv`. The argument for retry
safety (`LostMutationsNotReplayed`, `CertainOutcomes`, `AnswersAreOwn`) is `IInv` in
`ClientInvariant`. That a mutation is not written again while its outcome is open is
not inductive: a late reply could be counted against the wrong write. So ids in use
were issued by `reqID` (`IdsIssued`) and name one call on the wire, in replies and in
`pending` (`IdsNameCalls`); with them a reply that reaches a channel answers its owner
(`AnswerIsOwn`). A mutation's one unanswered request is then in a single place: on the
wire, in a reply, or in its channel (`OnePlace`); and its writes and answers are equal
while it may still be written and one apart while it waits (`AnswersAccounted`).
`MutationsSentOnce` has a hypothesis: with no reply that `isConnectionError` mistakes
(`"netError" \notin ReplyKinds`), a mutation is written at most once, because one
which may still be written has not been (`Unsent`). The run `api_error_replayed` shows
that the hypothesis is needed. `ReconnectIsAnnounced` follows from `AnnounceInv`:
while the reader is between two links, the one `conn` still names is unusable, that
is, gone or not authenticated by the client, and only a link of the second kind, which
`reinitializeConnection` gives back to the reader, is read unannounced.
`OpenLinksAlwaysHeld` rests on the same fact, since only an unusable link is ever
replaced, and on `LinksInv`: links not yet dialled are unused. The proofs have one
step per action, on top of lemmas about families of actions that leave the relevant
variables alone.

**Pending calls** (`Pending_proofs`). `PendingAreOpen` and `NoWakeupIsLost` are
inductive only together, with two more facts: no two waiting callers wait under
one id (`WaitersDistinct`), or a reply for one would drop the entry of another;
and after the reader's last purge the client stays closed, so that nothing is
registered that nobody will wake (`ReaderEnds`).

**The contract** (`Contract_proofs`). `ClientImplementsContract` maps each step to a
step of `RpcContract` or to a stutter. The contract counts the requests of a call that
were carried out, so the invariant counts frames: each call has at most as many on the
wire or carried out as it wrote (`FramesCounted`), the server handles a frame once
(`HandledOnce`), and what is counted as written or answered was (`ContractInv`). With
`AnswersAccounted` this bounds what a mutation does that returned an uncertain
outcome.

**Keepalive** (`Keepalive_proofs`). `KeepaliveRefinesClient`: `pingLoop` only does
what `NastyClient` lets its keepalive do. Hence `SafeBesideKeepalive` and
`ContractBesideKeepalive`, the results above beside the concrete `pingLoop`;
`KeepaliveOutlivesReconnects` follows from `ReaderEnds`.

**Startup** (`Startup_proofs`). At most the connection of the attempt under way is
open (`OpenConns`); this carries `NoConnectionIsLeft` and `EveryAttemptCanSucceed`
round the loop.

**Queries** (`Queries_proofs`). `QueriesInv` says, for the time between any two calls,
of which storage in `past` that what the query holds and shows is true, and of a
snapshot that its storage is not before that of its subvolume: `SnapshotInv`,
`UnmanagedInv`, `DatasetInv` and `TargetInv`, one for each kind of query. Of what is
not held it says the opposite: a location that is missing was missing, or not asked
for, at some moment. That gives the two halves of each pair of properties, that what
is shown was so and that what was so is shown.

**Health** (`Health_proofs`). A map made from a list that was answered has for each
name a state that the resource had (`MapsInv`), and report and annotations are
computed from the maps of one check, or the check ended before there were any
(`ReportInv`). `SameAnnotations` and `SummaryCountsProblems` are facts about the pure
part, for lists of any length: both ways of annotating give every entry of the
caller's list the health of the last subvolume of its name (`AnnotatedEntry`); when no
name occurs twice, the entries that the summary counts as unhealthy are those with a
problem (`SummaryIsTroubled`), and when the list has the names of the report, once
each, they correspond to the report's problems one to one (`TroubledAreBad`).

**Pages** (`Pagination_proofs`). The search and the sort are loops, and what they
do is proved by induction over their rounds, from the least round that would do
something else: the search keeps what matches in its order (`FoundIs`), the sort
enumerates the same items in key order (`SortedIs`), an ascending sort of what is
sorted changes nothing (`SortedAgain`), and distinct keys have one order
(`OneOrder`). Page numbers are Euclidean division (`DivisionIs`, `PageRange`), so
the pages of one list, put one after the other, are the list. `PaginationInv` then
says that the page shown is a window on such a list (`PageInv`) and, wherever the
order is determined, that it and all pages turned so far are windows on the one
list that every further request will get (`WalkInv`). From it follow
`PagesAreFull`, `WalksShowEachOnce` and `TurningBackIsSafe`.

Model-checked only is liveness, which needs fairness and ENABLED:
`CloseStopsReader`, `CloseReleasesCalls`, `CancelReleasesCalls`,
`SilentPeerDetected` and `NewClientReturns`. The properties of the runs that end in
a violation are false of the code and have no theorem.

## Not modelled, and why

* Method names, parameters and results of API calls: a call is a mutation or on
  the allowlist. Parameters that `json.Marshal` rejects are left out (the wrappers
  pass strings, numbers and maps of them).
* Time. A backoff is a wait that ends; a timeout is a step that may come at any
  time, so every race of a timeout with a late answer is there.
* Metrics, logging, TLS options, the read limit.
* `SetOnReconnect` is taken to have been called before the first drop; the
  callback's own work is its owner's.
* What the server makes of a request that arrives before the token is not in the
  repository: the model takes it for a failed login.
* The merging that `sort.SliceStable` also does on lists of more than 20 items.
  The theorems about pages are of insertion at any length; in ascending order,
  and where no two keys are equal, every stable sort gives the same list.
* The other API wrappers of `client.go:804-1341`: each fills in parameters, makes
  one `Call` and decodes its result. `FindClonedVolumes`, `extractDetachedSnapshots`
  and `isSystemDataset` (`dashboard/data.go`) show nothing or are not called, and
  `MatchK8sBinding` is two lookups in a map that its caller supplies.
* Sizes and capacities with `FormatBytes` and `StringToInt64`, and the texts of
  the remaining CSI properties: they are displayed, nothing is decided on them.
* Two shares of one path, of which the maps of the health check keep the last:
  whether the server allows them is not in the repository.
* Annotating one list twice: a volume that has recovered keeps the issue text of the
  first time, since only a new issue replaces it (`health.go:351-353`).
* What a caller does after `ErrUncertainOutcome` (README, "Retry safety"): the
  reconciliation is the caller's code, which the repository does not hold.
* Whether `ListAllSubvolumes` takes an empty filesystem for all of them is the
  server's; the model assumes it, as `FindUnmanagedVolumes` does.

## Plan

Done in this order: the transport core with its contract, keepalive, startup,
the proofs of the core, pagination, health, queries and the pages of lists that
change their order; then the proofs about `pending`, the contract, keepalive,
startup, queries, health and pages. What is left:

1. The hazards in `PROJECT.json` that no property covers: what `IsConnected`
   says between two connections, failures of the keepalive that outlive their
   connection, the transient failures that `NewClient` takes for permanent ones,
   the disabled targets of the health check, the order of equal
   items and of snapshots across pages, and the link that `reinitializeConnection`
   leaves open.
2. Shorter proofs in `Pagination_proofs`, whose lemmas on insertion and on pages
   may say more than their uses need.
