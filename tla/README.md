# Verification of vm-proxy-auth

TLA+ models of the gateway: its traffic path, its authentication and tenant
filter, and the storage, membership and discovery with which several gateways
form a cluster. They are model-checked with TLC, and proofs about them are checked
with TLAPS. Every definition is translated from the Go source;
`PROJECT.json` gives, for each, the lines it stands for (`map`), the hazards of
the code, and the properties that would catch them going wrong.

## The system and its parts

A request goes through `handlers/gateway.go` (authentication, access control,
tenant filter) into `proxy.EnhancedService`, which asks a load balancer for a
backend, sends the request, retries and, if configured, parks it in a bounded
queue while no backend is healthy. A health checker probes the backends and
tells the load balancer about state changes. State storage (local, Redis, Raft),
memberlist and discovery let several gateways form a cluster.

| Part | Source (under `src/internal/`) | Module | Status |
|---|---|---|---|
| contract of the load balancer | `domain/types.go` | `BackendState`, `LoadBalancer` | modelled |
| round robin | `services/loadbalancer/round_robin.go` | `BalancerCalls`, `RoundRobin` | modelled, proved |
| weighted round robin | `services/loadbalancer/weighted_round_robin.go` | `BalancerCalls`, `WeightedRoundRobin` | modelled, proved |
| least connections | `services/loadbalancer/least_connections.go` | `BalancerCalls`, `LeastConnections` | modelled but `ResetStats` (tests only), proved |
| health checker, rounds and thresholds | `services/health/checker.go` | `HealthChecker` | modelled, proved but liveness |
| health checker, start and stop | `services/health/checker.go` | `CheckerLifecycle` | modelled, proved but liveness |
| request queue | `services/queue/memory_queue.go` | `MemoryQueue` | modelled, proved |
| proxy service | `services/proxy/enhanced_service.go` | `EnhancedService` (the outgoing query: `Gateway`) | modelled but headers and bodies, proved but liveness |
| local storage | `services/statestorage/local_storage.go` | `WatchChannels`, `LocalStorage`, `StateStorage` | modelled, proved |
| Redis storage | `services/statestorage/redis_storage.go` | `WatchChannels`, `RedisStorage`, `StateStorage` | modelled, proved |
| Raft storage | `services/statestorage/raft_storage.go` | `WatchChannels`, `RaftStorage`, `RaftWatchers`, `StateStorage`; bootstrap: `Discovery` | modelled but `ForceRecoverCluster` and statistics, proved |
| memberlist | `services/memberlist/` | `Membership` | modelled but broadcasts and metadata, proved but liveness |
| discovery | `services/discovery/` | `Discovery` | modelled but a second `Start`, proved but liveness |
| authentication | `services/auth/` | `TokenAuth`, `TenantFilter` (permissions) | modelled, proved |
| access control | `services/access/` | `TenantFilter` | modelled, proved |
| tenant filter | `services/tenant/` | `TenantFilter` | modelled, proved |
| gateway handler | `handlers/gateway.go` | `Gateway` | modelled, proved |
| process wiring | `cmd/gateway/main.go` | `Discovery` (start, then join) | only that |
| configuration, metrics, logging | `config/`, `services/metrics/`, `infrastructure/` | | not modelled |

## How the modules fit together

`BackendState` has the four states and the two availability predicates.

`LoadBalancer` is an abstract specification: what `domain.LoadBalancer` promises
whatever the strategy. A call of `NextBackend` is open until it answers; it may
answer with any backend that was available at some moment while it was open, and
may fail only if at some moment of it no backend was healthy or the balancer was
closed. There is no behaviour in which it panics.

`BalancerCalls` is the control the three strategies share line for line: check
`closed`, read the healthy backends under one lock, read the rate-limited ones
under another if there are none, select. Each is a step of its own, so callers,
`UpdateBackendState` and `Close` interleave between them. Its `pc[c]` says where
caller `c` is, `cand[c]` is the list it has read, `got[c]` the backend it holds.
`avail` and `low` are history variables that the promise is stated with; no
action reads them.

`RoundRobin`, `WeightedRoundRobin` and `LeastConnections` extend it with the
strategy's own counters. Each has `LB == INSTANCE LoadBalancer WITH phase <-
Phase`, where `Phase` hides the steps inside a call, and a property that it
implements the promise. For least connections (`ImplementsLoadBalancer`) it is
`LB!Spec`. The other two can panic; theirs (`RRImplementsLoadBalancer`,
`WRRImplementsLoadBalancer`) allow a panic as well, but only in the states named there
(`PanicAside`), so they also say when the code panics and that nothing else does.
`WeightedRoundRobin` has two more history variables: `served`, the selections of the
current round, and `began`, the current weights when it began.
Integers that can overflow have their width as a constant (`IntMax`, `MaxInt32`) and
wrap; `%` truncates as in Go.

`HealthChecker` has one check goroutine per backend and round, the lock
`statesMu` that is held through the callback, the checker's own copy of the
states (`known`), the load balancer's (`routed`), and an operator who calls
`SetMaintenanceMode`. Consecutive counters are kept up to their thresholds, which
is all that the comparison sees. `CheckerLifecycle` has `running`, the two
channels made in `NewChecker`, and any number of starts and stops.

`MemoryQueue` has the buffered channel, the closed flag that is checked before the
channel is used, and the counters updated after it. `EnhancedService` extends it:
the handler goroutine of request `t` is client `t` of the queue. Its load balancer
is the promise of `LoadBalancer` with a call as one step (any healthy backend, or
an error when there is none or it is closed), except that with two backends to choose
from the call may also panic, as the two round robins do: in which of their states is
their modules' matter. Rate-limited is a state that no code outside the tests sets.
The number of attempts is a variable, chosen at `Init` and never changed.
`handleDequeueError`'s branch for an empty queue needs a
queue timeout of zero, which validation refuses, and is not modelled.

`WatchChannels` has what the three storages share: items with a time to live, the
events, the buffered channels of watchers with Go's rules for closed ones, and the
history the properties need (the last write of a key, which event a channel was
last given, which events it missed). `LocalStorage` has each operation on the
`sync.Map`, the check of `closed` and the sends under `watchMu` as steps of their
own. `RedisStorage` has several nodes on one server, pipelines that fail half-way,
`PUBLISH`, the pub/sub loop of each node, and the two stages of `Close`.
`RaftStorage` has the committed log, the map each node makes of it, snapshots,
restarts, installs, and the goroutines that `get` starts to purge; `RaftWatchers`
has the two registries of watchers of one node. `StateStorage` is the factory: it
chooses one of them at `Init`, and states what all of them promise to watchers.
Raft, Redis and their networks are external.

`Membership` turns the comings and goings that gossip reports, in any order, into
changes of the Raft configuration: `addRaftPeer` and `removeRaftPeer` at once on the
leader and cached elsewhere, `checkLeadershipChange` and `ProcessPendingPeers` when
leadership is gained, `Join`, and `Stop` with its flag. `Discovery` has the loop of
each node, the answers a provider may give, `filterPeers`, the join and
`TryDelayedBootstrap` after it, whose call of the Raft library may fail, the configured
join of `main.go`, and `Stop` racing all of them, also before the loop's first select.

`MCHealthChecker` and `MCCluster` check two modules that share no variable in one run:
a variable `part` says which of the two a behaviour is of.

`TenantFilter` holds the rules that need no state: permissions from groups,
`CanAccess`, the target tenant, the rewritten query, and, as reference, what a
backend answers to a query and which series the mappings give a user. Several project
ids of one account become a regular expression without being quoted; the constant
`Matched` says which ids such an expression matches. `TokenAuth`
extends it with `Authenticate`, its cache of users, the verifier, and the fetcher
whose cache of keys no lock protects: a handler looks for a key in the map and, in a
step of its own (`CheckAge`), at the map's age; a fetch empties the map and then
stores keys one by one into whatever map is current; and an access during that may
end the process. A token without `iat` is not `sound`, and `nbf` stands for the later one
of `nbf` and `iat`. `Gateway` extends `TokenAuth` with `ServeHTTP`: token, access,
filter or tenant, `Forward`, response.

## Runs

| Run | Expect | What it shows |
|---|---|---|
| `least_connections` | pass | counters equal open connections (`ConnAccounting`); a backend is given out only if no usable one has fewer callers (`LeastOutstanding`); the promise is kept |
| `round_robin` | pass | while nothing changes no usable backend is two turns ahead of another (`EvenTurns`); the promise is kept, but for panics while the counter is below zero |
| `weighted_round_robin` | pass | each backend is served what its weight and its credit pay for, through losses and recoveries (`ProportionalShare`); the promise is kept, but for panics after the set of usable backends has changed |
| `health_checker` | pass | no transition missed (`ThresholdsActed`) or early (`TransitionsEarned`); the balancer agrees with the checker outside the callback (`RoutingFollowsChecker`) and converges to what the backend is (`RoutingConverges`), both for backends that no operator touches; never two rounds at once (`OneLoop`); a Stop that saw the end leaves no check behind (`StopQuiesces`); Stop returns and the loop ends (`StopEnds`); only a repeated start or Stop closes a channel twice (`CrashNeedsRepeat`) |
| `maintenance_overridden` | violation of `MaintenanceStays` | the checker ends, in the load balancer, the maintenance that an operator has set there |
| `enhanced_service` | pass | a request is in one hand at a time and answered at most once (`SingleCustody`), within the retry budget (`RetryBudget`); queue statistics add up (`CountersAccount`); no handler waits on an empty queue (`EnoughQueued`); outside of `NextBackend`, a panic only on a closed queue or with `retries: 0` (`PanicsExplained`) |
| `forward_returns` | pass | every call of `Forward` returns or panics, none waits forever (`ForwardReturns`) |
| `queue_mixes_answers` | violation of `OwnAnswer` | a handler returns the response to the request it dequeued, which may be another's |
| `state_storage` | pass | what was stored in local storage is there to be read (`StoredValueFound`); a Raft node has the keys that its log says, through snapshots and restarts, and the values too, but for what was set before the snapshot it was restored from (`StateFollowsLog`); a watcher ends up knowing the last change (`LastEventTells`); an ended watcher is closed (`EndedWatchersClosed`); only closing can make a send panic (`PanicNeedsClose`) |
| `snapshot_loses_values` | violation of `RestoreRestores` | a Raft node restored from a snapshot has lost the values |
| `cluster` | pass | the configuration of an idle leader has its living members and none it saw leave (`NoNewsIsLost`); only a peer that left is removed, and never the leader (`RemovedOnlyIfLeft`); what was cached is processed (`PendingProcessed`); with configured peers, nobody stopped or joined by hand and no failure of the Raft library some node bootstraps (`SomebodyBootstraps`); no node calls `BootstrapCluster` twice (`BootstrapsOnce`), which does not say that only one node does |
| `gateway` | pass | an expired token and a withdrawn key are accepted only as long as the caches keep them, the key once more at a torn read of its cache (`ExpiredTokenFades`, `WithdrawnKeyFades`); a good token is refused only for a failed or an overtaken fetch (`GoodTokenAccepted`); a query in the URL that names no account is answered from within the user's accounts, and from the user's tenants if no project id matches another (`ForwardedForUser`); a write endpoint is sent what is for a tenant that a mapping lets the user write to (`WrittenWhereGranted`) |

Several of these properties hold with exceptions, because the code has them: each
exception is a named condition of the property (`raced`, `late`, `mixed`, `missed`,
`drained`, `taken`, `hurt`, `base`, `astray`, `skipped`, `excused`, `renewed`), and the run shows that there is no
other. The code behaviour behind each is listed under "Deviations" below.
`LastEventTells`, `EndedWatchersClosed` and `PanicNeedsClose` are conjunctions of one
statement per storage; the mutant recorded for each is in one of the three. Type
invariants are checked for the least-connections balancer, the storages and the
gateway.

### Bounds

- `LeastConnections`: three backends, so that a list can lose a member and still be
  a choice, and two callers that race.
- `RoundRobin`: two backends and three callers; the counter wraps at `IntMax` 3, so
  that every value on both sides of zero is met, and there is no bound on calls.
- `WeightedRoundRobin`: weights 1, 1, 5, whose smoothing takes a full turn of seven,
  with eight-bit integers, which no sum comes near. Selection is one critical section,
  so one caller with state changes between its steps reaches every order of
  selections. `MaxPanics` 1.
- Health checker: thresholds 2 and 3, the code's defaults, two backends, one of
  them with an operator.
- Lifecycle: two starts, two Stops, two backends; a double close needs two.
- Service: two requests; capacity 2 so that each can be given the other's request,
  capacity 1 in `forward_returns` so that the queue is full; no or two attempts (no or
  one in `forward_returns`); two backends, so that the balancer can panic (one in
  `forward_returns`). Both settings of `queue.enabled` are initial states.
- Storage: two keys, nodes, clients and watchers and two writes: enough for an event
  that overtakes another, a full channel (`Buffer` 1), a pipeline cut in the middle,
  a purge that meets a new value, and a snapshot between two commands. Both watchers
  watch one key on one node, so that they are symmetric and share a registry entry.
- Membership: two nodes and a guest, that is configurations of two and of three, and
  four events (`MaxEvents`: changes of leader, comings and goings), so that leadership can
  be lost and won again around a coming or a going. What the nodes do about them is not
  bounded.
- Discovery: three nodes of which three are expected, each provider, with and without
  a join by hand, each way to bootstrap, and one node that may be stopped at any time.
- Gateway: two handlers that share the caches; three tokens (good, expiring early,
  not yet valid); a request of each kind, the project ids `p1`, `p2`, `q` and `p.`, which
  as a pattern matches the first two; both times to live 2, timeout 1, and a
  clock up to 4, so that each cache can go stale; three requests, so that one can find
  what two before it have cached.
- `CHECK_DEADLOCK FALSE` where the system really ends: all requests answered, all
  starts and Stops used up, the storage closed, the gossip at rest.

### Fairness

The Go scheduler runs every goroutine that can run: weak fairness of the steps
inside handlers, checks and the monitoring loop. Strong fairness where a choice is
repeated: `RecordHealthCheck` waits for a mutex others take in between (Go mutexes
do not starve), and `Leave` of the lifecycle is a `select` case that competes with
the ticker (`select` chooses at random). Timers fire: `Expire`, `StopTimesOut`, the
timeout of a backend request. Nodes are started, their tickers fire and their calls
return: weak fairness of `DiscoveryStep` of each node in `Discovery`, of `checkLeadershipChange`,
`ProcessPendingPeers` and `ProcessNext` in `Membership`. Nothing is assumed of
backends, clients, operators, gossip, elections, `Forward` being called, `Stop` or
`Close`. The storages and the gateway have safety properties only, and no fairness.

## Proofs

Every safety property that a passing run checks is also proved, for every value of the
constants: eight modules of theorems, each of which extends the modules it is about.
Each proof has the same shape: an inductive invariant, a lemma that the initial states
have it, one step per action that keeps it, and the property as a consequence. An
action property or a refinement comes out of the same step lemma. Leaves name `Zenon`
where there is no arithmetic; it is faster there than the default.

### Load balancers: `BalancerProofs`

For any number of backends, any URL table and any set of callers (a finite one for
least connections):

| Theorem | States | Hypothesis |
|---|---|---|
| `TypeCorrect` | `Spec => []TypeOK` | |
| `Refinement` | `Spec => ImplementsLoadBalancer` | |
| `Accounting` | `Spec => []ConnAccounting` | `UrlsDistinct` |
| `Selection` | `Spec => LeastOutstanding` | `UrlsDistinct` |
| `RRRefinement` | `RRSpec => RRImplementsLoadBalancer` | |
| `TurnsAreEven` | `RRSpec => []EvenTurns` | |
| `WRRRefinement` | `WRRSpec => WRRImplementsLoadBalancer` | `WeightsFit` |
| `SharesAreProportional` | `WRRSpec => []ProportionalShare` | `WeightsFit` |

What the three share is `CallsInv` (in `BalancerCalls`). Types alone do not give the
refinement: a step that fails or answers must be one the promise allows, so the
invariant ties where a call is to its history. A call that looks for rate-limited
backends has seen a moment without a healthy one (`low[c] < 2`); a call about to
select has a non-empty list of backends that were available during the call; the
history of an open call covers the present. One lemma per shared step says that it
keeps `CallsInv` and is a step of `LoadBalancer` or a stutter; these lemmas do not
mention the counters and serve every strategy.

- Least connections: `LeastExists` (a non-empty set of naturals has a least element)
  makes the selection loop's `CHOOSE` denote; `Accounting` counts the holders of a
  backend, and `Selection` follows from it.
- Round robin: `NthIsListed` says that a list of n backends has an i-th for every
  i < n. `TurnsInv` says that the backends served in a turn are the last m of the
  cyclic list for some m < n: that no backend is two turns ahead is not inductive by
  itself.
- Weighted: `RoundInv` says that the current weights add up to zero, that none is
  below the negative of the total weight, and that what a backend is owed is its
  current weight less the one it began the round with. From the first two the weights
  are bounded above (`SumBound`), so that with `WeightsFit` none of the code's overflow
  checks fires (`RaisedFits`); and a list with no debts outside it has a backend with a
  positive weight (`BestExists`), which is why such a call cannot panic. Sums over the
  backends are taken along the code's loop; what they satisfy is proved with
  `LoopInduction`, from the well-foundedness of the naturals. `WeightsFit` says that
  n * n times any of the n weights is at most `MaxInt32`.

### Health checker: `HealthCheckerProofs`

For any set of backends, any positive thresholds, any set of backends under an
operator: `RoutingFollows` (`RoutingFollowsChecker`), `NoTransitionMissed`
(`ThresholdsActed`) and `NoTransitionUnearned` (`TransitionsEarned`). `RoutingInv` adds who may change the two copies of a state: a check
is in its callback exactly when it holds `statesMu` (`recordHealthCheck` unlocks by
`defer`), and no check outlives its round (`wg.Wait`). `ThresholdInv` adds that each
counter is the length of the latest run of its outcome, as far as its threshold
(`CountersTell`), that a counter at its threshold has been acted on, and that a callback
is on its way only for a state that was earned (`CountersActed`).

For any finite sets of loops and Stops: `OneRoundAtATime` (`OneLoop`), `StoppedIsQuiet`
(`StopQuiesces`) and `NoCrashWithoutRepeat` (`CrashNeedsRepeat`), from `LifecycleInv`: the
flag `running` is set while a loop is active, checks are in flight only inside
`performHealthChecks`, and whoever has closed one of the two channels can be named.

### Requests: `GatewayProofs`, `ForwardingProofs`

For any handlers, tokens, requests, mappings and times:

- `ExpiryBound` (`ExpiredTokenFades`), `WithdrawalBound` (`WithdrawnKeyFades`). `TimeInv`
  follows a withdrawn key through the places where it can still be, with the latest time
  for each: an answer being read (`FetchInv`, `KeyInv`), the cache of keys, a token being
  verified, a cached user (`UserInv`); `RenewedInv` says that a key which is used later
  than that was read before the map was first replaced in earnest (`renewed`); `ExpiryInv` does the same for an expired token.
- `GoodTokensPass` (`GoodTokenAccepted`). `AcceptInv` says of a handler between its fetch
  and its use of the cache that every published key is in the cache or still to be stored
  by it, unless another handler has replaced the cache since (`excused`).
- `GatewayTypes` (`GatewayTypeOK`), `ForwardedWithAccess` (`ForwardedForUser`) and
  `WritesGranted` (`WrittenWhereGranted`). The second rests on three theorems about the
  filter, for any accounts, projects and list of tenants, and queries that name no
  account: `FilterIsExact` (the selectors of the rewritten query select together only
  series of the user's accounts and, if no id that is put into a pattern matches another
  (`PlainIDs`), exactly those of the user's tenants), `SelectAnsweredExactly` (a query
  that keeps its labels is then answered from exactly these, although `or` drops samples,
  because no two parts select a common series) and `SumAnsweredFromOne` (an aggregation
  is then answered from the user's series in one account, and lacks the others).

### Proxy service and queue: `EnhancedServiceProofs`

For any requests, backends, retries, and any capacity: `BudgetKept` (`RetryBudget`),
`PanicNeedsCause` (`PanicsExplained`),
`QueueNeverShort` (`EnoughQueued`), `CountersAddUp` (`CountersAccount`), `OnePlaceAtATime`
(`SingleCustody`). `ServiceInv` has the types, where a handler may be, and what it has
spent there. `Custody` says that a request is in one hand, in the channel once, or
answered once, and nowhere before `Forward` has begun with it: requests change hands, so
this is stated of all handlers and the channel together. `EnoughQueued` and
`CountersAccount` are inductive with `ServiceInv`; their steps count handlers with the
library's theorems on finite sets.

### Storages: `StorageProofs`, `WatchProofs`

For any keys, clients, watchers, prefixes, nodes, times to live and buffers:

- `StorageTypes` (`StorageTypeOK`), which is inductive;
- `PanicsOnlyAtClose` (`PanicNeedsClose`): `OpenInv` says for each storage that a channel
  to which events are sent, or which is yet to be registered, is open; for local storage
  as long as no Watch came after Close, for Raft storage until Close begins;
- `StoredIsFound` (`StoredValueFound`): `ValueInv` adds that no client is about to delete
  what a Get is to find, unless it is `raced`;
- `EndedAreClosed` (`EndedWatchersClosed`): `LocalEnded`, `RedisEnded` and `RaftEnded` say
  that a watcher that waits is registered where its end will look for it;
- `ReplicasFollow` (`StateFollowsLog`): `ReplicaInv` says the same of snapshots as of the
  running map, each up to its own index, and that a key which is to be purged holds
  nothing that a Get is to return, unless it is `hurt`, and that what is blank was set
  before the snapshot that the node was restored from (`base`);
- `WatchersAreTold` (`LastEventTells`): `TellsInv` follows the last change of a key from the
  write to the send, through the queue of publications, the pub/sub loops or the
  goroutines of the state machine, and says who still has it to deliver.

### Cluster: `ClusterProofs`

For any nodes and guests, any gossip, any elections and any settings:

- `StayersKept` (`RemovedOnlyIfLeft`). A removal is decided when a leave is reported and
  may be made long after it, by a node that leads by then. `GoneInv` says of every removal
  that is cached or about to be that its peer has left and is not the node itself.
- `NewsArrives` (`NoNewsIsLost`). `NewsInv` says of every node, leading or not, that each
  member that stayed is in the configuration, cached or `astray`, the same for leaves, and
  that a leader with nothing to do has nothing cached but what is `astray`.
- `NoSecondBootstrap` (`BootstrapsOnce`). `DeferredInv` says that a node whose bootstrap is
  deferred has not called it yet.

### What the proofs assume

The assumptions on the constants are the `ASSUME`s of the modules, which TLC evaluates on
every run: at least one backend, each with a URL (`CallsAssumption`); finitely many
callers, loops and Stops (`CallersAssumption`, `LifecycleAssumption`); positive widths,
weights that are natural numbers (`CounterAssumption`, `WeightAssumption`); positive
thresholds (`ThresholdAssumption`); types and ranges that the configuration validates
(`QueueAssumption`, `ServiceAssumption`, `RequestsAssumption`, `MapsAssumption`,
`MatchedAssumption`, `TimesAssumption`, `KidAssumption`, `SettingsAssumption`, `WritesAssumption`); and that
the initial leader is a server (`ServersAssumption`).

Some theorems have a hypothesis more. `UrlsDistinct` and `WeightsFit` are satisfied by
the runs, but not by every configuration that validation accepts. `PlainIDs`, of two
theorems about the filter, fails for some of the run's users.

### What the proof attempts changed

- `ProportionalShare` said that a backend is never owed a whole selection in a round from
  zero weights, and two after that. Three backends keep this; twelve can miss it. It now
  says what holds for any number of them.
- `NoNewsIsLost` and `PendingProcessed` held in a model with two elections. A node that
  loses leadership and wins it again between two looks of its monitor, or before the
  `ProcessPendingPeers` it has started looks, keeps what it cached: `skipped` names it, and
  the run now has no bound on elections but that on all events.
- The types of stored items and of snapshots were too weak to be inductive; they now say
  which write an item is from and how much of the log a snapshot can cover.

### Only model-checked

Liveness, because the prover has no rule for fairness or `ENABLED`: `RoutingConverges`,
`StopEnds`, `ForwardReturns`, `PendingProcessed` and `SomebodyBootstraps`. `OwnAnswer`,
`MaintenanceStays` and `RestoreRestores` are violated.

## Deviations met while modelling

`queue_mixes_answers`, `maintenance_overridden` and `snapshot_loses_values` are the
disagreements that have runs of their own. The others are
exceptions in the properties above, or were met while reading the code for the
models (paths are under `src/internal/services/`, where they do not start with
`src/`).

Balancing, health and proxy:

- `loadbalancer/round_robin.go:68`: the counter wraps below zero, where the index is
  negative and the call panics; its comment (`:32`) says it returns the next available
  backend. `RRImplementsLoadBalancer` shows there is no other way to panic.
- `loadbalancer/weighted_round_robin.go:119`: when the list of usable backends changes,
  all of its current weights may be below zero, none is selected and index -1 panics;
  its comment (`:68`) promises a backend.
- `proxy/enhanced_service.go:638`: a transition found by the checker overwrites
  maintenance in the load balancer, where `health/checker.go:195` says "Don't change
  maintenance state via health checks" and `health/checker_test.go:201` "Health check
  should not change maintenance state": the checker looks at its own copy of the state,
  which `SetMaintenanceMode` does not touch. `MaintenanceStays` is violated.
- `proxy/enhanced_service.go:367`: with `retries: 0`, which
  `src/internal/config/modules/proxy/config.go:152` accepts, no attempt is made and `lastErr` is nil.
- `proxy/enhanced_service.go:348` and `:445`: a retry may be given the backend that has
  just failed, and sends a body that the first attempt has consumed.
- `least_connections.go:108`, `round_robin.go:165`: backends are looked up by URL,
  and validation accepts two upstreams with one URL; reports and updates for the
  second reach the first. This is why `Accounting` assumes distinct URLs.
- `round_robin.go:42-45` (and the other two): a backend that goes from
  rate-limited to healthy between the two reads is seen by neither, and the call
  fails. The promise of `LoadBalancer` therefore allows failure whenever no
  backend was *healthy* at some moment.
- `weighted_round_robin.go:33`: weight 0 becomes the default weight, where
  `src/docs/multiple-upstream-urls/load-balancing.md:131` has it excluded; line 36
  keeps a weight beyond int32, which every selection then skips.
- `enhanced_service.go:631`: ending maintenance declares the backend healthy to
  the load balancer only; if the checker has it unhealthy, it stays in rotation.
- `checker.go:344` and `:274`: a second Stop, or a second start, closes a closed
  channel; `CrashNeedsRepeat` shows there is no other way.
- `memory_queue.go:47`: Close between the closed check and the send panics. With the
  panics of the balancers and with that of `retries: 0` this is all that
  `PanicsExplained` leaves. A receive from the closed and
  empty channel would yield nil, dereferenced at `:136`; `EnoughQueued` shows that
  the service never has a handler dequeue from an empty queue. What waits at Close
  is never received, where `src/docs/multiple-upstream-urls/architecture.md:110` says
  it is drained.
- `enhanced_service.go:246`: a handler that gives up leaves its request queued.

Storage:

- `statestorage/local_storage.go:60` and `raft_storage.go:1007`: a Get that has found
  an expired item deletes whatever the key holds by then, a value just stored
  included (`raced` in `StoredValueFound`, `hurt` in `StateFollowsLog`).
- `statestorage/local_storage.go`: Watch does not look at `closed`; a watcher that
  comes after Close is not closed by it, and while it is registered the end of a
  watcher that Close has closed closes that channel again, which panics (`late`).
- `statestorage/redis_storage.go:596` and `raft_storage.go:676`: ending a watcher whose
  channel holds an event takes the event and leaves the channel open (`drained`,
  `taken`). In Raft storage Close can end a channel to which a send is still to come.
- `statestorage/redis_storage.go:496`: watchers are not told of their own node's writes.
- Events of one key are sent after the lock or command that ordered the writes, so
  that two can arrive in the wrong order (`mixed`), and a full channel loses them
  (`missed`).
- `statestorage/raft_storage.go:1093`: a snapshot encodes items that have no exported
  field, so each is written as `{}`; what Restore (`:976`, "Restore restores the FSM from
  a snapshot.") brings back is empty and never expires. `RestoreRestores` is violated;
  `StateFollowsLog` says for which keys.

Cluster:

- `memberlist/delegate.go:423`: in a configuration of two voters, `NotifyLeave` asks for
  the member list that its caller has locked, and hangs; `ForceRecoverCluster` behind
  it is not reached (`hung`).
- A peer cached by a node that has lost leadership and won it again before its monitor
  looked (`astray`), or before the `ProcessPendingPeers` it had started looked
  (`skipped`), is not processed until leadership is gained anew; and the pending lists
  are emptied whether the calls succeeded or not (`astray`).
- `discovery/service.go:301`: a peer given by host name never equals a member's IP
  address, so that a node finds all peers, itself included, each time. With the peers of
  `src/configs/scenarios/production/ha-cluster.yaml:126-129` each node can join itself and
  bootstrap a cluster of its own, where `raft_storage.go:241` says "Only bootstrap if
  we have enough peers and no existing Raft state in the cluster."
- `TryDelayedBootstrap` counts the peers of one discovery: peers met in separate rounds,
  as with mDNS or after a join by hand, do not add up to the number expected. This is
  why `SomebodyBootstraps` excludes both.
- `discovery/service.go:139`: if Stop is called while a discovery is running, or after
  Start has returned and before the loop's first select, the loop waits on a nil channel
  from then on and never ends (`deaf`), where `:136` says "Close stop channel to signal
  loop to exit" and `:118` that the loop "will use stopCh for cancellation". Stop itself
  returns after two seconds. No property states that the loop ends. `main.go` does not call Stop of the member
  list.
- `memberlist/delegate.go:113`: `GetBroadcasts` serves a queue that only tests fill.

Requests:

- `auth/jwks.go:107`: the cache of keys has no lock. A good token may be refused when
  two fetches overlap (`excused`), and the Go runtime may end the process. At `:63` the
  key is read before the age of the map: a handler that has found a withdrawn key in the
  old map may go on with the age of a new one, however long the withdrawal is past
  (`renewed`).
- `auth/service.go:191`: one matching mapping without write access makes a user
  read-only, whatever other mappings give. `access/service.go:47` counts every POST as
  a write, so read-only users cannot send a query in a form.
- `auth/service.go:245`: nothing calls `CleanupCache`; an entry goes only when its token
  is used again.
- An aggregation over several accounts is rewritten to aggregations connected by `or`,
  which have the same labels, so that only the first account's is returned;
  `ForwardedForUser` says so and does not ask for a complete answer.
- `or_query_builder.go:233`: a selector that names an account is left as it is, and
  `proxy/enhanced_service.go:471` replaces only a query in the URL. `src/README.md:404`
  ("Strict query filtering prevents cross-tenant data access") and the comment at
  `or_query_builder.go:20` say more of the filter than that: `ForwardedForUser` states
  what holds of a query in the URL, and for one that names an account only that it is
  answered from that account.
- `or_query_builder.go:259`: project ids are joined into a regular expression as they are;
  an id with a special character may match other projects of its account (`PlainIDs`).
- `access/service.go:53-58` counts `/write` and `/receive` as writes, `gateway.go:239-243`
  does not: such a request is forwarded without a target tenant. `WrittenWhereGranted` is
  about the write endpoints of the gateway.

## Not modelled

- Metrics and logging only observe. The load balancer factory is a switch without
  state. Test utilities are not part of the program.
- Configuration loading is parsing; its validation appears as assumptions on constants.
- Libraries and servers are external, modelled by how the code uses them: Raft
  consensus and elections, gossip, Redis, the JWKS endpoint, JWT signatures, the PromQL
  parser and the evaluation of a query.
- I/O without state of its own: the mDNS wire protocol, HTTP headers and bodies, the
  text of node metadata.
- `ForceRecoverCluster` is behind the call that hangs. `ResetStats` and
  `QueueBroadcast` are called by tests only.
- A second Start of a discovery service: no code makes one.
- `main.go`: construction, signals and the shutdown of the HTTP server. It never calls
  `EnhancedService.Close`.
- PromQL beyond a selector, alone or under an aggregation: the filter treats each
  selector of a query by itself, but how the parts of a larger expression combine under
  `or` is not covered.
