# A TLA+ model of routini

`routini` is an HTTP reverse proxy built on pingora: routes with load-balanced
upstreams, an adaptive choice of the load-balancing strategy, active and passive
health checks, failover, per-route limits and a hot reload of the configuration.
This directory holds TLA+ modules for the parts of it where tasks and threads
meet, TLC configurations that check them on small instances, and proofs that the
TLAPS proof system checks for every value of the constants. Paths below are
relative to `src/routini/src/`.

## The system

| Component | State | Operations | Who calls it |
|---|---|---|---|
| Health cell (`load_balancing/health_check.rs`) | `healthy`, `enabled`, `consecutive_counter` behind an ArcSwap | `ready`, `enable`, `observe_health` | checks, discovery, passive health, every selection |
| Load balancer, backends (`load_balancing/mod.rs`) | strategy behind an RwLock; selector, backends and health table behind ArcSwaps | `update`/`do_update`, `run_health_check`, `set_enable`, `update_strategy`, `rebuild_selector`, `select_with` | background service, strategy endpoint, requests |
| Selection strategies (`load_balancing/strategy/`) | the ticket counter of round robin; sorted lists; one iterator per search | `iter`, `next`, `get_next` | `select_with` |
| Metrics (`strategy/fewest_connections.rs`, `fastest_server.rs`, `adaptive.rs`) | connection counter, latency average, shared by all copies of a backend | increment, decrement, `record_latency` | proxy callbacks; read by sorting and by the engine |
| Decision engine (`adaptive_loadbalancer/decision_engine.rs`) | none of its own | `evaluate_strategy` | background service |
| Background service (`adaptive_loadbalancer/background_service.rs`) | four timers | update, check, evaluate, rebuild, in a loop with one sleep | tokio |
| Strategy endpoint (`set_strategy_endpoint.rs`) | - | `update_strategy` | operator |
| Passive health and failover (`route.rs`, `proxy.rs`) | failure windows and ejections per RouteState; tried backends per request | `take_expired`, `record_failure`, `record_success`; `upstream_peer`, `fail_to_connect`, `upstream_response_filter` | requests |
| Routing, path cache (`proxy.rs`, `server_builder.rs`) | routers and regular expressions filled at startup; one cache of resolved paths per server | `build`, `resolve` | main; requests |
| Request filter (`proxy.rs`) | context per request | `request_filter` | requests |
| Limiters (`route.rs`) | in-flight counts per RouteState and client | `acquire`, drop of the guard | requests |
| Configuration reload (`reload.rs`, `route.rs`) | the RouteState of each route | `reload` | SIGHUP thread |
| Probes (`load_balancing/health_check.rs`) | pooled connections | `check` of TCP and HTTP | background service |
| Response cache (`proxy.rs`) | pingora's memory cache, shared by all requests | `request_cache_filter`, `response_cache_filter` | requests |
| Headers, request id, peer, TLS, timeouts (`proxy.rs`, `route.rs`, `config.rs`) | the peer a backend carries | `upstream_request_filter`, `response_filter`, `upstream_peer` | requests, once per attempt or answer |
| Configuration (`config.rs`) | none at run time | defaults, validation, route keys | main, reload |
| Logging | none | - | everyone |

The load balancer is the meeting point. The background service updates it, the
endpoint changes its strategy, requests select from it, and passive health
switches its backends on and off from request threads. None of these readers
takes a lock: they load an ArcSwap and may hold what they loaded for any length
of time. Only changes of the strategy and updates of the backend set exclude each
other, by the RwLock around the strategy, whose read guard `update` holds across
an await. `proxy.rs` reaches the load balancer through `RouteRuntime`, whose
`state` a reload replaces under the requests.

What is hard here, and what makes each part correct:

- **Load balancer.** Three tables published one after the other, cells copied
  before they are published, selections that outlive an update. It is correct
  when the published selector is what the current strategy builds from the
  published backends, when tables agree wherever the code relies on it, and when
  a request counts on the counters the strategies read.
- **Health cell.** Load, compute, store, without compare-and-swap. Correct when a
  flip follows the run of results it was configured for, over any number of
  updates, and is reported.
- **Decision engine.** Hysteresis with multiplied thresholds. Correct when it does
  not oscillate, keeps the priority of its signals and comes back to round robin.
- **Background service.** One sleep for four timers, awaits that take time, the
  endpoint in between. Correct when no timer starves, none is left unset, and it
  stops.
- **Selection.** A counter that concurrent searches share. Correct when a ready
  backend is found, first choices follow the weights and a search ends.
- **Failover.** Ejections are forgotten before the backend is enabled, by whichever
  request comes by. Correct when no backend stays disabled for good, no backend is
  tried twice in one request and a request ends.
- **Request filter and reload.** A cache that outlives configurations, guards that
  outlive limiters. Correct when a client never has more than its slots, slots are
  given back, and a request follows one configuration.
- **Routing.** Tables filled in the order of the file, keys made at two places
  (startup and reload), three look-ups (traffic, endpoint, registry) that have to
  agree. Correct when the route that serves a request is the one the file names for
  it, and the endpoint and the reload reach that one.
- **Probes.** Connections kept for the next check. Correct when a verdict rests on
  the answer to its own request.
- **Metrics.** Counters moved by callbacks of which pingora may skip some, averages
  loaded and stored. Correct when nothing drifts on a path of failures and retries.
- **Exchange with upstream and client.** Filters that run once per attempt on
  data that outlives the attempt, and responses that outlive their request. Correct
  when nothing is added twice and nothing of one request sticks to another.

## Modules

| Module | Models | Checked by | Proofs |
|---|---|---|---|
| `BackendHealth` | the cell and its three methods, as operators | `load_balancer`, `failover` | used below |
| `StrategySwitch` | the promise of the load balancer to its callers, without locks or snapshots | `load_balancer` (`Promise`) | `LoadBalancerProofs` |
| `LoadBalancer` | `load_balancing/mod.rs` | `MCLoadBalancer`, `MCProgress` | `LoadBalancerProofs` |
| `DecisionEngine` | `decision_engine.rs`, with metrics that change | `MCFailover`, `MCDecisionEngine` | `DecisionEngineProofs` |
| `AdaptiveService` | `background_service.rs` and the endpoint | `MCProgress`, itself | `AdaptiveServiceProofs` |
| `Selection` | `strategy/*.rs` and `select_with` | `MCProgress` | `SelectionProofs` |
| `Failover` | passive health and the upstream callbacks | `MCFailover`, `MCProgress`, itself | `FailoverProofs` |
| `Admission` | `request_filter`, path cache, connection limiter, reload | `MCAdmission`, `MCProxy` | `ProxyPartsProofs` |
| `Routing` | the file, `build`, `resolve`, the endpoint's lookup, `reload.rs` | `MCProxy` | `RoutingProofs` |
| `HealthProbe` | `check` of the TCP and the HTTP health check | `MCProxy` | `ProxyPartsProofs` |
| `UpstreamMetrics` | the metrics of a backend under the callbacks of `proxy.rs` | `MCProxy` | `ProxyPartsProofs` |
| `Exchange` | cache, peer, headers and ids of a request, from its admission to its response | `MCProxy` | `ExchangeProofs` |
| `ProxyParts` | the last five side by side | `MCProxy` | `ProxyPartsProofs` |

`LoadBalancer` and `Failover` are built on `BackendHealth`, and `LoadBalancer`
instantiates `StrategySwitch` under a refinement mapping. The others meet at
interfaces: `AdaptiveService` takes `update_strategy` as one step because
`LoadBalancer` implements `StrategySwitch`, where it is one; `Failover` takes a
selection as one step that may return any acceptable backend or none, which contains
what `Selection` allows; the backends' readiness that `Selection` lets change at will
is what `LoadBalancer` and `Failover` produce; `LoadBalancer` takes the outcome of a
check as given, `HealthProbe` shows whose outcome it is; `DecisionEngine` lets the
metrics take any value, `UpstreamMetrics` shows what they stand for; `Admission`
takes the target of a path and the entries of a reload as given, `Routing` has where
they come from; `Exchange` begins where `Admission` admits.

`ProxyParts` puts `Admission`, `Routing`, `HealthProbe`, `UpstreamMetrics` and `Exchange`
in one specification. They share no variable, so their interleavings would multiply the
states and add no behaviour of any of them: the initial state chooses the one that moves
(`part`), and the reachable states are the sum of the five, not their product. It names
the properties of its instances again, and its theorems speak of the whole, for every
value of the constants. `MCProxy` gives it small values and fewer initial states of
`Admission` (`MCSpec`).

`MCLoadBalancer`, `MCFailover` and `MCProgress` are put together in the same way: the
initial state chooses the component, or the setting of it, that moves, and everything else
stays as it is. `DecisionEngine` and `AdaptiveService` have names of their own
(`EngineInit`, `ServiceSpec`) so that one module can extend them beside another.

### LoadBalancer

| Code | Actions |
|---|---|
| `update`, `do_update` | `UpdateLock`, `DiscoverFails`/`DiscoverSame`/`DiscoverChanged`, `CloneBackend` for each backend, `StoreSelector`, `StoreBackends`, `StoreHealth`, then `OverrideEnablement` and `EnableStore` for each entry of the enablement map, `EnablementDone` |
| `run_health_check` | `RunHealthCheck`, `CheckLoad`, `CheckStore`, `ChecksDone`; one job after the other or all at once, by `Parallel` |
| `set_enable` from a request | `SetEnable`, `EnableStore` |
| `update_strategy` | `UpdateStrategy`, `WriteLock`, `StrategyUnchanged` or `SetStrategy` and `StoreStrategySelector` |
| `rebuild_selector` | `RebuildLock`, `RebuildStore` |
| `select_with` | `Select`, `SelectNext`, `SelectNone` |

A step is one load or store of an ArcSwap, or one change of the lock. The
background service is one task: its operations do not overlap each other. Metrics
are identities, so that the model can tell whether a request and the strategies
share a counter. What `select_with` returns from a selector is any ready backend of
it, and it may give up at any time; `Selection` looks into that.

The history variables are `told` (what `health_status_change` last said), `obs`
(the run of equal check results per backend) and `retired` (metrics of backends
that left).

`Promise` is the refinement: strategy and pool of the abstract machine are the two parts
of the published selector, `listed` is `backends`, and a call is pending while its task
waits for the lock, compares or stores. It is answered at the step that publishes the
selector and releases the lock, or at the one that finds nothing to change; everything
else (locks, cells, the health table, requests) is hidden and stutters.

### DecisionEngine

`Evaluate` is one round of the engine with `EvaluateStrategy` as a function of the
current strategy and the metrics; `Connect`, `Disconnect` and `RecordLatency` are the
callbacks that change the metrics; `OperatorSets` is the endpoint. Ratios are
integer fractions; "largest against smallest" is written as "some backend against
some other", the same comparison.

### AdaptiveService

One action per branch of the loop (`NotDue` for a timer that is not due), `Wake` for the
sleep, `Tick` for time. The clock is read once per wake-up, as in the code, and
every timer is relative to that reading. Updates and checks may take up to `MaxAwait`
ticks per round.

### Selection

A selector is `RoundRobin`, `Hashed` or `Sorted`. A step is one turn of the loops in
`get_next` and `select_with`: `Exhausted`, `GiveUp` (the iterations are used up),
`Skip` (an item seen before), `Refuse` and `Select`. The item is drawn before the limit
is compared, as in the code. The ticket counter of round robin is shared; `disturbed`
records whether another search drew a ticket in between.

### Failover

`Arrive`, `TakeExpired`, `Restore`, `EnableStore`, `Restored`, `Select`, `NoBackend` are
`upstream_peer`; `RecordFailure`, `Eject`, `Retry` are `fail_to_connect`; `Respond` is
`upstream_response_filter`; `DeadConnection` is pingora's own retry of a request that
found a connection of the pool dead, which re-enters `upstream_peer` without passing
`fail_to_connect`; `CheckLoad` and `CheckStore` are the active check, `Reload`
the replacement of the state. A request keeps the state it arrived with, so after a
reload several sets of windows and ejections are in use. `recent` is the history that
`EjectionEarned` speaks of: the ages of the last `MaxFails` failures since the last
success, newest first. It knows nothing of windows and counts.

### Admission

`CacheHit`, `RouteIn`, `NotFound`, `CacheInsert` are `resolve_in`; `LoadState` is the
snapshot of the state; `RedirectToHttps`, `AccessDenied`, `ActionTaken` and `RateLimited`
answer the request before it holds anything, and may do so at any request; `Acquire`,
`Admit`, `Reject` are `ConnLimiter::acquire`, which counts first and compares then;
`TooLarge`, `BodyExceeds` and `Finish` end the request with the drop of its guard, whatever
its place. `StartReload`, `ReloadRoute`, `SkipEntry`, `AbortReload` are the walk over the
configuration entries. A cached path is the number of the state whose
`strip_path_prefix` was read when it was resolved.

### Routing

| Code | Actions |
|---|---|
| the operator | `Edit`, `Signal` |
| `main`, `Config::routes` | `ReadRoutes`, `ReadFails` |
| `ServerBuilder::build` | `AddRoute` and `InvalidRoute` for each entry in order, `Serve` |
| `resolve` | `ResolveMiss`, `Evict`; a hit changes nothing |
| `set_strategy_endpoint` | `SetStrategy` |
| `spawn_reload_watcher`, `reload` | `TakeSignal`, `ReadFile`, `ReloadRoute`, `SkipEntry`, `AbortReload`, `EndReload` |

A route is the number of its entry. `Resolved` is the code's lookup: the cache of the
server, its router, the regular expressions. `Serves` is the reference, written from the
entries alone. Signals merge while one is pending, as signals do.

### HealthProbe

`Start` takes a check to `connect`; `TcpConnected` ends a TCP check; `Connected` takes a
pooled connection or a new one; `SendRequest`, `ReadHeader`, `Refuse`, `Drain` and
`Release` are the HTTP check; `ConnectFails`, `RequestFails` and `ReadFails` are its error
returns, timeouts included; `Answer` is the backend, at any time after a request, and
`IdleTimeout` the pool. `owed` and `wire` hold what is under way on each connection, so
that an answer that came too late for one check would be there for the next.

### UpstreamMetrics

| Code | Actions |
|---|---|
| `upstream_peer` (the increment is not here) | `Select` |
| `fail_to_connect` | `ConnectFails` |
| `connected_to_upstream` | `Connected`: the increment |
| `upstream_response_filter`, `record_latency` | `LoadAverage`, `StoreAverage` |
| `upstream_stream_ended` | `Answered`, `Broken`: the decrement, after a response or without one |
| the end of a request, and the next in its place | `Finish` |

`samples` is the history of latencies. Counters wrap at `Modulus`.

### Exchange

| Code | Actions |
|---|---|
| `request_filter`, as far as id and settings | `Arrive` |
| `request_cache_filter` | `CacheHit`, `CacheMiss`; `CacheExpire` is the cache |
| `upstream_peer` | `UpstreamPeer`, `NoBackend` |
| `fail_to_connect` | `Retry`, `GiveUp` |
| `upstream_request_filter` | `Send`; `SendAgain` is pingora's retry on a dead reused connection |
| `response_cache_filter` | `Response` |
| `response_filter` | `Respond` |
| `RouteRuntime::reload` | `Reload` |

Settings go through `ToConfig`, the conversion of `config.rs` with its defaults.

## What the runs check

| Run | Instance | Shows |
|---|---|---|
| `load_balancer`: requests | 2 backends, 2 strategies, 1 endpoint task, 1 request that also switches backends, discovery returns any set, 3 metrics objects | `SelectorCurrent`, `HealthKnown`, `RequestsUseLiveMetrics`, `SelectorFirst`, and `Promise`: the whole implements `StrategySwitch` |
| `load_balancer`: checks | the same backends, parallel checks, success threshold 2, failure threshold 1, an enablement map, 2 metrics objects | `HealthAsObserved`, `StatusReported`, and the five above |
| `failover`: failover | 2 requests on 2 backends, or 1 on 3, without a check or a reload; 2 on 1 with an active check and a reload; 2 failures in 1 tick, 1 retry | `TypeOK`, `AttemptsBounded`, `EjectionEarned`, `ForgottenOnlyBy` |
| `failover`: engine | 2 backends, up to 4 connections, 3 latencies, ratios 1.4 and 2.0, exit factor 0.75 | `NoFlapping`, `LeftWithinExit`, `OverloadFirst` |
| `progress`: service | periods 5, 3, 4 and 2 ticks, awaits of up to 1, 4 strategies | `NoSpinning`, `SelectorFresh`, `AllTimersServed`, `ShutdownEndsLoop` |
| `progress`: selection | 2 backends of weights 2 and 1, 2 searches, 3 iterations | `ReadyBackendFound`, `FirstChoicesProportional`, `EverySearchEnds` |
| `progress`: failover | 1 backend, 2 requests, an active check | `RequestEnds`, `EventuallyRestored` |
| `progress`: balancer | 1 backend that comes and goes, 2 strategies, 1 endpoint task, discovery fails or switches the backend | `StrategyCallAnswered` |
| `proxy`: admission | 1 client, 1 route, 3 requests, a limit of 2 that a reload makes 1, 2 or none | `LimitHeld`, `SlotsAccounted`, `FreshState` |
| `proxy`: routing | 9 files, 2 edits, 2 signals, 3 hosts in requests, 2 paths | `ResolvesAsConfigured`, `StrategyReachesTraffic`, `AppliedAsWalked`, `SignalServed` |
| `proxy`: probes | 2 probers, 2 connections, 3 checks, bodies of up to 1 piece | `OwnAnswer` |
| `proxy`: metrics | 2 backends, 2 requests, 2 attempts, latencies 2 and 8, counters modulo 4 | `StreamsCounted`, `AverageWithinSamples` |
| `proxy`: exchange | 2 requests, 3 arrivals (one with X-Forwarded-For on two lines), 3 settings, 3 answers, 2 attempts, reloads | `ForwardedOnce`, `OneRequestId`, `HstsOverTlsOnly`, `PeerAsConfigured` |
| `proxy` | all five | `AllTypeOK` |

And where the code and what it says of itself differ:

| Run | Violates | Because |
|---|---|---|
| `service_endpoint` | `RebuildsPeriodically` | the rebuild timer is set only by the loop's own changes; a FewestConnections set by the endpoint and confirmed by the engine is never rebuilt, although `rebuild_frequency` says so (strategy/mod.rs:49) |
| `failover_vs_reload` | `DisabledHasEjection` | a reload drops the pending ejections while the backends stay disabled, against "restore it once `fail_timeout` elapses" (route.rs:45) |
| `engine_defaults` | `BalancedFallsBack` | with the defaults 1.2 and 0.75 (utils/constants.rs:20, 29) the exit threshold is 0.9, and the ratio of equal counts is one: a busy, balanced pool stays in FewestConnections, against "3. Otherwise fall back to `RoundRobin`" (decision_engine.rs:114) |
| `attempts` | `RetriesBounded` | only `fail_to_connect` compares with `max_retries`; a dead connection of the pool is replaced by one more attempt whatever it says, against "Maximum additional upstream attempts after the first" (route.rs:31) |
| `reload_failed` | `KeepsCurrentConfig` | an invalid entry ends a reload whose earlier entries are applied, while the log says "Config reload failed, keeping current config" (reload.rs:44) |
| `forwarded_lines` | `AppendsToExisting` | of X-Forwarded-For on several lines the first is read and all are replaced, against "append the client IP to an existing `X-Forwarded-For`" (route.rs:316) |
| `response_cache` | `OriginHonored` | only a `Cacheable` verdict on the origin's Cache-Control is returned; a 200 marked `no-store` falls through to the rule for responses without the header and is stored, against "origin `Cache-Control` is honored" (route.rs:106) |
| `admission_stale_path` | `StrippedAsConfigured` | the stripped path is cached although a reload may change the setting, against "every later filter sees a consistent config for this request" (proxy.rs:338) |

### The bounds

- Two backends are enough for a set that shrinks, grows and changes under a
  selector, for a retry on another backend, and for every comparison the engine
  makes; two requests or searches for every race between requests, three for one
  rejection between two admissions under a limit of two.
- `MaxMetrics` bounds the metrics objects ever created (a backend that leaves and
  comes back takes a new one): 3 allow one backend to come back while a request
  still holds its old counters. When they are used up, discovery finds no new backend.
- `MaxConnections`, `Sample`: both sides of every threshold occur, and values between the
  exit and the enter threshold: 4 against 3 connections is more than 1.4 * 0.75 and less than
  1.4. With the default ratio the exit threshold is below one, so that nothing lies between
  it and the smallest ratio there is; `engine_defaults` has the defaults and 5 connections.
- `failover` takes a tick for `fail_timeout`: a failure is in the window, at its end, or
  after it. Two backends and two requests race for ejections, three backends and one request
  have an attempt after a dead connection and a retry, and two requests with a check and a
  reload on one backend have every way to forget it. There no connection is dead.
- The periods of `progress` have no common divisor, so the timers come due in every order
  and fall together. `service_endpoint` has awaits of up to 2 ticks, and theorems hold for all.
- `MaxIterations = 3` is N + 1, the smallest that lets a search see every backend; with
  weights 2 and 1 the weighted and the plain list differ in length and order.
- `MaxReloads`, `MaxStates`, `MaxEntries` bound reloads; one suffices for an old and a
  new state in use at once. `admission_stale_path` walks two entries.
- The nine files of `proxy` have a host in several spellings, a wildcard, a regular
  expression, duplicates, conflicts at startup, refused settings in the middle and at the
  end, routes without upstreams and an invalid path: every outcome of `build` and of a
  reload occurs. Two edits make one change before the start or between two readings, two
  signals make one that arrives during a reload.
- Three checks on two connections: one leaves a connection behind, one takes it, one runs
  beside it. A counter modulo 4 wraps at the first decrement too many.
- Two attempts, and `SendAgain`, run every per-attempt filter twice; the arrivals differ in
  TLS, in the headers they bring and in whether the cache may serve them, the settings in
  every default that `config.rs` fills in.

### Fairness

- Tasks and threads that can run do so eventually (tokio, the operating system); a
  discovery, a check or an update comes to an end. So weak fairness of the steps of
  an operation in progress, and of `Tick`.
- tokio's RwLock queues its waiters, so a lock that is free again and again is granted:
  strong fairness of `WriteLock`, and of nothing else in `LoadBalancer`.
- Nothing forces requests, endpoint calls, reloads or the shutdown. The exception is
  `Arrive` in `Failover`: a backend is restored by the next request only, so
  `EventuallyRestored` speaks of a proxy with traffic. There `Tick` is strongly fair,
  because the model lets no tick pass while a request is between two steps that take no
  time in the code.

## What is proved

`LoadBalancerProofs` proves, for any backends, tasks, thresholds and discoveries:

- `TypeCorrect`: `Spec => []TypeOK`;
- `SelectorIsCurrent`, `HealthIsKnown`, `MetricsAreLive`, `SelectorComesFirst`: the first four
  properties of `load_balancer`;
- `PromiseKept`: `Spec => Promise`;
- `HealthFollowsChecks` and `FlipsAreReported`: the invariants of its checks, when
  nobody switches backends from outside the background task.

The assumptions are those of `LoadBalancer`: the background task is not an endpoint
task, `None` is no task, thresholds are positive, discovery returns sets of backends.

None of the properties is inductive by itself. `SelectorCurrent` says nothing while
the lock is held, so a step that releases the lock needs to know what the holder has
done so far. The inductive invariant is

    IInv == TypeOK /\ LockInv /\ SelectorInv /\ HealthInv /\ MetricsInv /\ WantedInv

`LockInv` ties the lock to the places where tasks are (a task holds it exactly between
its acquisition and its release), hence at most one task is in such a place;
`SelectorInv` says, place by place, what the selector was built from: the published
backends and the current strategy, or the new ones of a holder that has stored its
selector and not yet released; `HealthInv` relates the domains of the tables under
construction to what is still to be cloned; `MetricsInv` says that every pair of a
backend and counters in a selector, in the published set, in a set under construction
or handed to a request is live in the sense of `LiveMetrics`, and that the next object
is fresh. `Invariance` proves it with one lemma per conjunct and one step per action;
each theorem is then a consequence, and the action property `SelectorFirst` follows
because `StoreBackends` publishes what `SelectorInv` says the selector already has.

`PromiseKept` is the step simulation of the refinement: every step of `LoadBalancer`
is a step of `StrategySwitch` or a stutter. It rests on `IInv` and on `WantedInv`: a call
that is about to store its selector has set the strategy it was asked for.

`HealthFollowsChecks` and `FlipsAreReported` have an invariant of their own, `HistoryInv`,
on top of `IInv`. `RunInv`: a run of results that contradicts the verdict is shorter than its
threshold. `AgreeInv`: a published cell says what the run and the last report say; of a cell
whose check has loaded and not yet stored, the one that will be stored does. `CellInv`, by
the place of the background task: checks are under way during the checks only, an `enable`
has loaded the cell as it still is, and a clone is a clone of the cell as it still is, from
the moment it is made to the one it is published. The last is where an update could lose
results. `Toggler = {}`, as in the part of checks, is needed: an `enable` from a request that has
loaded a cell before a check stores it writes the old health back, and the two properties
are false.

`DecisionEngineProofs` proves, for any pool, any ratios and any exit factor of at most
one: `EngineTyped`, `EngineDoesNotFlap`, `EngineLeavesWithinExit` and
`EnginePutsOverloadFirst`. The argument is that both divergence tests are monotone in the
threshold and the exit threshold is not above the enter threshold; so evaluating twice
is evaluating once (`EvaluateIdempotent`), which is the whole of "no flapping". The
invariant behind the action properties is that after an evaluation without changes the
strategy is a fixed point of the engine. Nothing is proved of `BalancedFallsBack`, which the
default settings break (`engine_defaults`).

`AdaptiveServiceProofs` proves `NoSpinning` and `SelectorFresh` for any positive periods
below `Never` and awaits of any length. A timer is in the future from the step that serves
it to the next reading of the clock (`ServedInv`), the loop is behind the clock by its
awaits only (`LagInv`), and the age of the selector and the time to its next building make
up one period, give or take the lag (`AgeInv`).

`RoutingProofs` proves the four properties of `Routing` and its types for any files, hosts,
paths and expressions, and any results of matchit and of the expressions. `RoutingInv` says
what is in the tables after each turn of `build`: `RegistryInv`, `RouterInv` and
`ExpressionInv` relate each to the entries that were added, in both directions (what a table
has is an entry's, and every entry is where it should be), and `ExpressionInv` also says that
the order of the expressions is that of the file. `CacheInv` and `AskedInv` say that caches
hold what the tables give, and that the route the endpoint finds has the strategy it asked
for. `ResolvesAsConfigured` compares `Resolved` with `Serves`, which is written from the
entries alone: the best of the patterns in a router is the best of the paths of its server's
entries (`MinOf`), and a router exists exactly for the hosts that are named.
`AppliedAsWalked` and `SignalServed` are inductive in this company: a reload finds a route by
its key because keys of untwinned routes are distinct (`KeyNames`). What the names have to
satisfy is `Routing`'s `Parameters`. `NoHost`, `Default`, `Unreadable` and `Invalid` are
values of their own beside the hosts, files and settings. `replacen` of the first `*` gives
different paths for different paths: the first `*` of the result is the one that was put
there. The registry writes a route without a host under the key of an empty one, so the model
leaves out entries whose host is the empty string, which the code does not refuse and which
no sensible file has (see below).

`ProxyPartsProofs` proves `SlotsAccounted`, `LimitHeld` and `FreshState` for any finite set of
requests, any clients, routes, limits and reloads. `LimitHeld` does not follow from the
count: the limiter counts first and compares later. `RankInv` is what it needs: of any
set of holders of one limiter one was told a number no less than their count, the last of
them to increment; an admitted holder was told at most the limit. `PlaceInv` says what a
request knows at each place, above all that its guard belongs to the limiter of its own
state, whatever was reloaded.

For the metrics it proves `StreamsCounted` and `AverageWithinSamples` for a finite set of
requests, a modulus above one, latencies above zero and a smoothing factor between zero
and one. A request has an open stream exactly at the places between the two callbacks, so
the number of streams and the counter move together, modulo the modulus (`ModUp`,
`ModDown`). A computed average is between two samples, whichever store wins, because an
average of two such numbers is (`Between`).

`ExchangeProofs` proves the four properties of `Exchange` for any settings, arrivals and
answers, where headers have a (possibly empty) value for each name, `None` is no id, and no
rule of the operator adds Strict-Transport-Security itself, for which the property would be
false by the operator's own wish. The invariant says that what requests share does not
change or carries nothing of theirs (`SharedInv`: the backend's peer is the one it was built
with, a stored response has no HSTS) and what a context holds at each place, as a function of
its arrival and of its snapshot of the settings (`ContextInv`).

`FailoverProofs` proves `TypeOK`, `AttemptsBounded`, `ForgottenOnlyBy` (as
`ForgottenForAReason`) and `EjectionEarned`, beside any number of reloads, with an active
check or without. `AttemptInv` strengthens the second by what remains at the places where
another attempt begins: attempts are counted beside those that replace a dead connection,
for which the code has no bound of its own but the number of backends.

`ForgottenForAReason` replaces the claim that no backend is ever forgotten, which is false
(`failover_vs_reload`), by a list of what can make one so: a reload or the end of the last
request that drops a state with its ejections, and an active check that stores over a
restoration. Each of the other steps is shown to forget nothing, on `EjectInv`: whoever is
about to disable a backend has noted an ejection of it just now, in a state that is in use as
long as the request is, and no time passes until the store.

For `EjectionsAreEarned`, `CountInv` compares a window with the
history: as long as it is open, each of the failures it has counted is in the history and no
older than the window. Time ages both alike, a success clears both, and a failure opens a new
window or adds to an open one; the failure that fills it finds `max_fails` of them there.

For the health checks `ProxyPartsProofs` proves `OwnAnswer` (`AnswersAreOwn`) for any number
of probers, connections and checks. A connection has one user, or none and then nothing is owed or unread
on it (`ConnectionInv`); for a user, `Suits` says what is owed and on the wire at each place
of `check`. The second half of `ConnectionInv` is what the code's two ways to keep a
connection must establish.

`ProxyPartsProofs` then takes the theorems about the parts to the whole. `PartsMove`: a
behaviour of `ProxyParts` is a behaviour of each part's specification, since a step of one
part is a stutter of the others. So each property of the run `proxy` is a theorem about the
specification it checks: `SlotsAreAccounted`, `LimitHolds` and `StateIsFresh` stated for
`Admission`'s `Spec`, the other twelve (`RoutesAsConfigured` to `PartsTyped`) for `AllSpec`.
The assumption is `PartParameters`, the parameters of the four instances.

`SelectionProofs` proves `ReadyBackendFound` and `FirstChoicesProportional` for any number of
backends, any weights above zero, any threads and any `max_iterations`. Both are about lists:

- *The weighted list.* `Weighted` is the value of `FlattenSeq`, a recursive function. That
  there is such a function (`FlattenExists`), and that each backend is in its value exactly as
  often as its weight says (`WeightedLists`), holds for every number of backends by induction.
  The library's induction rules take an operator as a parameter, which the provers cannot
  instantiate; `Inductive` states the rule for a set instead, and follows from the
  well-foundedness of the naturals: a least number outside the set has a predecessor in it.
- *The counter.* It counts modulo the product of two lengths, and so modulo each of them
  (`ModAfter`).
- *A search that finds nothing has seen everything.* `SortedInv`: a sorted search has seen the
  order as far as its index; the order is injective, hence has every backend
  (`OrderComplete`). `TicketInv`: an undisturbed search
   of round robin has seen the backends
  of its last tickets; `Behind` says how long ago the ticket of a backend was, and a draw
  moves each of them one further back except its own (`BehindNext`), so after more steps than
  there are backends none is missing. `SteadyInv`: what was ready all along and acceptable has
  not been seen, because a search returns the first such backend it sees.
- *The shares.* `TurnsInv`: the first choices of a round are those in the part of the list
  that the counter has passed, whichever threads drew them. At its end the part is the list.

`SearchesBounded` is the part of `EverySearchEnds` that needs no fairness: every turn of a search
ends it or uses up one of the `max_iterations`, of which there are never more.

Every invariant and every action property of the passing runs is a theorem, `HealthAsObserved`
and `StatusReported` under the assumption above. Only model-checked is liveness, which is out
of the prover's reach: `StrategyCallAnswered`, `AllTimersServed`, `ShutdownEndsLoop`,
`EverySearchEnds`, `RequestEnds`, `EventuallyRestored`. The last is stated for a proxy without
reloads and for behaviours in which no active check is about to store, because either may
lose a restoration.

## Facts the models show that no run states

- **Switching and checking a backend.** `enable` and `observe_health` load a cell and
  store a new one. A check that loaded before an `enable` stores over it: an ejection is
  undone, or a restoration is lost, and then nothing is left that would restore the backend.
  `ForgottenOnlyBy` names the second (`Overwritten`); no document of the code speaks of
  the order of the two, so no run states it as a violation.
- **Switching during an update.** `do_update` copies the cells before it publishes
  them. A `set_enable` in between changes the old cell and is lost. In production the
  discovery is static, so only the first update changes the set and the window is small.
- **Overlapping ejections.** Two requests can eject the same backend; the ejection that
  ends first restores it.
- **The failure window is fixed, not sliding.** It starts with a failure and restarts
  when it is over: `max_fails` failures within `fail_timeout` that straddle a restart do
  not eject. `EjectionEarned` is the direction that holds.
- **The floor on connections has no hysteresis**: FewestConnections is left as soon as the
  busiest backend is below it, whatever the imbalance.
- **Concurrent round robin.** Two searches in their fallback take turns at the shared
  counter and can make each other miss a backend until `max_iterations` are used up.
  `ReadyBackendFound` therefore speaks of undisturbed searches.
- **Empty keys.** `select_excluding` passes an empty key, so the hash strategies start
  every search at the same backend.
- **Refusals at the limit.** A request that is refused counts until it is rolled back;
  meanwhile another one may be refused although a slot is free.
- **Partial reload.** What an aborted reload applied stays applied, which is what
  `AppliedAsWalked` says and `reload_failed` holds against the log.
  An entry whose upstreams or strategy changed is counted as applied, and the change is
  ignored; a route that was built for an action only keeps its placeholder upstream after
  a reload takes the action away.
- **Leaving FewestConnections.** With the default ratio the engine leaves it only when no
  backend is busy or fewer than two are left: neither a balanced pool nor a latency that
  differs ends it before (`engine_defaults`, `OverloadFirst`).
- **One backend.** A dead connection of the pool costs a route with a single backend the
  request: the retry excludes the only backend and ends in "No healthy backends available".
- **Evaluate and update are separate.** An endpoint call between `evaluate_strategy` and
  `update_strategy` is overwritten by the result of the older evaluation.
- **Off by default.** Passive health does nothing until a route enables it.
- **Unvalidated settings.** A `fail_timeout_secs` of zero is accepted, with which an ejection
  may be taken before the backend is disabled; an evaluation period of zero keeps the
  background loop from sleeping; the smoothing factor is not confined to 0..1, where `AverageWithinSamples` needs
  it; weights of zero would make the weighted list empty and its remainder panic
  (strategy/utils.rs:99), but `build` raises them to one.
- **Hosts.** Regular expressions serve every host. The port is cut off at the first colon,
  so an IPv6 literal never names a virtual host. The endpoint looks into the default server
  only: routes of virtual hosts and regular expressions cannot be reached by it. An entry with
  `host: ""` has a router that only requests without a host name before the port reach, and
  the registry key of a route without a host: a reload would confuse the two.
- **Duplicate regular expressions.** Traffic takes the first, the registry keeps the last:
  the one that serves is never reloaded. `AppliedAsWalked` leaves such twins out.
- **Answers without filters.** Redirects, fixed answers and refusals by the request filter do
  not pass `response_filter` and carry neither request id nor HSTS.
- **Draining a probe's body** has a timeout per read and none over all: a backend that keeps
  sending holds up the check. `HttpHealthCheck` is library code: the balancer that the server
  builds runs the TCP check (adaptive_loadbalancer.rs:41).

## Not modelled

- The generic background service of `load_balancing/background.rs`, which the server does
  not use, and the `set`, `add` and `remove` of static discovery, used by tests only.
- Access rules, actions, the rate limiter and the HTTPS redirect: `Admission` lets each of
  them answer at any request; what they compare is not modelled.
- matchit, regular expressions and the ketama ring: libraries; their results are constants or
  any choice. Of pingora the callbacks and their order, its memory cache (one resource, so
  its key is not needed) and its retry of a dead reused connection. Its limit of 16 attempts
  per request is left out. Any connection may be found dead: the pool is shared with requests
  that are not modelled.
- The time until the watcher of `reload.rs` has registered its handler, and the error of that
  (`reload.rs:30-35`): a watcher that has ended is one to which no signal comes.
- Deserialisation of the configuration, the options of load balancers in it, listeners,
  ports, certificates and the wiring of services in `server_builder.rs` and `main.rs`: they
  run once, in one thread, before anything else does.
- Logging, benches and the demonstration servers.

## Plan

1. Done: all components that keep state at run time, the abstract `StrategySwitch` with its
   refinement, and the proofs above.
2. Done: the proofs of `ReadyBackendFound` and `FirstChoicesProportional`, with the contents of
   the weighted list as a lemma.
3. Open: the composition of `Failover` with `LoadBalancer`'s cells under an active check, to
   bound the window in which a restoration is lost; the access rules of `route.rs`; how many
   of its iterations a disturbed search of round robin can afford before it loses a backend.
