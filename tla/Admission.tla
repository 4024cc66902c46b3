------------------------------- MODULE Admission -------------------------------
(***************************************************************************)
(* The way of a request through `request_filter` of proxy.rs, next to the  *)
(* hot reload of reload.rs: path cache, snapshot of the route's state, the *)
(* per-client limit of concurrent requests, and the end of the request.    *)
(*                                                                         *)
(* Every reload of a route builds a RouteState of its own: a number into   *)
(* `states`, with the settings it was built from and with counts of its    *)
(* own in `inflight`.                                                      *)
(*                                                                         *)
(* Abstractions.  A path stands for a host and a path.  Of a configuration *)
(* remain strip_path_prefix and max_connections.  All paths have something *)
(* after the prefix, so whether they are stripped depends on the setting;  *)
(* a cached path is the number of the state whose setting was read.        *)
(* Access rules, actions and the rate limiter may refuse any request.      *)
(* Every client has an address; without one no limiter applies.            *)
(* Inflight of pingora_limits counts exactly.                              *)
(***************************************************************************)
EXTENDS Naturals, Sequences, FiniteSets

CONSTANTS
  Route,         \* the routes built at startup: the registry of the reload
  Path,
  Target,        \* what the router says of a path: a route or NoRoute
  Client,        \* addresses of clients
  Request,       \* concurrent requests
  Limits,        \* the values of max_connections a configuration may have,
  NoLimit,       \* and its absence
  NoRoute,
  MaxStates,     \* bound on the route states ever built
  MaxEntries     \* bound on the entries of a configuration

ASSUME LimitsNat == Limits \subseteq Nat /\ NoLimit \notin Nat
ASSUME Targets == Target \in [Path -> Route \cup {NoRoute}] /\ NoRoute \notin Route
ASSUME Finite == IsFiniteSet(Route) /\ IsFiniteSet(Request)
ASSUME BoundsNat ==
  MaxStates \in Nat /\ MaxEntries \in Nat /\ Cardinality(Route) <= MaxStates

VARIABLES
  states,      \* the RouteStates built so far
  current,     \* RouteRuntime::state of each route
  cache,       \* the path cache; 0: no entry
  inflight,    \* ConnLimiter::inflight of each state, per client
  reload,      \* entries the reload thread has still to walk
  request      \* per request: its place in request_filter and its context

vars == <<states, current, cache, inflight, reload, request>>

State == 1 .. MaxStates

\* States: new       cache.get, then the router
\*         routed    route_in has read the setting; cache.insert comes
\*         resolved  state.load_full comes
\*         filtered  access rules, actions, rate limiter, ConnLimiter come
\*         counted   Inflight::incr has returned, the comparison comes
\*         admitted  the body size comes; a guard is held if there is a limit
\*         proxied   request_filter has returned false
Free == [pc |-> "free"]

RouteOf(q) == Target[request[q].path]

Holds(q, n, c) ==
  /\ request[q].pc \in {"counted", "admitted", "proxied"}
  /\ request[q].guard = n
  /\ request[q].client = c

Init ==
  /\ \E f \in [Route -> 1 .. Cardinality(Route)], strip \in BOOLEAN,
        max \in Limits \cup {NoLimit} :
       /\ \A r, t \in Route : r # t => f[r] # f[t]
       /\ current = f
       /\ states = [n \in 1 .. Cardinality(Route) |-> [strip |-> strip, max |-> max]]
  /\ cache = [p \in Path |-> 0]
  /\ inflight = [n \in State |-> [c \in Client |-> 0]]
  /\ reload = 0
  /\ request = [q \in Request |-> Free]

-----------------------------------------------------------------------------
\* A request comes in.  `since` is history: the state its route has now.
Arrive(q, c, p) ==
  /\ request[q].pc = "free"
  /\ request' = [request EXCEPT ![q] =
       [pc |-> "new", client |-> c, path |-> p, resolved |-> 0, state |-> 0,
        guard |-> 0, count |-> 0,
        since |-> IF Target[p] = NoRoute THEN 0 ELSE current[Target[p]]]]
  /\ UNCHANGED <<states, current, cache, inflight, reload>>

\* https_redirect: answered before any routing.
RedirectToHttps(q) ==
  /\ request[q].pc = "new"
  /\ request' = [request EXCEPT ![q] = Free]
  /\ UNCHANGED <<states, current, cache, inflight, reload>>

\* resolve_in: the cache has the path.
CacheHit(q) ==
  /\ request[q].pc = "new"
  /\ cache[request[q].path] # 0
  /\ request' = [request EXCEPT ![q].pc = "resolved",
                                ![q].resolved = cache[request[q].path]]
  /\ UNCHANGED <<states, current, cache, inflight, reload>>

\* resolve_in: it has not, and route_in reads the setting of the route ...
RouteIn(q) ==
  /\ request[q].pc = "new"
  /\ cache[request[q].path] = 0
  /\ RouteOf(q) # NoRoute
  /\ request' = [request EXCEPT ![q].pc = "routed",
                                ![q].resolved = current[RouteOf(q)]]
  /\ UNCHANGED <<states, current, cache, inflight, reload>>

\* ... or finds no route: 404.
NotFound(q) ==
  /\ request[q].pc = "new"
  /\ cache[request[q].path] = 0
  /\ RouteOf(q) = NoRoute
  /\ request' = [request EXCEPT ![q] = Free]
  /\ UNCHANGED <<states, current, cache, inflight, reload>>

CacheInsert(q) ==
  /\ request[q].pc = "routed"
  /\ cache' = [cache EXCEPT ![request[q].path] = request[q].resolved]
  /\ request' = [request EXCEPT ![q].pc = "resolved"]
  /\ UNCHANGED <<states, current, inflight, reload>>

\* Mutant: the cached route keeps the state, not the runtime.
SnapshotOfCache(q) == request[q].resolved

Snapshot(q) == current[RouteOf(q)]

LoadState(q) ==
  /\ request[q].pc = "resolved"
  /\ request' = [request EXCEPT ![q].pc = "filtered", ![q].state = Snapshot(q)]
  /\ UNCHANGED <<states, current, cache, inflight, reload>>

\* request_filter answers the request itself; nothing is held yet.
Answered(q) ==
  /\ request[q].pc = "filtered"
  /\ request' = [request EXCEPT ![q] = Free]
  /\ UNCHANGED <<states, current, cache, inflight, reload>>

\* 403 or 401 by ip_allowed and auth_ok,
AccessDenied(q) == Answered(q)

\* a redirect or a fixed response,
ActionTaken(q) == Answered(q)

\* 429 by the rate limiter.
RateLimited(q) == Answered(q)

-----------------------------------------------------------------------------
Limit(q) == states[request[q].state].max

\* The configuration sets no limit.
NotLimited(q) ==
  /\ request[q].pc = "filtered"
  /\ Limit(q) = NoLimit
  /\ request' = [request EXCEPT ![q].pc = "admitted"]
  /\ UNCHANGED <<states, current, cache, inflight, reload>>

\* Mutant: the count is read first and incremented on success.
CountBefore(n, c) == inflight[n][c]

\* What Inflight::incr returns beside the guard.
CountAfter(n, c) == inflight[n][c] + 1

\* ConnLimiter::acquire: increment first ...
Acquire(q) ==
  LET n == request[q].state
      c == request[q].client
  IN /\ request[q].pc = "filtered"
     /\ Limit(q) # NoLimit
     /\ inflight' = [inflight EXCEPT ![n][c] = @ + 1]
     /\ request' = [request EXCEPT ![q].pc = "counted", ![q].guard = n,
                                   ![q].count = CountAfter(n, c)]
     /\ UNCHANGED <<states, current, cache, reload>>

\* ... then compare: the guard is kept,
Admit(q) ==
  /\ request[q].pc = "counted"
  /\ request[q].count <= Limit(q)
  /\ request' = [request EXCEPT ![q].pc = "admitted"]
  /\ UNCHANGED <<states, current, cache, inflight, reload>>

\* Mutant: a guard gives its slot back to the route's current limiter.
ReleasedToCurrent(q) ==
  [inflight EXCEPT ![current[RouteOf(q)]][request[q].client] =
     IF request[q].guard = 0 THEN @ ELSE @ - 1]

\* Mutant: the count goes down whether or not there is a guard.
ReleasedAlways(q) ==
  [inflight EXCEPT ![request[q].state][request[q].client] = @ - 1]

\* Guard::drop, if there is a guard.
Released(q) ==
  [inflight EXCEPT ![request[q].state][request[q].client] =
     IF request[q].guard = 0 THEN @ ELSE @ - 1]

\* ... or dropped, and the request is answered with 429.
Reject(q) ==
  /\ request[q].pc = "counted"
  /\ request[q].count > Limit(q)
  /\ inflight' = Released(q)
  /\ request' = [request EXCEPT ![q] = Free]
  /\ UNCHANGED <<states, current, cache, reload>>

\* The body is not too large: the context gets the route and the state.
Proxy(q) ==
  /\ request[q].pc = "admitted"
  /\ request' = [request EXCEPT ![q].pc = "proxied"]
  /\ UNCHANGED <<states, current, cache, inflight, reload>>

\* The context is dropped, and with it the guard.
Dropped(q, pc) ==
  /\ request[q].pc = pc
  /\ inflight' = Released(q)
  /\ request' = [request EXCEPT ![q] = Free]
  /\ UNCHANGED <<states, current, cache, reload>>

\* 413 by the length the client announced,
TooLarge(q) == Dropped(q, "admitted")

\* or by the bytes that came (request_body_filter),
BodyExceeds(q) == Dropped(q, "proxied")

\* or the request is over, with a response or an error.
Finish(q) == Dropped(q, "proxied")

\* The bounded cache drops a path.
Evict(p) ==
  /\ cache[p] # 0
  /\ cache' = [cache EXCEPT ![p] = 0]
  /\ UNCHANGED <<states, current, inflight, reload, request>>

-----------------------------------------------------------------------------
\* SIGHUP, and a file that load_config_from can read.
StartReload(entries) ==
  /\ reload = 0
  /\ Len(states) < MaxStates
  /\ reload' = entries
  /\ UNCHANGED <<states, current, cache, inflight, request>>

\* RouteRuntime::reload: an entry for r with valid settings.
ReloadRoute(r, strip, max) ==
  /\ reload > 0
  /\ Len(states) < MaxStates
  /\ states' = Append(states, [strip |-> strip, max |-> max])
  /\ current' = [current EXCEPT ![r] = Len(states) + 1]
  /\ reload' = reload - 1
  /\ UNCHANGED <<cache, inflight, request>>

\* An entry that is no route of this process is skipped, its settings unread.
SkipEntry ==
  /\ reload > 0
  /\ reload' = reload - 1
  /\ UNCHANGED <<states, current, cache, inflight, request>>

\* route_config of an entry fails: the entries before it stay applied.
AbortReload ==
  /\ reload > 0
  /\ reload' = 0
  /\ UNCHANGED <<states, current, cache, inflight, request>>

ReloadStep ==
  \/ \E entries \in 1 .. MaxEntries : StartReload(entries)
  \/ \E r \in Route, strip \in BOOLEAN, max \in Limits \cup {NoLimit} :
       ReloadRoute(r, strip, max)
  \/ SkipEntry
  \/ AbortReload

RequestStep(q) ==
  \/ \E c \in Client, p \in Path : Arrive(q, c, p)
  \/ RedirectToHttps(q)
  \/ CacheHit(q)
  \/ RouteIn(q)
  \/ NotFound(q)
  \/ CacheInsert(q)
  \/ LoadState(q)
  \/ AccessDenied(q)
  \/ ActionTaken(q)
  \/ RateLimited(q)
  \/ NotLimited(q)
  \/ Acquire(q)
  \/ Admit(q)
  \/ Reject(q)
  \/ Proxy(q)
  \/ TooLarge(q)
  \/ BodyExceeds(q)
  \/ Finish(q)

Next ==
  \/ \E q \in Request : RequestStep(q)
  \/ \E p \in Path : Evict(p)
  \/ ReloadStep

Spec == Init /\ [][Next]_vars

-----------------------------------------------------------------------------
Context ==
  [pc : {"new", "routed", "resolved", "filtered", "counted", "admitted", "proxied"},
   client : Client, path : Path, resolved : 0 .. Len(states),
   state : 0 .. Len(states), guard : 0 .. Len(states),
   count : Nat, since : 0 .. Len(states)]

\* The type invariant; no count of slots ever falls below zero.
TypeOK ==
  /\ states \in Seq([strip : BOOLEAN, max : Limits \cup {NoLimit}])
  /\ Len(states) <= MaxStates
  /\ current \in [Route -> 1 .. Len(states)]
  /\ cache \in [Path -> 0 .. Len(states)]
  /\ inflight \in [State -> [Client -> Nat]]
  /\ reload \in 0 .. MaxEntries
  /\ request \in [Request -> {Free} \cup Context]

\* max_connections: no client has more requests past the limiter of one route
\* state than its configuration allows, however their increments, comparisons
\* and rollbacks interleave.
LimitHeld ==
  \A n \in DOMAIN states, c \in Client :
    states[n].max # NoLimit =>
      Cardinality({q \in Request : Holds(q, n, c) /\ request[q].pc # "counted"})
        <= states[n].max

\* "It decrements the count on drop": every slot counted belongs to a request
\* that holds its guard or is about to compare, whichever way the others
\* ended and however often the route was reloaded meanwhile.
SlotsAccounted ==
  \A n \in State, c \in Client :
    inflight[n][c] = Cardinality({q \in Request : Holds(q, n, c)})

\* A reload counts for every request that arrives after it: path cache or
\* not, no request is filtered under a state older than its arrival.
FreshState ==
  \A q \in Request :
    request[q].pc \in {"filtered", "counted", "admitted", "proxied"}
      => request[q].state >= request[q].since

\* "Every later filter sees a consistent config for this request": the
\* stripping of the path follows the state the request is proxied under.
StrippedAsConfigured ==
  \A q \in Request :
    request[q].pc = "proxied" =>
      states[request[q].resolved].strip = states[request[q].state].strip
=============================================================================
