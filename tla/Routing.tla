------------------------------- MODULE Routing -------------------------------
(***************************************************************************)
(* From the configuration file to the route that serves a request:         *)
(* `Config::routes` and `ServerBuilder::build` at startup, `Proxy::resolve` *)
(* with its tables and path caches, the lookup of the strategy endpoint,   *)
(* and the thread that walks the file again on SIGHUP (reload.rs).         *)
(*                                                                         *)
(* A route is the number of its entry in the file read at startup; it      *)
(* stands for the Arc<RouteRuntime> that tables, caches and registry share. *)
(* A server is a lower-case host name, or Default.                         *)
(*                                                                         *)
(* Abstractions.  Names are values: what lower-casing, the removal of a    *)
(* port and the replacement of `*` do to them is given by functions, as is *)
(* what matchit and the regular expressions match.  The tables never       *)
(* change after startup, so a resolution is one step (Admission has the    *)
(* interleaving of cache and reload).  Of the settings of an entry remains *)
(* an identity, or Invalid when `route_config` refuses them.               *)
(***************************************************************************)
EXTENDS Naturals, Sequences, SequencesExt

CONSTANTS
  Files,         \* what the operator may write: sequences of route entries
  Unreadable,    \* a file that load_config_from cannot read or parse
  Settings,      \* what route_config may return
  Invalid,
  NoHost,        \* a route without a host, a request without one
  Lower,         \* to_ascii_lowercase of the hosts of entries
  RequestHosts,
  HostKey,       \* host of a request -> without its port, in lower case
  Transform,     \* path of an entry -> with "*" as "{*rest}"
  ValidPaths,    \* paths that PATH_REGEX accepts
  ValidRegexes,  \* paths that Regex::new accepts
  RequestPaths,
  Matching,      \* request path -> the patterns that match it, in the order
                 \* in which matchit prefers them
  RegexMatches,  \* request path -> the regular expressions that match it
  Strategies,
  Default,
  MaxEdits,      \* bound on the versions of the file
  MaxSignals     \* bound on the signals

VARIABLES
  phase,         \* boot, build, serve or failed
  file, edits,   \* the file and its version
  routes,        \* the entries being built, in order
  routers,       \* per server: its matchit router, pattern -> route
  regexes,       \* default_regex: <<expression, route>>, in order
  registry,      \* RouteRegistry: key -> route
  caches,        \* per server: its path cache
  settings,      \* per route: the settings of its current RouteState
  strategy,      \* per route: the strategy the endpoint has set
  asked,         \* history: {the endpoint's last call with a route}
  signals,       \* the signals sent so far
  pending,       \* a SIGHUP has come that the watcher has not taken
  watcher,       \* idle, reading, walking
  walk,          \* the entries still to walk
  walked, base,  \* history: the entries walked, the settings before them
  wanted, read   \* history: the versions at the last signal and last reading

\* Hosts are written in DOMAIN Lower, paths in DOMAIN Transform.  No entry has
\* an empty host, which would have the registry key of no host, and `replacen`
\* of the first `*` gives different paths for different paths.
Entries == UNION {ToSet(f) : f \in Files}

Parameters ==
  /\ \A f \in Files : f \in Seq(Entries)
  /\ Unreadable \notin Files /\ Invalid \notin Settings
  /\ \A e \in Entries :
       /\ e.host \in DOMAIN Lower \cup {NoHost} /\ e.regex \in BOOLEAN
       /\ ~e.regex => e.path \in DOMAIN Transform
       /\ e.settings \in Settings \cup {Invalid} /\ e.strategy \in Strategies
  /\ \A h \in DOMAIN Lower : Lower[h] \notin {NoHost, Default}
  /\ \A h \in RequestHosts \ {NoHost} : HostKey[h] \notin {NoHost, Default}
  /\ \A p, q \in DOMAIN Transform : Transform[p] = Transform[q] => p = q
  /\ \A p \in RequestPaths : Matching[p] \in Seq(ToSet(Matching[p]))
  /\ MaxEdits \in Nat /\ MaxSignals \in Nat

tables == <<routes, routers, regexes, registry>>
serving == <<caches, settings, strategy, asked>>
reloading == <<signals, pending, watcher, walk, walked, base, wanted, read>>
vars == <<phase, file, edits, tables, serving, reloading>>

Routes == 1 .. Len(routes)
Nowhere == 0
Empty == [x \in {} |-> Nowhere]
Put(f, k, v) == [x \in DOMAIN f \cup {k} |-> IF x = k THEN v ELSE f[x]]

Init ==
  /\ phase = "boot"
  /\ file = Unreadable /\ edits = 0
  /\ routes = <<>>
  /\ routers = Put(Empty, Default, Empty)
  /\ regexes = <<>>
  /\ registry = Empty
  /\ caches = Put(Empty, Default, Empty)
  /\ settings = <<>>
  /\ strategy = <<>>
  /\ asked = {}
  /\ signals = 0 /\ pending = FALSE
  /\ watcher = "idle" /\ walk = <<>> /\ walked = <<>> /\ base = <<>>
  /\ wanted = 0 /\ read = 0

-----------------------------------------------------------------------------
\* The operator writes the file.
Edit(f) ==
  /\ edits < MaxEdits
  /\ file' = f /\ edits' = edits + 1
  /\ UNCHANGED <<phase, tables, serving, reloading>>

\* RouteEntry::to_route: settings, path or expression, and at least one
\* backend; an entry that answers by itself gets a placeholder.
Buildable(e) ==
  /\ e.settings # Invalid
  /\ IF e.regex THEN e.path \in ValidRegexes ELSE e.path \in ValidPaths
  /\ e.upstreams \/ e.action

\* load_config_from and Config::routes succeed, and there is a route.
RoutesBuilt ==
  file # Unreadable /\ file # <<>> /\ \A i \in DOMAIN file : Buildable(file[i])

Failed ==
  /\ phase' = "failed"
  /\ UNCHANGED <<file, edits, tables, serving, reloading>>

\* main: the file is read and all of its entries become routes,
ReadRoutes ==
  /\ phase = "boot" /\ RoutesBuilt
  /\ phase' = "build"
  /\ routes' = file
  /\ settings' = <<>>
  /\ UNCHANGED <<file, edits, routers, regexes, registry, caches, strategy,
                 asked, reloading>>

\* or the process ends with an error.
ReadFails ==
  /\ phase = "boot" /\ ~RoutesBuilt
  /\ Failed

\* Mutant: the host is taken as it is written.
ServerAsWritten(e) == IF e.host = NoHost THEN Default ELSE e.host

\* The server an entry belongs to: vhost_routers are keyed in lower case.
Server(e) == IF e.host = NoHost THEN Default ELSE Lower[e.host]

\* The key of a route in the registry: build has the path of the Route, which
\* is transformed already.
RegistryKey(e) ==
  [host |-> Server(e), regex |-> e.regex,
   path |-> IF e.regex THEN e.path ELSE Transform[e.path]]

\* Mutant: the path of an entry is taken as it is written.
RouteKeyAsWritten(e) == [host |-> Server(e), regex |-> e.regex, path |-> e.path]

\* RouteEntry::route_key: the key by which a reload finds the route.
RouteKey(e) ==
  [host |-> Server(e), regex |-> e.regex,
   path |-> IF e.regex THEN e.path ELSE Transform[e.path]]

Built == Len(settings)

\* The router an entry is inserted into, new for a new virtual host.
RouterOf(e) == IF Server(e) \in DOMAIN routers THEN routers[Server(e)] ELSE Empty

Conflict(e) == ~e.regex /\ Transform[e.path] \in DOMAIN RouterOf(e)

\* build, one turn of the loop: a runtime and its entry in the registry, and
\* then a regular expression or a path of a router.
AddRoute ==
  LET i == Built + 1
      e == routes[i]
  IN /\ phase = "build" /\ Built < Len(routes)
     /\ ~Conflict(e)
     /\ settings' = Append(settings, e.settings)
     /\ strategy' = Append(strategy, e.strategy)
     /\ registry' = Put(registry, RegistryKey(e), i)
     /\ IF e.regex
        THEN /\ regexes' = Append(regexes, <<e.path, i>>)
             /\ UNCHANGED <<routers, caches>>
        ELSE /\ routers' = Put(routers, Server(e), Put(RouterOf(e), Transform[e.path], i))
             /\ caches' = Put(caches, Server(e), Empty)
             /\ UNCHANGED regexes
     /\ UNCHANGED <<phase, file, edits, routes, asked, reloading>>

\* matchit refuses a path it has: `expect("Invalid route")`.
InvalidRoute ==
  /\ phase = "build" /\ Built < Len(routes)
  /\ Conflict(routes[Built + 1])
  /\ Failed

\* All routes are in: the reload watcher starts, and the server.
Serve ==
  /\ phase = "build" /\ Built = Len(routes)
  /\ phase' = "serve"
  /\ UNCHANGED <<file, edits, tables, serving, reloading>>

-----------------------------------------------------------------------------
\* Proxy::route_in: the pattern that matchit prefers.
RouteIn(server, path) ==
  LET hits == {k \in DOMAIN Matching[path] : Matching[path][k] \in DOMAIN routers[server]}
  IN IF hits = {} THEN Nowhere ELSE routers[server][Matching[path][Min(hits)]]

\* The first regular expression that matches; virtual hosts have none.
RegexIn(server, path) ==
  LET hits == {k \in DOMAIN regexes : regexes[k][1] \in RegexMatches[path]}
  IN IF server # Default \/ hits = {} THEN Nowhere ELSE regexes[Min(hits)][2]

\* resolve_in without its cache.
LookUp(server, path) ==
  IF RouteIn(server, path) # Nowhere THEN RouteIn(server, path)
  ELSE RegexIn(server, path)

\* Proxy::resolve: the server a request is for.
ServerOf(host) ==
  IF host # NoHost /\ HostKey[host] \in DOMAIN routers \ {Default}
  THEN HostKey[host] ELSE Default

Resolved(host, path) ==
  LET s == ServerOf(host)
  IN IF path \in DOMAIN caches[s] THEN caches[s][path] ELSE LookUp(s, path)

\* A path that the server's own cache does not have: looked up, and kept if
\* there is a route.
ResolveMiss(host, path) ==
  LET s == ServerOf(host)
  IN /\ phase = "serve"
     /\ path \notin DOMAIN caches[s]
     /\ LookUp(s, path) # Nowhere
     /\ caches' = [caches EXCEPT ![s] = Put(@, path, LookUp(s, path))]
     /\ UNCHANGED <<phase, file, edits, tables, settings, strategy, asked, reloading>>

\* The cache is bounded and drops what it likes.
Evict(s, path) ==
  /\ path \in DOMAIN caches[s]
  /\ caches' = [caches EXCEPT ![s] = [p \in DOMAIN @ \ {path} |-> @[p]]]
  /\ UNCHANGED <<phase, file, edits, tables, settings, strategy, asked, reloading>>

\* Mutant: the endpoint finds the route of a path in the registry.
EndpointRouteByKey(path) ==
  LET keys == {k \in DOMAIN registry : k.path \in ToSet(Matching[path])}
  IN IF keys = {} THEN Nowhere ELSE registry[CHOOSE k \in keys : TRUE]

\* Proxy::route, the endpoint's lookup: default router, no expressions.
EndpointRoute(path) == RouteIn(Default, path)

\* The endpoint sets the strategy of a path's route; without one it answers
\* 400 and nothing changes.
SetStrategy(path, s) ==
  LET r == EndpointRoute(path)
  IN /\ phase = "serve"
     /\ r # Nowhere
     /\ strategy' = [strategy EXCEPT ![r] = s]
     /\ asked' = {[path |-> path, strategy |-> s]}
     /\ UNCHANGED <<phase, file, edits, tables, caches, settings, reloading>>

-----------------------------------------------------------------------------
\* A SIGHUP: the handler notes that there is one.
Signal ==
  /\ phase = "serve" /\ signals < MaxSignals
  /\ signals' = signals + 1
  /\ pending' = TRUE
  /\ wanted' = edits
  /\ UNCHANGED <<phase, file, edits, tables, serving, watcher, walk, walked,
                 base, read>>

\* signals.forever() yields the signals that came since it last did, as one.
TakeSignal ==
  /\ watcher = "idle" /\ pending
  /\ watcher' = "reading" /\ pending' = FALSE
  /\ UNCHANGED <<phase, file, edits, tables, serving, signals, walk, walked,
                 base, wanted, read>>

\* load_config_from, which may fail.
ReadFile ==
  /\ watcher = "reading"
  /\ read' = edits
  /\ walked' = <<>> /\ base' = settings
  /\ IF file = Unreadable
     THEN watcher' = "idle" /\ walk' = <<>>
     ELSE watcher' = "walking" /\ walk' = file
  /\ UNCHANGED <<phase, file, edits, tables, serving, signals, pending, wanted>>

Known(e) == RouteKey(e) \in DOMAIN registry

\* RouteRuntime::reload of the route that has the entry's key.
ReloadRoute ==
  LET e == Head(walk)
  IN /\ watcher = "walking" /\ walk # <<>>
     /\ Known(e) /\ e.settings # Invalid
     /\ settings' = [settings EXCEPT ![registry[RouteKey(e)]] = e.settings]
     /\ walk' = Tail(walk) /\ walked' = Append(walked, e)
     /\ UNCHANGED <<phase, file, edits, tables, caches, strategy, asked, signals,
                    pending, watcher, base, wanted, read>>

\* An entry of no route of this process is skipped, its settings unread.
SkipEntry ==
  /\ watcher = "walking" /\ walk # <<>>
  /\ ~Known(Head(walk))
  /\ walk' = Tail(walk) /\ walked' = Append(walked, Head(walk))
  /\ UNCHANGED <<phase, file, edits, tables, serving, signals, pending, watcher,
                 base, wanted, read>>

\* Settings of a known route are refused: the reload ends where it is.
AbortReload ==
  /\ watcher = "walking" /\ walk # <<>>
  /\ Known(Head(walk)) /\ Head(walk).settings = Invalid
  /\ watcher' = "idle" /\ walk' = <<>>
  /\ UNCHANGED <<phase, file, edits, tables, serving, signals, pending, walked,
                 base, wanted, read>>

\* Mutant: the end of a reload clears the note as well.
EndReloadClearing ==
  /\ watcher = "walking" /\ walk = <<>>
  /\ watcher' = "idle" /\ pending' = FALSE
  /\ UNCHANGED <<phase, file, edits, tables, serving, signals, walk, walked,
                 base, wanted, read>>

\* The walk is over.
EndReload ==
  /\ watcher = "walking" /\ walk = <<>>
  /\ watcher' = "idle"
  /\ UNCHANGED <<phase, file, edits, tables, serving, signals, pending, walk,
                 walked, base, wanted, read>>

-----------------------------------------------------------------------------
Next ==
  \/ \E f \in Files \cup {Unreadable} : Edit(f)
  \/ ReadRoutes \/ ReadFails \/ AddRoute \/ InvalidRoute \/ Serve
  \/ \E h \in RequestHosts, p \in RequestPaths : ResolveMiss(h, p)
  \/ \E s \in DOMAIN caches, p \in RequestPaths : Evict(s, p)
  \/ \E p \in RequestPaths, s \in Strategies : SetStrategy(p, s)
  \/ Signal \/ TakeSignal \/ ReadFile
  \/ ReloadRoute \/ SkipEntry \/ AbortReload \/ EndReload

Spec == Init /\ [][Next]_vars

-----------------------------------------------------------------------------
\* The type invariant.
TypeOK ==
  /\ phase \in {"boot", "build", "serve", "failed"}
  /\ file \in Files \cup {Unreadable} /\ edits \in 0 .. MaxEdits
  /\ routes \in Files \cup {<<>>}
  /\ settings \in Seq(Settings) /\ strategy \in Seq(Strategies)
  /\ Len(settings) <= Len(routes) /\ Len(strategy) = Len(settings)
  /\ DOMAIN caches = DOMAIN routers
  /\ \A s \in DOMAIN caches : DOMAIN caches[s] \subseteq RequestPaths
  /\ watcher \in {"idle", "reading", "walking"}
  /\ {wanted, read} \subseteq 0 .. edits

\* What an entry says it serves, by its own words: a host in any case.
SameServer(e, h) ==
  IF h = NoHost THEN e.host = NoHost ELSE e.host # NoHost /\ Lower[e.host] = h

\* The reference: of the entries of the request's server the one whose path
\* matches best, and else, for the default server, the first expression.
Serves(h, path) ==
  LET plain == {i \in Routes : ~routes[i].regex /\ SameServer(routes[i], h)}
      best == {k \in DOMAIN Matching[path] :
                 \E i \in plain : Transform[routes[i].path] = Matching[path][k]}
      exps == {i \in Routes : routes[i].regex /\ routes[i].path \in RegexMatches[path]}
  IN IF best # {}
     THEN {i \in plain : Transform[routes[i].path] = Matching[path][Min(best)]}
     ELSE IF h # NoHost THEN {}
     ELSE {i \in exps : \A j \in exps : i <= j}

NamedHost(host) ==
  IF host # NoHost /\ \E i \in Routes : ~routes[i].regex /\ SameServer(routes[i], HostKey[host])
  THEN HostKey[host] ELSE NoHost

(***************************************************************************)
(* A request is served by the route whose entry says so, whatever the     *)
(* case of its host in the file and in the request, however the tables     *)
(* were filled and whatever is cached.                                     *)
(***************************************************************************)
ResolvesAsConfigured ==
  phase = "serve" =>
    \A h \in RequestHosts, p \in RequestPaths :
      LET serves == Serves(NamedHost(h), p)
      IN Resolved(h, p) \in IF serves = {} THEN {Nowhere} ELSE serves

(***************************************************************************)
(* A strategy that the endpoint accepted for a path is that of the route   *)
(* which serves this path to clients that name no virtual host, although   *)
(* the endpoint's lookup knows neither caches nor hosts.                   *)
(***************************************************************************)
StrategyReachesTraffic ==
  \A a \in asked :
    LET r == Resolved(NoHost, a.path)
    IN r # Nowhere /\ strategy[r] = a.strategy

SameRoute(e, i) ==
  /\ e.regex = routes[i].regex /\ e.path = routes[i].path
  /\ SameServer(e, IF routes[i].host = NoHost THEN NoHost ELSE Lower[routes[i].host])

Twin(i) == \E j \in Routes \ {i} : SameRoute(routes[j], i)

(***************************************************************************)
(* A reload reaches the routes it walks over and no other: the settings of *)
(* a route are those of the last entry walked that names it, and otherwise *)
(* those before, also when other entries are unknown or the walk stops in  *)
(* the middle, at an invalid entry; KeepsCurrentConfig is what the message *)
(* of that case says instead.  (Of two routes with one key the registry    *)
(* knows the second only.)                                                 *)
(***************************************************************************)
AppliedAsWalked ==
  phase = "serve" /\ read > 0 =>
    \A i \in Routes : ~Twin(i) =>
      LET own == {k \in DOMAIN walked : SameRoute(walked[k], i)}
      IN settings[i] = IF own = {} THEN base[i] ELSE walked[Max(own)].settings

(***************************************************************************)
(* "Config reload failed, keeping current config" (what the watcher logs): *)
(* a reload that fails, at the file or at an entry, leaves the settings of *)
(* all routes as they were when it read the file.                          *)
(***************************************************************************)
ReloadFails ==
  watcher # "idle" /\ watcher' = "idle" /\ (watcher = "reading" \/ walk # <<>>)

KeepsCurrentConfig == [][ReloadFails => settings' = base']_vars

(***************************************************************************)
(* Signals may merge but none is lost: when the watcher has nothing to do  *)
(* it has read the file at least as late as the last signal came.          *)
(***************************************************************************)
SignalServed == ~pending /\ watcher # "reading" => read >= wanted
=============================================================================
